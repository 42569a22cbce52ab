---------------------------- MODULE TimerManager ----------------------------
(***************************************************************************)
(* TimerManager of src/co/sched.h and what the scheduler loop does with    *)
(* it: coroutines that sleep, or that wait with a timeout for I/O or for   *)
(* an event; the multimap of their timers, with the iterator _it kept as a *)
(* hint for the next insertion; and _wait_ms, the time epoll_wait is given.*)
(***************************************************************************)
EXTENDS Integers, Sequences, SequencesExt, FiniteSets

CONSTANTS Waiters,    \* coroutines of the scheduler
          Delays,     \* timeouts in ms
          EndOfTime,  \* bound on the clock
          Nobody      \* no coroutine; _timer.end()

(* A delay is a uint32_t, and Nobody is no coroutine.                      *)
ASSUME TimersAssumption ==
    /\ Delays \subseteq Nat /\ EndOfTime \in Nat
    /\ Nobody \notin Waiters

Infinite == -1

VARIABLES clock,    \* now::ms()
          timers,   \* _timer: the coroutine and the time of each, in order
          hint,     \* _it: the coroutine whose timer it points to, or Nobody
          it,       \* co->it points to the timer of co
          waitx,    \* state of co->waitx, "none" without one
          where,    \* what each coroutine does
          active,   \* the coroutine that runs, or Nobody
          readyCo,  \* coroutines added by add_ready_task
          due,      \* those check_timeout has collected
          phase,    \* what the loop does
          waitMs,   \* _wait_ms
          looked    \* the clock when check_timeout last ran

coVars == <<it, waitx, where, active>>
loVars == <<readyCo, due, phase, waitMs, looked>>
tmVars == <<clock, timers, hint, coVars, loVars>>

TimersTypeOK ==
    /\ clock \in 0..EndOfTime
    /\ timers \in Seq([co : Waiters, at : Nat])
    /\ hint \in Waiters \cup {Nobody}
    /\ it \in [Waiters -> BOOLEAN]
    /\ waitx \in [Waiters -> {"none", "wait", "ready", "timeout"}]
    /\ where \in [Waiters -> {"new", "runs", "sleep", "io", "event"}]
    /\ active \in Waiters \cup {Nobody}
    /\ readyCo \subseteq Waiters
    /\ due \in Seq(Waiters)
    /\ phase \in {"poll", "tasks", "due"}
    /\ waitMs \in {Infinite} \cup Delays \cup Nat
    /\ looked \in 0..EndOfTime

TimersInit ==
    /\ clock = 0 /\ timers = <<>> /\ hint = Nobody
    /\ it = [c \in Waiters |-> FALSE]
    /\ waitx = [c \in Waiters |-> "none"]
    /\ where = [c \in Waiters |-> "new"]
    /\ active = Nobody
    /\ readyCo = {} /\ due = <<>>
    /\ phase = "poll" /\ waitMs = Infinite /\ looked = 0

HasTimer(c) == \E i \in DOMAIN timers : timers[i].co = c
IndexOf(c) == CHOOSE i \in DOMAIN timers : timers[i].co = c
IsDue(c) == \E i \in DOMAIN due : due[i] = c

PassTime ==
    /\ clock < EndOfTime
    /\ clock' = clock + 1
    /\ UNCHANGED <<timers, hint, coVars, loVars>>

-----------------------------------------------------------------------------
(* A coroutine that runs                                                   *)

(* _wait_ms is unsigned: the infinite wait is the longest.                 *)
NewWait(ms) == IF waitMs = Infinite \/ ms < waitMs THEN ms ELSE waitMs

(* The places a timer may be inserted at: emplace_hint puts it next to the *)
(* hint if that is in order, and among equals otherwise at either end.     *)
Places(at) ==
    {i \in 1..(Len(timers) + 1) :
        /\ i > 1 => timers[i - 1].at <= at
        /\ i <= Len(timers) => at <= timers[i].at}

(* sleep(ms), or add_timer(ms) and yield() in a wait for I/O or an event.  *)
Suspend(kind, ms) ==
    /\ active # Nobody
    /\ \E i \in Places(clock + ms) :
          timers' = InsertAt(timers, i, [co |-> active, at |-> clock + ms])
    /\ hint' = active
    /\ it' = [it EXCEPT ![active] = (kind # "sleep")]
    /\ waitx' = [waitx EXCEPT ![active] = IF kind = "event" THEN "wait" ELSE "none"]
    /\ where' = [where EXCEPT ![active] = kind]
    /\ waitMs' = NewWait(ms)
    /\ active' = Nobody
    /\ UNCHANGED <<clock, readyCo, due, phase, looked>>

EndTask ==
    /\ active # Nobody
    /\ where' = [where EXCEPT ![active] = "new"]
    /\ waitx' = [waitx EXCEPT ![active] = "none"]
    /\ active' = Nobody
    /\ UNCHANGED <<clock, timers, hint, it, loVars>>

-----------------------------------------------------------------------------
(* The loop                                                                *)

DelTimer(c) ==
    LET i == IndexOf(c)
    IN  /\ timers' = RemoveAt(timers, i)
        /\ hint' = IF hint # c THEN hint
                   ELSE IF i < Len(timers) THEN timers[i + 1].co ELSE Nobody

(* resume(): a timer the coroutine knows of is deleted first.              *)
ResumeCo(c) ==
    /\ active = Nobody
    /\ IF it[c] THEN DelTimer(c) ELSE UNCHANGED <<timers, hint>>
    /\ it' = [it EXCEPT ![c] = FALSE]
    /\ where' = [where EXCEPT ![c] = "runs"]
    /\ active' = c
    /\ UNCHANGED <<clock, waitx, waitMs, looked>>

(* A signal claims the waitx of a coroutine at any time.                   *)
SignalWaitx(c) ==
    /\ where[c] = "event" /\ waitx[c] = "wait"
    /\ waitx' = [waitx EXCEPT ![c] = "ready"]
    /\ readyCo' = readyCo \cup {c}
    /\ UNCHANGED <<clock, timers, hint, it, where, active, due, phase, waitMs, looked>>

(* I/O came for a coroutine that waits for it.                             *)
ResumeForEvent(c) ==
    /\ phase = "poll" /\ where[c] = "io"
    /\ ResumeCo(c)
    /\ UNCHANGED <<readyCo, due, phase>>

EpollReturns ==
    /\ phase = "poll" /\ active = Nobody
    /\ phase' = "tasks"
    /\ UNCHANGED <<clock, timers, hint, coVars, readyCo, due, waitMs, looked>>

ResumeTask(c) ==
    /\ phase = "tasks"
    /\ where[c] = "new" \/ c \in readyCo
    /\ ResumeCo(c)
    /\ readyCo' = readyCo \ {c}
    /\ UNCHANGED <<due, phase>>

(* The timers from the first up to the n-th have expired, and no more.     *)
ExpiredUpTo(n) ==
    /\ \A i \in 1..n : timers[i].at <= clock
    /\ n < Len(timers) => timers[n + 1].at > clock

(* The coroutines of S in the order of their timers.                       *)
InOrder(S) ==
    {d \in [1..Cardinality(S) -> S] :
        \A i, j \in DOMAIN d : i < j => IndexOf(d[i]) < IndexOf(d[j])}

(* Slip: _it is left pointing to a timer that is erased.                   *)
HintKept(n) == hint

HintAfter(n) ==
    IF hint # Nobody /\ timers[IndexOf(hint)].at <= clock
    THEN IF n < Len(timers) THEN timers[n + 1].co ELSE Nobody
    ELSE hint

CheckTimeout ==
    /\ phase = "tasks" /\ active = Nobody
    /\ \E n \in 0..Len(timers) :
          LET gone  == {timers[i].co : i \in 1..n}
              taken == {c \in gone : waitx[c] \in {"none", "wait"}}
          IN  /\ ExpiredUpTo(n)
              /\ timers' = SubSeq(timers, n + 1, Len(timers))
              /\ hint' = HintAfter(n)
              /\ it' = [c \in Waiters |-> it[c] /\ c \notin gone]
              /\ waitx' = [c \in Waiters |->
                             IF c \in gone /\ waitx[c] = "wait" THEN "timeout" ELSE waitx[c]]
              /\ due' \in InOrder(taken)
              /\ waitMs' = IF n < Len(timers) THEN timers[n + 1].at - clock ELSE Infinite
    /\ looked' = clock
    /\ phase' = "due"
    /\ UNCHANGED <<clock, where, active, readyCo>>

ResumeDue ==
    /\ phase = "due" /\ due # <<>>
    /\ ResumeCo(Head(due))
    /\ due' = Tail(due)
    /\ UNCHANGED <<readyCo, phase>>

RoundEnds ==
    /\ phase = "due" /\ due = <<>> /\ active = Nobody
    /\ phase' = "poll"
    /\ UNCHANGED <<clock, timers, hint, coVars, readyCo, due, waitMs, looked>>

TimersNext ==
    \/ PassTime
    \/ \E kind \in {"sleep", "io", "event"}, ms \in Delays : Suspend(kind, ms)
    \/ EndTask
    \/ \E c \in Waiters : SignalWaitx(c) \/ ResumeForEvent(c) \/ ResumeTask(c)
    \/ EpollReturns \/ CheckTimeout \/ ResumeDue \/ RoundEnds

TimersSpec == TimersInit /\ [][TimersNext]_tmVars

-----------------------------------------------------------------------------
(* The iterators kept elsewhere point to timers of the map: the hint, and  *)
(* the one resume() erases through.  A coroutine has at most one timer,    *)
(* none when it runs or is about to be resumed for its timeout.            *)
TimersSafe ==
    /\ hint # Nobody => HasTimer(hint)
    /\ \A i, j \in DOMAIN timers : timers[i].co = timers[j].co => i = j
    /\ \A c \in Waiters :
          /\ it[c] => HasTimer(c)
          /\ HasTimer(c) => where[c] \in {"sleep", "io", "event"} /\ ~ IsDue(c)

(* epoll_wait is never given more time than was left to the first timer    *)
(* when check_timeout looked, and a coroutine that waits has a timer or is *)
(* about to be resumed.                                                    *)
TimersInTime ==
    /\ \A i \in DOMAIN timers : waitMs # Infinite /\ looked + waitMs <= timers[i].at
    /\ \A c \in Waiters :
          where[c] \in {"sleep", "io", "event"} => HasTimer(c) \/ IsDue(c) \/ c \in readyCo

(* No timer is lost and none is used after it is gone.                     *)
TimersKept == TimersSafe /\ TimersInTime
=============================================================================
