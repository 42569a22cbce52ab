------------------------------- MODULE Logger -------------------------------
(***************************************************************************)
(* class Logger of src/log/log.cc: threads push logs to buffers, one for   *)
(* level logs and one for each topic; the logging thread, started by the   *)
(* first push, swaps the buffers out and writes them; stop() ends the      *)
(* thread and writes the rest, and a fatal log stops the logger and aborts *)
(* the process.  What a thread does to a buffer it does holding the mutex  *)
(* of the buffer: one step here.  A wait for the event ends after          *)
(* FLG_log_flush_ms at the latest, so it never blocks.  The handler of a   *)
(* signal, which takes no mutex, is not modelled.                          *)
(***************************************************************************)
EXTENDS Naturals, Integers, Sequences, FiniteSets, SequencesExt

CONSTANTS Thread,    \* threads that log
          main,      \* the one that runs the static initialisers
          Buffers,   \* number of buffers: _llog and the topics of _tlog
          Capacity,  \* FLG_log_max_buffer_size, in logs
          Logs,      \* bound: logs each thread pushes
          Early      \* TRUE: static initialisers log, too

ASSUME LoggerAssumption ==
    /\ main \in Thread
    /\ Buffers \in Nat \ {0} /\ Capacity \in Nat \ {0} /\ Logs \in Nat
    /\ Early \in BOOLEAN

VARIABLES state,     \* _stop
          started,   \* g_thread_started
          initDone,  \* g_init_done
          buf,       \* x.buf of each buffer
          out,       \* the buffer it is swapped with
          file,      \* what was written
          event,     \* _log_event
          signaled,  \* what the wait for it returned
          next,      \* the buffer the thread swaps out next
          writer,    \* where the logging thread is
          pc,        \* where each thread is
          pushed,    \* logs each thread has pushed
          accepted,  \* history: logs that were put into each buffer
          trimmed    \* history: logs dropped because a buffer was full

buffers == <<buf, out, file>>
thread == <<event, signaled, next, writer>>
history == <<pushed, accepted, trimmed>>
vars == <<state, started, initDone, buffers, thread, pc, history>>

Buffer == 1..Buffers                   \* 1: _llog
Log == Thread \X (1..Logs)

TypeOK ==
    /\ state \in -2..3
    /\ started \in BOOLEAN /\ initDone \in BOOLEAN
    /\ buf \in [Buffer -> Seq(Log)] /\ out \in [Buffer -> Seq(Log)] /\ file \in [Buffer -> Seq(Log)]
    /\ event \in BOOLEAN /\ signaled \in BOOLEAN
    /\ next \in 1..Buffers + 1
    /\ writer \in {"none", "init", "wait", "swap", "write", "ended"}
    /\ pc \in [Thread -> {"run", "start", "push", "wait2", "flush", "wait3", "aborted"}
                          \X {"none", "stop", "fatal"}]
    /\ pushed \in [Thread -> 0..Logs]
    /\ accepted \in [Buffer -> Seq(Log)]
    /\ trimmed \subseteq Log

Init ==
    /\ state = -2 /\ started = FALSE /\ initDone = FALSE
    /\ buf = [b \in Buffer |-> <<>>] /\ out = buf /\ file = buf
    /\ event = FALSE /\ signaled = FALSE /\ next = 1 /\ writer = "none"
    /\ pc = [t \in Thread |-> <<"run", "none">>]
    /\ pushed = [t \in Thread |-> 0]
    /\ accepted = buf /\ trimmed = {}

Aborted == \E t \in Thread : pc[t][1] = "aborted"
At(t, where) == pc[t][1] = where /\ ~ Aborted
Goto(t, where) == pc' = [pc EXCEPT ![t][1] = where]
Calls(t, where, why) == pc' = [pc EXCEPT ![t] = <<where, why>>]
MayLog(t) == At(t, "run") /\ (initDone \/ (Early /\ t = main))

(* The static initialiser of log.cc.                                       *)
InitDone ==
    /\ ~ initDone /\ At(main, "run")
    /\ initDone' = TRUE
    /\ UNCHANGED <<state, started, buffers, thread, pc, history>>

-----------------------------------------------------------------------------
(* push_level_log, push_topic_log: the first to come starts the thread.    *)

StartBegins(t) ==
    /\ MayLog(t) /\ pushed[t] < Logs
    /\ ~ started
    /\ started' = TRUE
    /\ state = -2 /\ state' = -1
    /\ Goto(t, "start")
    /\ UNCHANGED <<initDone, buffers, thread, history>>

StartEnds(t) ==
    /\ At(t, "start")
    /\ state' = 0
    /\ writer' = "init"
    /\ Goto(t, "push")
    /\ UNCHANGED <<started, initDone, buffers, event, signaled, next, history>>

(* Of a buffer that is full the older half goes, up to the end of the log  *)
(* in the middle.                                                          *)
Trimmed(s) == SubSeq(s, Len(s) \div 2 + 2, Len(s))

Push(t, b) ==
    /\ (MayLog(t) /\ started) \/ At(t, "push")
    /\ pushed[t] < Logs
    /\ pushed' = [pushed EXCEPT ![t] = @ + 1]
    /\ IF state = 0
       THEN LET full == Len(buf[b]) >= Capacity
                kept == IF full THEN Trimmed(buf[b]) ELSE buf[b]
                log  == <<t, pushed[t] + 1>>
            IN  /\ buf' = [buf EXCEPT ![b] = Append(kept, log)]
                /\ accepted' = [accepted EXCEPT ![b] = Append(@, log)]
                /\ trimmed' = trimmed \cup (ToSet(buf[b]) \ ToSet(kept))
                /\ event' = (event \/ 2 * (Len(kept) + 1) > Capacity)
       ELSE UNCHANGED <<buf, accepted, trimmed, event>>
    /\ Goto(t, "run")
    /\ UNCHANGED <<state, started, initDone, out, file, signaled, next, writer>>

-----------------------------------------------------------------------------
(* stop, push_fatal_log                                                    *)

(* The call returns; a fatal log is written and aborts the process.        *)
AfterStop(t, why) == IF why = "fatal" THEN <<"aborted", "fatal">> ELSE <<"run", "none">>

(* Slip: a second stop() returns at once.                                  *)
StopTwice(t, why) ==
    /\ MayLog(t)
    /\ IF state = 0
       THEN state' = 1 /\ event' = TRUE /\ Calls(t, "wait2", why)
       ELSE UNCHANGED <<state, event>> /\ pc' = [pc EXCEPT ![t] = AfterStop(t, why)]
    /\ UNCHANGED <<started, initDone, buffers, signaled, next, writer, history>>

Stop(t, why) ==
    /\ MayLog(t)
    /\ IF state < 0
       THEN UNCHANGED <<state, event>> /\ pc' = [pc EXCEPT ![t] = AfterStop(t, why)]
       ELSE IF state = 0
       THEN state' = 1 /\ event' = TRUE /\ Calls(t, "wait2", why)
       ELSE UNCHANGED <<state, event>> /\ Calls(t, "wait3", why)
    /\ UNCHANGED <<started, initDone, buffers, signaled, next, writer, history>>

StopWaited(t) ==
    /\ At(t, "wait2") /\ state = 2
    /\ Goto(t, "flush")
    /\ UNCHANGED <<state, started, initDone, buffers, thread, history>>

(* What is left is written, the level logs first.                          *)
StopFlushes(t, b) ==
    /\ At(t, "flush") /\ buf[b] # <<>>
    /\ file' = [file EXCEPT ![b] = @ \o buf[b]]
    /\ buf' = [buf EXCEPT ![b] = <<>>]
    /\ UNCHANGED <<state, started, initDone, out, thread, pc, history>>

StopEnds(t) ==
    /\ At(t, "flush") /\ \A b \in Buffer : buf[b] = <<>>
    /\ state' = 3
    /\ pc' = [pc EXCEPT ![t] = AfterStop(t, pc[t][2])]
    /\ UNCHANGED <<started, initDone, buffers, thread, history>>

OtherStopEnds(t) ==
    /\ At(t, "wait3") /\ state = 3
    /\ pc' = [pc EXCEPT ![t] = AfterStop(t, pc[t][2])]
    /\ UNCHANGED <<state, started, initDone, buffers, thread, history>>

-----------------------------------------------------------------------------
(* thread_fun                                                              *)

Writer(where) == writer = where /\ ~ Aborted

WriterInit ==
    /\ Writer("init") /\ initDone
    /\ writer' = "wait"
    /\ UNCHANGED <<state, started, initDone, buffers, event, signaled, next, pc, history>>

(* Slip: the wait has no timeout.                                          *)
WriterWakesSignaled ==
    /\ Writer("wait") /\ event
    /\ IF state # 0
       THEN /\ writer' = "ended" /\ state' = 2
            /\ UNCHANGED <<signaled, next>>
       ELSE /\ writer' = "swap" /\ signaled' = event /\ next' = 1
            /\ UNCHANGED state
    /\ UNCHANGED <<started, initDone, buffers, event, pc, history>>

(* The wait ends, signaled or not, and _stop is looked at.                 *)
WriterWakes ==
    /\ Writer("wait")
    /\ IF state # 0
       THEN /\ writer' = "ended" /\ state' = 2
            /\ UNCHANGED <<signaled, next>>
       ELSE /\ writer' = "swap" /\ signaled' = event /\ next' = 1
            /\ UNCHANGED state
    /\ UNCHANGED <<started, initDone, buffers, event, pc, history>>

Swap ==
    /\ Writer("swap")
    /\ out' = [out EXCEPT ![next] = buf[next]]
    /\ buf' = [buf EXCEPT ![next] = <<>>]
    /\ next' = next + 1
    /\ writer' = "write"
    /\ UNCHANGED <<state, started, initDone, file, event, signaled, pc, history>>

(* Slip: the buffer that was swapped out is not cleared.                   *)
WriteUncleared ==
    /\ Writer("write")
    /\ file' = [b \in Buffer |-> file[b] \o out[b]]
    /\ out' = [b \in Buffer |-> IF Len(out[b]) > 1 THEN Tail(out[b]) ELSE <<>>]
    /\ writer' = IF next > Buffers THEN "wait" ELSE "swap"
    /\ event' = (event /\ ~ (next > Buffers /\ signaled))
    /\ UNCHANGED <<state, started, initDone, buf, signaled, next, pc, history>>

Write ==
    /\ Writer("write")
    /\ file' = [b \in Buffer |-> file[b] \o out[b]]
    /\ out' = [b \in Buffer |-> <<>>]
    /\ writer' = IF next > Buffers THEN "wait" ELSE "swap"
    /\ event' = (event /\ ~ (next > Buffers /\ signaled))
    /\ UNCHANGED <<state, started, initDone, buf, signaled, next, pc, history>>

-----------------------------------------------------------------------------
WriterStep == WriterInit \/ WriterWakes \/ Swap \/ Write

InCall(t) ==
    \/ StartEnds(t) \/ StopWaited(t) \/ StopEnds(t) \/ OtherStopEnds(t)
    \/ \E b \in Buffer : StopFlushes(t, b)
    \/ pc[t][1] = "push" /\ (\E b \in Buffer : Push(t, b))

User(t) ==
    \/ StartBegins(t)
    \/ pc[t][1] = "run" /\ (\E b \in Buffer : Push(t, b))
    \/ \E why \in {"stop", "fatal"} : Stop(t, why)

Next == InitDone \/ WriterStep \/ (\E t \in Thread : InCall(t) \/ User(t))

Spec == Init /\ [][Next]_vars

(* The threads are scheduled, and the static initialisers end unless one   *)
(* of them is stuck in a call.  Nobody has to log or to stop the logger.   *)
Fairness == WF_vars(InitDone) /\ WF_vars(WriterStep) /\ (\A t \in Thread : WF_vars(InCall(t)))

FairSpec == Spec /\ Fairness

-----------------------------------------------------------------------------
(* What is left of s without what is in dropped.                           *)
Without(s, dropped) ==
    LET left[i \in 0..Len(s)] ==
          IF i = 0 THEN <<>>
          ELSE IF s[i] \in dropped THEN left[i - 1] ELSE Append(left[i - 1], s[i])
    IN  left[Len(s)]

(* The logs a buffer accepted are in the file, in the buffer swapped out   *)
(* or in the buffer, once each and in the order they were pushed, but for  *)
(* those dropped from a full buffer.                                       *)
LogsInOrder ==
    \A b \in Buffer :
       file[b] \o out[b] \o buf[b] = Without(accepted[b], trimmed)

(* Once a stop() that found the logger running has returned, everything    *)
(* that was accepted is written, nothing more will be, and the thread has  *)
(* ended; so it is when a fatal log aborts the process after it.           *)
StoppedAllWritten ==
    (state = 3 \/ \E t \in Thread : pc[t][1] = "aborted" /\ state > 0) =>
       /\ writer = "ended"
       /\ \A b \in Buffer : buf[b] = <<>> /\ out[b] = <<>>

(* "FLOG -> fatal log  A fatal log will terminate the program."            *)
FatalTerminates ==
    \A t \in Thread : pc[t][2] = "fatal" ~> Aborted

(* A call of stop() returns, unless a fatal log ends the process first, as *)
(* it does; and what was pushed to a buffer leaves it, whether anybody     *)
(* pushes again or stops the logger or not.                                *)
CallsReturn ==
    /\ FatalTerminates
    /\ \A t \in Thread : pc[t][2] = "stop" ~> (pc[t][2] # "stop" \/ Aborted)
    /\ \A b \in Buffer : buf[b] # <<>> ~> (buf[b] = <<>> \/ Aborted)
=============================================================================
