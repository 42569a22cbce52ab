-------------------------- MODULE SchedLoopProofs --------------------------
(***************************************************************************)
(* Proofs about SchedLoop, for any number of threads that add tasks or     *)
(* stop the scheduler and any set of tasks; and about SockIo, for any      *)
(* schedulers, coroutines and descriptors.                                 *)
(***************************************************************************)
EXTENDS SchedLoop, SockIo, SequenceTheorems, TLAPS

Writing(p) == pc[p] = "write"

(* A set flag is one wake-up on its way: with the thread that set it and   *)
(* has yet to write, in the pipe with its edge unreported, or reported and *)
(* not yet handled.  It is never in two of these places.                   *)
FlagIsWakeup ==
    signaled <=> edge \/ ret = "pipe" \/ \E p \in Signaler : Writing(p)
WakeupIsUnique ==
    /\ ~ (edge /\ ret = "pipe")
    /\ \A p \in Signaler : Writing(p) => ~ edge /\ ret # "pipe"
    /\ \A p, q \in Signaler : Writing(p) /\ Writing(q) => p = q
PipeHoldsWakeup ==
    pipe = IF edge \/ (ret = "pipe" /\ loop # "clear") THEN 1 ELSE 0
ReportedOnlyInside ==
    /\ ret = "pipe" => loop \in {"returned", "events", "clear", "exit", "done"}
    /\ loop = "clear" => ret = "pipe"

(* A waiting task is covered by the flag or by the thread that added it,   *)
(* except where the loop is certain to fetch it, or will never run again.  *)
FetchesNext == loop = "get" \/ (loop = "events" /\ ret # "pipe")
Ended == loop \in {"exit", "done"}
WaitingIsCovered ==
    Waiting => \/ FetchesNext \/ Ended
               \/ signaled \/ \E p \in Signaler : pc[p] = "tas"

WakeInv ==
    /\ FlagIsWakeup
    /\ WakeupIsUnique
    /\ PipeHoldsWakeup
    /\ ReportedOnlyInside
    /\ WaitingIsCovered

(* The event stays unsignaled until the loop is done, and who waits for it *)
(* is counted.                                                             *)
StopInv ==
    /\ FirstStopWaits
    /\ ev => loop = "done"
    /\ \A p \in Stopper : pc[p] = "cv" => wt > 0

BatchInv == loop # "run" => newBatch = <<>> /\ readyBatch = <<>>

IInv == TypeOK /\ WakeInv /\ StopInv /\ BatchInv

-----------------------------------------------------------------------------
LEMMA InitIInv == Init => IInv
  <1> SUFFICES ASSUME Init PROVE IInv
    OBVIOUS
  <1> USE DEF Init
  <1>1. TypeOK
    BY EmptySeq DEF TypeOK, PcState, LoopState, Returned
  <1>2. \A p \in Signaler : pc[p] = "idle"
    OBVIOUS
  <1>3. WakeInv
    BY <1>2 DEF WakeInv, FlagIsWakeup, WakeupIsUnique, PipeHoldsWakeup,
                ReportedOnlyInside, WaitingIsCovered, Waiting, Writing
  <1>4. StopInv /\ BatchInv
    BY <1>2 DEF StopInv, FirstStopWaits, FirstReturned, BatchInv, Signaler
  <1>. QED  BY <1>1, <1>3, <1>4 DEF IInv

LEMMA StepType ==
    ASSUME IInv, [Next]_vars
    PROVE  TypeOK'
  <1> USE SchedLoopAssumption DEF TypeOK, PcState, LoopState, Returned, event
  <1> TypeOK
    BY DEF IInv
  <1>1. ASSUME NEW p \in Signaler, NEW t \in NewTask, AddNew(p, t)
        PROVE  TypeOK'
    <2>1. Append(newq, t) \in Seq(NewTask)
      OBVIOUS
    <2>. QED  BY <1>1, <2>1 DEF AddNew, wakeup
  <1>2. ASSUME NEW p \in Signaler, NEW t \in ReadyTask, AddReady(p, t)
        PROVE  TypeOK'
    <2>1. Append(readyq, t) \in Seq(ReadyTask)
      OBVIOUS
    <2>. QED  BY <1>2, <2>1 DEF AddReady, wakeup
  <1>3. ASSUME NEW p \in Signaler,
               \/ Stop(p) \/ SignalTestAndSet(p)
               \/ SignalWrite(p) \/ StopWait(p) \/ SpuriousWakeup(p)
        PROVE  TypeOK'
    <2>1. CASE Stop(p)
      BY <2>1 DEF Stop, queues, wakeup
    <2>2. CASE SignalTestAndSet(p)
      BY <2>2 DEF SignalTestAndSet, Signaled, queues
    <2>3. CASE SignalWrite(p)
      BY <2>3 DEF SignalWrite, Signaled, queues
    <2>4. CASE StopWait(p)
      <3>1. pc' \in [Signaler -> PcState] /\ wt' \in Nat /\ ev' \in BOOLEAN
        <4>1. CASE ev
          BY <2>4, <4>1 DEF StopWait
        <4>2. CASE ~ ev
          BY <2>4, <4>2 DEF StopWait
        <4>. QED  BY <4>1, <4>2
      <3>. QED  BY <2>4, <3>1 DEF StopWait, queues, wakeup
    <2>5. CASE SpuriousWakeup(p)
      BY <2>5 DEF SpuriousWakeup, queues, wakeup
    <2>. QED  BY <1>3, <2>1, <2>2, <2>3, <2>4, <2>5
  <1>4. ASSUME LoopStep
        PROVE  TypeOK'
    <2>1. CASE LoopCheck \/ EventsDone \/ TasksDone \/ TimersDone
      BY <2>1 DEF LoopCheck, EventsDone, TasksDone, TimersDone, queues, wakeup
    <2>8. CASE LoopExit
      BY <2>8 DEF LoopExit, queues, wakeup
    <2>2. CASE LoopReturned
      BY <2>2 DEF LoopReturned, queues, wakeup
    <2>5. CASE DrainPipe
      BY <2>5 DEF DrainPipe, queues
    <2>6. CASE ClearFlag
      BY <2>6 DEF ClearFlag, queues
    <2>7. CASE GetAllTasks
      BY <2>7, EmptySeq DEF GetAllTasks, wakeup
    <2>3. CASE ResumeNew
      BY <2>3 DEF ResumeNew, wakeup
    <2>4. CASE ResumeReady
      BY <2>4 DEF ResumeReady, wakeup
    <2>. QED  BY <1>4, <2>1, <2>2, <2>3, <2>4, <2>5, <2>6, <2>7, <2>8 DEF LoopStep
  <1>5. ASSUME WaitPipe \/ \E r \in Returned : WaitOther(r)
        PROVE  TypeOK'
    BY <1>5 DEF WaitPipe, WaitOther, queues, wakeup
  <1>6. ASSUME UNCHANGED vars
        PROVE  TypeOK'
    BY <1>6 DEF vars, queues, wakeup
  <1>. QED
    BY <1>1, <1>2, <1>3, <1>4, <1>5, <1>6 DEF Next, Signaler

-----------------------------------------------------------------------------
(* Adding a task leaves the wake-up alone, and the adder covers the task   *)
(* until it has reached the flag.                                          *)
LEMMA WakeAdd ==
    ASSUME TypeOK, WakeInv, NEW p \in Signaler, pc[p] = "idle",
           pc' = [pc EXCEPT ![p] = "tas"],
           UNCHANGED <<wakeup, loop, ret>>
    PROVE  WakeInv'
  <1>1. /\ UNCHANGED <<signaled, edge, pipe, loop, ret>>
        /\ pc \in [Signaler -> PcState] /\ pc'[p] = "tas"
    BY DEF wakeup, TypeOK
  <1>2. \A q \in Signaler : Writing(q)' = Writing(q)
    BY <1>1 DEF Writing
  <1>3. FlagIsWakeup' /\ WakeupIsUnique'
    BY <1>1, <1>2 DEF WakeInv, FlagIsWakeup, WakeupIsUnique
  <1>4. PipeHoldsWakeup' /\ ReportedOnlyInside'
    BY <1>1 DEF WakeInv, PipeHoldsWakeup, ReportedOnlyInside
  <1>5. WaitingIsCovered'
    BY <1>1 DEF WaitingIsCovered
  <1>. QED  BY <1>3, <1>4, <1>5 DEF WakeInv

(* A step of the loop that moves neither the wake-up nor a task into the   *)
(* shared queues.                                                          *)
LEMMA WakeLoop ==
    ASSUME TypeOK, WakeInv,
           UNCHANGED <<wakeup, ret, pc>>,
           ReportedOnlyInside', loop' # "clear", loop # "clear",
           WaitingIsCovered'
    PROVE  WakeInv'
  <1>1. UNCHANGED <<signaled, edge, pipe, ret, pc>>
    BY DEF wakeup
  <1>2. FlagIsWakeup' /\ WakeupIsUnique'
    BY <1>1 DEF WakeInv, FlagIsWakeup, WakeupIsUnique, Writing
  <1>3. PipeHoldsWakeup'
    BY <1>1 DEF WakeInv, PipeHoldsWakeup
  <1>. QED  BY <1>2, <1>3 DEF WakeInv

LEMMA WakeSignal ==
    ASSUME TypeOK, WakeInv, NEW p \in Signaler,
           \/ Stop(p) \/ SignalTestAndSet(p) \/ SignalWrite(p)
           \/ StopWait(p) \/ SpuriousWakeup(p)
    PROVE  WakeInv'
  <1> pc \in [Signaler -> PcState]
    BY DEF TypeOK
  <1>1. CASE Stop(p) \/ StopWait(p) \/ SpuriousWakeup(p)
    <2>1. /\ UNCHANGED <<queues, signaled, edge, pipe, loop, ret>>
          /\ pc[p] \in {"idle", "evwait", "cv"}
          /\ \E l \in {"tas", "cv", "stopped"} : pc' = [pc EXCEPT ![p] = l]
      BY <1>1 DEF Stop, StopWait, SpuriousWakeup, wakeup
    <2>2. /\ \A q \in Signaler : Writing(q)' = Writing(q)
          /\ \A q \in Signaler : pc[q] = "tas" => pc'[q] = "tas"
      BY <2>1 DEF Writing
    <2>3. FlagIsWakeup' /\ WakeupIsUnique'
      BY <2>1, <2>2 DEF WakeInv, FlagIsWakeup, WakeupIsUnique
    <2>4. PipeHoldsWakeup' /\ ReportedOnlyInside'
      BY <2>1 DEF WakeInv, PipeHoldsWakeup, ReportedOnlyInside
    <2>5. WaitingIsCovered'
      BY <2>1, <2>2 DEF WakeInv, WaitingIsCovered, Waiting, FetchesNext, Ended,
                        queues
    <2>. QED  BY <2>3, <2>4, <2>5 DEF WakeInv
  <1>2. CASE SignalTestAndSet(p)
    <2>1. /\ UNCHANGED <<queues, edge, pipe, loop, ret>>
          /\ pc[p] = "tas" /\ signaled'
          /\ pc' = [pc EXCEPT ![p] = IF signaled THEN Signaled(p) ELSE "write"]
      BY <1>2 DEF SignalTestAndSet
    <2>2. CASE signaled
      <3>1. Signaled(p) \notin {"write", "tas"}
        BY DEF Signaled
      <3>2. \A q \in Signaler : Writing(q)' = Writing(q)
        BY <2>1, <2>2, <3>1 DEF Writing
      <3>3. FlagIsWakeup' /\ WakeupIsUnique'
        BY <2>1, <2>2, <3>2 DEF WakeInv, FlagIsWakeup, WakeupIsUnique
      <3>. QED
        BY <2>1, <3>3 DEF WakeInv, PipeHoldsWakeup, ReportedOnlyInside,
                          WaitingIsCovered
    <2>3. CASE ~ signaled
      <3>1. /\ ~ edge /\ ret # "pipe"
            /\ \A q \in Signaler : ~ Writing(q)
        BY <2>3 DEF WakeInv, FlagIsWakeup
      <3>2. \A q \in Signaler : Writing(q)' <=> q = p
        BY <2>1, <2>3, <3>1 DEF Writing
      <3>3. FlagIsWakeup' /\ WakeupIsUnique'
        BY <2>1, <3>1, <3>2 DEF FlagIsWakeup, WakeupIsUnique
      <3>. QED
        BY <2>1, <3>3 DEF WakeInv, PipeHoldsWakeup, ReportedOnlyInside,
                          WaitingIsCovered
    <2>. QED  BY <2>2, <2>3
  <1>3. CASE SignalWrite(p)
    <2>1. /\ UNCHANGED <<queues, signaled, loop, ret>>
          /\ Writing(p) /\ pipe' = pipe + 1 /\ edge'
          /\ pc' = [pc EXCEPT ![p] = Signaled(p)]
      BY <1>3 DEF SignalWrite, Writing
    <2>2. Signaled(p) \notin {"write", "tas"}
      BY DEF Signaled
    <2>3. /\ signaled /\ ~ edge /\ ret # "pipe" /\ pipe = 0
          /\ \A q \in Signaler : Writing(q) => q = p
      BY <2>1 DEF WakeInv, FlagIsWakeup, WakeupIsUnique, PipeHoldsWakeup
    <2>4. \A q \in Signaler : ~ Writing(q)'
      BY <2>1, <2>2, <2>3 DEF Writing
    <2>5. FlagIsWakeup' /\ WakeupIsUnique' /\ PipeHoldsWakeup'
      BY <2>1, <2>3, <2>4 DEF FlagIsWakeup, WakeupIsUnique, PipeHoldsWakeup
    <2>6. ReportedOnlyInside' /\ WaitingIsCovered'
      BY <2>1, <2>3 DEF WakeInv, ReportedOnlyInside, WaitingIsCovered
    <2>. QED  BY <2>5, <2>6 DEF WakeInv
  <1>. QED  BY <1>1, <1>2, <1>3

LEMMA StepWake ==
    ASSUME IInv, [Next]_vars
    PROVE  WakeInv'
  <1> TypeOK /\ WakeInv /\ BatchInv
    BY DEF IInv
  <1> USE DEF WakeInv
  <1>1. ASSUME NEW p \in Signaler, NEW t,
               AddNew(p, t) \/ AddReady(p, t)
        PROVE  WakeInv'
    <2>1. /\ pc[p] = "idle" /\ pc' = [pc EXCEPT ![p] = "tas"]
          /\ UNCHANGED <<wakeup, loop, ret>>
      BY <1>1 DEF AddNew, AddReady
    <2>. QED  BY <2>1, WakeAdd
  <1>2. CASE LoopCheck
    <2>1. /\ loop = "check" /\ loop' \in {"wait", "exit"}
          /\ UNCHANGED <<queues, wakeup, ret, pc>>
      BY <1>2 DEF LoopCheck
    <2>2. ReportedOnlyInside' /\ WaitingIsCovered'
      BY <2>1 DEF ReportedOnlyInside, WaitingIsCovered, Waiting, FetchesNext,
                  Ended, queues, wakeup
    <2>. QED  BY <2>1, <2>2, WakeLoop
  <1>3. CASE WaitPipe
    <2>1. /\ loop = "wait" /\ loop' = "returned" /\ edge /\ ~ edge'
          /\ ret' = "pipe"
          /\ UNCHANGED <<queues, signaled, pipe, pc>>
      BY <1>3 DEF WaitPipe, TypeOK
    <2>2. /\ signaled /\ pipe = 1
          /\ \A q \in Signaler : ~ Writing(q)
      BY <2>1 DEF FlagIsWakeup, WakeupIsUnique, PipeHoldsWakeup
    <2>3. \A q \in Signaler : ~ Writing(q)'
      BY <2>1, <2>2 DEF Writing
    <2>4. FlagIsWakeup' /\ WakeupIsUnique' /\ PipeHoldsWakeup'
      BY <2>1, <2>2, <2>3 DEF FlagIsWakeup, WakeupIsUnique, PipeHoldsWakeup
    <2>5. ReportedOnlyInside' /\ WaitingIsCovered'
      BY <2>1, <2>2 DEF ReportedOnlyInside, WaitingIsCovered
    <2>. QED  BY <2>4, <2>5
  <1>4. ASSUME NEW r \in Returned, WaitOther(r)
        PROVE  WakeInv'
    <2>1. /\ loop = "wait" /\ loop' = "returned" /\ ret' # "pipe"
          /\ ret # "pipe"
          /\ UNCHANGED <<queues, signaled, edge, pipe, pc>>
      BY <1>4 DEF WaitOther, wakeup, ReportedOnlyInside
    <2>2. \A q \in Signaler : Writing(q)' = Writing(q)
      BY <2>1 DEF Writing
    <2>3. FlagIsWakeup' /\ WakeupIsUnique' /\ PipeHoldsWakeup'
      BY <2>1, <2>2 DEF FlagIsWakeup, WakeupIsUnique, PipeHoldsWakeup
    <2>4. ReportedOnlyInside' /\ WaitingIsCovered'
      BY <2>1 DEF ReportedOnlyInside, WaitingIsCovered, Waiting, FetchesNext,
                  Ended, queues
    <2>. QED  BY <2>3, <2>4
  <1>5. CASE LoopReturned
    <2>1. /\ loop = "returned" /\ loop' \in {"exit", "check", "events"}
          /\ loop' = "check" => ret = "error"
          /\ UNCHANGED <<queues, wakeup, ret, pc>>
      BY <1>5 DEF LoopReturned
    <2>2. ReportedOnlyInside' /\ WaitingIsCovered'
      BY <2>1 DEF ReportedOnlyInside, WaitingIsCovered, Waiting, FetchesNext,
                  Ended, queues, wakeup
    <2>. QED  BY <2>1, <2>2, WakeLoop
  <1>6. CASE DrainPipe
    <2>1. /\ loop = "events" /\ loop' = "clear" /\ ret = "pipe" /\ pipe' = 0
          /\ UNCHANGED <<queues, signaled, edge, ret, pc>>
      BY <1>6 DEF DrainPipe
    <2>2. signaled /\ ~ edge
      BY <2>1 DEF FlagIsWakeup, WakeupIsUnique
    <2>3. FlagIsWakeup' /\ WakeupIsUnique'
      BY <2>1 DEF FlagIsWakeup, WakeupIsUnique, Writing
    <2>4. PipeHoldsWakeup' /\ ReportedOnlyInside' /\ WaitingIsCovered'
      BY <2>1, <2>2 DEF PipeHoldsWakeup, ReportedOnlyInside, WaitingIsCovered
    <2>. QED  BY <2>3, <2>4
  <1>7. CASE ClearFlag
    <2>1. /\ loop = "clear" /\ loop' = "events" /\ ret' = "other"
          /\ ~ signaled'
          /\ UNCHANGED <<queues, pipe, edge, pc>>
      BY <1>7 DEF ClearFlag, TypeOK
    <2>2. /\ ret = "pipe" /\ ~ edge /\ pipe = 0
          /\ \A q \in Signaler : ~ Writing(q)
      BY <2>1 DEF ReportedOnlyInside, WakeupIsUnique, PipeHoldsWakeup
    <2>3. \A q \in Signaler : ~ Writing(q)'
      BY <2>1, <2>2 DEF Writing
    <2>4. FlagIsWakeup' /\ WakeupIsUnique' /\ PipeHoldsWakeup'
      BY <2>1, <2>2, <2>3 DEF FlagIsWakeup, WakeupIsUnique, PipeHoldsWakeup
    <2>5. ReportedOnlyInside' /\ WaitingIsCovered'
      BY <2>1 DEF ReportedOnlyInside, WaitingIsCovered, FetchesNext
    <2>. QED  BY <2>4, <2>5
  <1>8. CASE EventsDone
    <2>1. /\ loop = "events" /\ loop' = "get" /\ ret = "other"
          /\ UNCHANGED <<queues, wakeup, ret, pc>>
      BY <1>8 DEF EventsDone
    <2>2. ReportedOnlyInside' /\ WaitingIsCovered'
      BY <2>1 DEF ReportedOnlyInside, WaitingIsCovered, FetchesNext
    <2>. QED  BY <2>1, <2>2, WakeLoop
  <1>9. CASE GetAllTasks
    <2>1. /\ loop = "get" /\ loop' = "run"
          /\ newq' = <<>> /\ readyq' = <<>>
          /\ UNCHANGED <<wakeup, ret, pc>>
      BY <1>9 DEF GetAllTasks
    <2>2. ReportedOnlyInside' /\ WaitingIsCovered'
      BY <2>1 DEF ReportedOnlyInside, WaitingIsCovered, Waiting
    <2>. QED  BY <2>1, <2>2, WakeLoop
  <1>10. CASE ResumeNew \/ ResumeReady
    <2>1. UNCHANGED <<newq, readyq, wakeup, loop, ret, pc>> /\ loop = "run"
      BY <1>10 DEF ResumeNew, ResumeReady
    <2>2. ReportedOnlyInside' /\ WaitingIsCovered'
      BY <2>1 DEF ReportedOnlyInside, WaitingIsCovered, Waiting, FetchesNext,
                  Ended, wakeup
    <2>. QED  BY <2>1, <2>2, WakeLoop
  <1>11. CASE TasksDone \/ TimersDone
    <2>1. /\ loop \in {"run", "timers"} /\ loop' \in {"timers", "check"}
          /\ UNCHANGED <<queues, wakeup, ret, pc>>
      BY <1>11 DEF TasksDone, TimersDone
    <2>2. ReportedOnlyInside' /\ WaitingIsCovered'
      BY <2>1 DEF ReportedOnlyInside, WaitingIsCovered, Waiting, FetchesNext,
                  Ended, queues, wakeup
    <2>. QED  BY <2>1, <2>2, WakeLoop
  <1>12. CASE LoopExit
    <2>1. /\ loop = "exit" /\ loop' = "done"
          /\ UNCHANGED <<signaled, edge, pipe, ret>>
          /\ \A q \in Signaler : pc'[q] \in {pc[q], "stopped"}
          /\ \A q \in Signaler : pc'[q] # pc[q] => pc[q] = "cv"
      BY <1>12 DEF LoopExit, wakeup
    <2>2. \A q \in Signaler : Writing(q)' = Writing(q)
      BY <2>1 DEF Writing
    <2>3. FlagIsWakeup' /\ WakeupIsUnique' /\ PipeHoldsWakeup'
      BY <2>1, <2>2 DEF FlagIsWakeup, WakeupIsUnique, PipeHoldsWakeup
    <2>4. ReportedOnlyInside' /\ WaitingIsCovered'
      BY <2>1 DEF ReportedOnlyInside, WaitingIsCovered, Ended
    <2>. QED  BY <2>3, <2>4
  <1>13. CASE UNCHANGED vars
    <2>1. UNCHANGED <<newq, readyq, signaled, edge, pipe, loop, ret, pc>>
      BY <1>13 DEF vars, queues, wakeup
    <2>2. FlagIsWakeup' /\ WakeupIsUnique' /\ PipeHoldsWakeup'
      BY <2>1 DEF FlagIsWakeup, WakeupIsUnique, PipeHoldsWakeup, Writing
    <2>3. ReportedOnlyInside' /\ WaitingIsCovered'
      BY <2>1 DEF ReportedOnlyInside, WaitingIsCovered, Waiting, FetchesNext,
                  Ended
    <2>. QED  BY <2>2, <2>3
  <1>. HIDE DEF WakeInv
  <1>. QED
    BY <1>1, <1>2, <1>3, <1>4, <1>5, <1>6, <1>7, <1>8, <1>9, <1>10, <1>11,
       <1>12, <1>13, WakeSignal DEF Next, LoopStep, Signaler

LEMMA StepStop ==
    ASSUME IInv, [Next]_vars
    PROVE  StopInv'
  <1> TypeOK /\ StopInv
    BY DEF IInv
  <1> pc \in [Signaler -> PcState] /\ Stopper \subseteq Signaler
    BY DEF TypeOK, Signaler
  <1> USE DEF StopInv, FirstStopWaits, FirstReturned
  <1>1. ASSUME NEW p \in Signaler \ Stopper, NEW t,
               AddNew(p, t) \/ AddReady(p, t)
        PROVE  StopInv'
    BY <1>1 DEF AddNew, AddReady, event
  <1>2. ASSUME NEW p \in Stopper, Stop(p)
        PROVE  StopInv'
    <2>1. CASE stopped
      <3>1. /\ UNCHANGED <<loop, ev, wt>> /\ pc[p] = "idle"
            /\ pc' = [pc EXCEPT ![p] = "stopped"]
        BY <1>2, <2>1 DEF Stop, event
      <3>2. \A q \in Stopper :
               pc'[q] \in {"idle", "stopped"} => pc[q] \in {"idle", "stopped"}
        BY <3>1
      <3>. QED  BY <2>1, <3>1, <3>2
    <2>2. CASE ~ stopped
      <3>1. /\ UNCHANGED <<loop, ev, wt>>
            /\ pc' = [pc EXCEPT ![p] = "tas"]
        BY <1>2, <2>2 DEF Stop, event
      <3>2. pc'[p] = "tas"
        BY <3>1
      <3>. QED  BY <3>1, <3>2
    <2>. QED  BY <2>1, <2>2
  <1>3. ASSUME NEW p \in Signaler, SignalTestAndSet(p) \/ SignalWrite(p)
        PROVE  StopInv'
    <2>1. /\ UNCHANGED <<stopped, loop, ev, wt>>
          /\ pc[p] \in {"tas", "write"}
          /\ p \in Stopper => pc'[p] \in {"write", "evwait"}
          /\ \A q \in Signaler \ {p} : pc'[q] = pc[q]
      BY <1>3 DEF SignalTestAndSet, SignalWrite, Signaled, event
    <2>2. ASSUME \A q \in Stopper : pc'[q] \in {"idle", "stopped"},
                 NEW q \in Stopper
          PROVE  pc[q] \in {"idle", "stopped"}
      BY <2>1, <2>2
    <2>. QED  BY <2>1, <2>2
  <1>4. ASSUME NEW p \in Stopper, StopWait(p)
        PROVE  StopInv'
    <2>1. /\ UNCHANGED <<stopped, loop>> /\ wt \in Nat
          /\ \A q \in Stopper \ {p} : pc'[q] = pc[q]
      BY <1>4 DEF StopWait, TypeOK
    <2>2. CASE ev
      <3>1. loop = "done" /\ UNCHANGED wt /\ ~ ev' /\ pc'[p] = "stopped"
        BY <1>4, <2>2 DEF StopWait
      <3>. QED  BY <2>1, <3>1
    <2>3. CASE ~ ev
      <3>1. wt' = wt + 1 /\ UNCHANGED ev /\ pc'[p] = "cv"
        BY <1>4, <2>3 DEF StopWait
      <3>2. wt' > 0
        BY <2>1, <3>1
      <3>. QED  BY <2>1, <2>3, <3>1, <3>2
    <2>. QED  BY <2>2, <2>3
  <1>9. ASSUME NEW p \in Stopper, SpuriousWakeup(p)
        PROVE  StopInv'
    <2>1. /\ UNCHANGED <<stopped, loop, ev, wt>> /\ SpuriousWakeups
          /\ pc[p] = "cv" /\ pc'[p] = "stopped"
          /\ \A q \in Stopper \ {p} : pc'[q] = pc[q]
      BY <1>9 DEF SpuriousWakeup, event
    <2>. QED  BY <2>1
  <1>5. CASE LoopStep
    <2>1. CASE LoopExit
      <3>1. /\ loop' = "done"
            /\ \A q \in Stopper : pc'[q] # "cv"
        BY <2>1 DEF LoopExit
      <3>. QED  BY <3>1
    <2>2. CASE ~ LoopExit
      <3>1. UNCHANGED <<pc, stopped, ev, wt>> /\ loop # "done"
        BY <1>5, <2>2 DEF LoopStep, LoopCheck, LoopReturned, DrainPipe, ClearFlag,
                          EventsDone, GetAllTasks, ResumeNew, ResumeReady, TasksDone,
                          TimersDone, event
      <3>. QED  BY <3>1
    <2>. QED  BY <2>1, <2>2
  <1>6. CASE WaitPipe \/ \E r \in Returned : WaitOther(r)
    BY <1>6 DEF WaitPipe, WaitOther, event
  <1>7. CASE UNCHANGED vars
    BY <1>7 DEF vars, event
  <1>. HIDE DEF StopInv
  <1>8. Adder \cup {Self} \subseteq Signaler \ Stopper
    BY SchedLoopAssumption DEF Signaler
  <1>. QED
    BY <1>1, <1>2, <1>3, <1>4, <1>5, <1>6, <1>7, <1>8, <1>9 DEF Next

LEMMA StepBatch ==
    ASSUME IInv, [Next]_vars
    PROVE  BatchInv'
  <1> BatchInv
    BY DEF IInv
  <1>1. CASE LoopStep
    <2>1. CASE ResumeNew \/ ResumeReady \/ GetAllTasks
      BY <2>1 DEF BatchInv, ResumeNew, ResumeReady, GetAllTasks
    <2>2. CASE TasksDone
      BY <2>2 DEF BatchInv, TasksDone, queues
    <2>3. CASE LoopCheck \/ LoopReturned \/ DrainPipe \/ ClearFlag
      BY <2>3 DEF BatchInv, LoopCheck, LoopReturned, DrainPipe, ClearFlag, queues
    <2>4. CASE EventsDone \/ TimersDone \/ LoopExit
      BY <2>4 DEF BatchInv, EventsDone, TimersDone, LoopExit, queues
    <2>. QED  BY <1>1, <2>1, <2>2, <2>3, <2>4 DEF LoopStep
  <1>2. CASE WaitPipe \/ \E r \in Returned : WaitOther(r)
    BY <1>2 DEF BatchInv, WaitPipe, WaitOther, queues
  <1>3. CASE ~ LoopStep /\ ~ WaitPipe /\ ~ \E r \in Returned : WaitOther(r)
    <2>1. UNCHANGED <<newBatch, readyBatch, loop>>
      BY <1>3 DEF Next, AddNew, AddReady, SignalTestAndSet, SignalWrite, Stop,
                  StopWait, SpuriousWakeup, vars, queues
    <2>. QED  BY <2>1 DEF BatchInv
  <1>. QED  BY <1>1, <1>2, <1>3

(* All of this holds in every state of the loop.                           *)
THEOREM Inductive == Spec => []IInv
  <1>1. IInv /\ [Next]_vars => IInv'
    BY StepType, StepWake, StepStop, StepBatch DEF IInv
  <1>. QED  BY InitIInv, <1>1, PTL DEF Spec

-----------------------------------------------------------------------------
(* The variables keep their types.                                         *)
THEOREM TypeCorrect == Spec => []TypeOK
  <1>1. IInv => TypeOK
    BY DEF IInv
  <1>. QED  BY Inductive, <1>1, PTL

(* A loop that sleeps while a task waits is about to be woken.             *)
THEOREM WakeupNotLost == Spec => []NoLostWakeup
  <1>1. IInv => NoLostWakeup
    BY DEF IInv, WakeInv, NoLostWakeup, WaitingIsCovered, FlagIsWakeup,
           ReportedOnlyInside, FetchesNext, Ended, Signaling, Writing
  <1>. QED  BY Inductive, <1>1, PTL

(* A set flag never suppresses signals for good.                           *)
THEOREM FlagNotStuck == Spec => []FlagNeverStuck
  <1>1. IInv => FlagNeverStuck
    BY DEF IInv, WakeInv, FlagNeverStuck, FlagIsWakeup, ReportedOnlyInside,
           Writing
  <1>. QED  BY Inductive, <1>1, PTL

(* The pipe never holds more than one byte.                                *)
THEOREM OneByte == Spec => []AtMostOneByte
  <1>1. IInv => AtMostOneByte
    BY DEF IInv, WakeInv, AtMostOneByte, PipeHoldsWakeup
  <1>. QED  BY Inductive, <1>1, PTL

(* The stop() that ended the loop returns after the loop has ended.        *)
THEOREM StopIsFinal == Spec => []FirstStopWaits
  <1>1. IInv => FirstStopWaits
    BY DEF IInv, StopInv
  <1>. QED  BY Inductive, <1>1, PTL

-----------------------------------------------------------------------------
(* Two queues in a row behave as one.                                      *)
LEMMA RowAppend ==
    ASSUME NEW S, NEW a \in Seq(S), NEW b \in Seq(S), NEW x \in S
    PROVE  a \o Append(b, x) = Append(a \o b, x)
  <1> DEFINE l == a \o Append(b, x)
             r == Append(a \o b, x)
  <1>1. l \in Seq(S) /\ r \in Seq(S) /\ Len(l) = Len(r)
    OBVIOUS
  <1>2. \A i \in 1..Len(l) : l[i] = r[i]
    OBVIOUS
  <1>. HIDE DEF l, r
  <1>3. l = r
    BY <1>1, <1>2, SeqEqual
  <1>. QED  BY <1>3 DEF l, r

LEMMA RowTail ==
    ASSUME NEW S, NEW a \in Seq(S), NEW b \in Seq(S), a # <<>>
    PROVE  a \o b # <<>> /\ Tail(a) \o b = Tail(a \o b)
  <1> DEFINE l == Tail(a) \o b
             r == Tail(a \o b)
  <1>1. /\ Len(a) \in Nat /\ Len(a) >= 1
        /\ a \o b \in Seq(S) /\ Len(a \o b) = Len(a) + Len(b)
        /\ Tail(a) \in Seq(S) /\ Len(Tail(a)) = Len(a) - 1
        /\ \A i \in 1..Len(Tail(a)) : Tail(a)[i] = a[i + 1]
    BY EmptySeq, ConcatProperties, HeadTailProperties
  <1>2. a \o b # <<>>
    BY <1>1, EmptySeq
  <1>3. /\ l \in Seq(S) /\ r \in Seq(S)
        /\ Len(l) = Len(a) - 1 + Len(b) /\ Len(r) = Len(a) + Len(b) - 1
    BY <1>1, <1>2, ConcatProperties, HeadTailProperties
  <1>4. ASSUME NEW i \in 1..Len(l)
        PROVE  l[i] = r[i]
    <2>1. r[i] = (a \o b)[i + 1]
      BY <1>1, <1>2, <1>3, HeadTailProperties
    <2>2. CASE i <= Len(a) - 1
      BY <1>1, <1>3, <2>1, <2>2, ConcatProperties
    <2>3. CASE i > Len(a) - 1
      BY <1>1, <1>3, <2>1, <2>3, ConcatProperties
    <2>. QED  BY <1>1, <1>3, <2>2, <2>3
  <1>. HIDE DEF l, r
  <1>5. l = r
    BY <1>1, <1>3, <1>4, SeqEqual
  <1>. QED  BY <1>2, <1>5 DEF l, r

(* Every step of the scheduler is a step of the mailbox or none: tasks are *)
(* resumed in the order they were added, each once, and none disappears.   *)
THEOREM ImplementsMailbox == Spec => Abstract!Safety
  <1>1. Init => Abstract!Init
    BY DEF Init, Abstract!Init
  <1>2. ASSUME IInv, [Next]_vars
        PROVE  [Abstract!Next]_(Abstract!mailVars)
    <2> TypeOK /\ BatchInv
      BY <1>2 DEF IInv
    <2> /\ newq \in Seq(NewTask) /\ newBatch \in Seq(NewTask)
        /\ readyq \in Seq(ReadyTask) /\ readyBatch \in Seq(ReadyTask)
      BY DEF TypeOK
    <2>1. ASSUME NEW p, NEW t \in NewTask, AddNew(p, t)
          PROVE  Abstract!PutNew(t)
      <3>1. newBatch \o newq' = Append(newBatch \o newq, t)
        BY <2>1, RowAppend DEF AddNew
      <3>. QED  BY <2>1, <3>1 DEF AddNew, Abstract!PutNew
    <2>2. ASSUME NEW p, NEW t \in ReadyTask, AddReady(p, t)
          PROVE  Abstract!PutReady(t)
      <3>1. readyBatch \o readyq' = Append(readyBatch \o readyq, t)
        BY <2>2, RowAppend DEF AddReady
      <3>. QED  BY <2>2, <3>1 DEF AddReady, Abstract!PutReady
    <2>3. ASSUME ResumeNew
          PROVE  Abstract!RunNew
      <3>1. /\ newBatch \o newq # <<>>
            /\ newBatch' \o newq' = Tail(newBatch \o newq)
        BY <2>3, RowTail DEF ResumeNew
      <3>. QED  BY <2>3, <3>1 DEF ResumeNew, Abstract!RunNew
    <2>4. ASSUME ResumeReady
          PROVE  Abstract!RunReady
      <3>1. /\ readyBatch \o readyq # <<>>
            /\ readyBatch' \o readyq' = Tail(readyBatch \o readyq)
        BY <2>4, RowTail DEF ResumeReady
      <3>. QED  BY <2>4, <3>1 DEF ResumeReady, Abstract!RunReady
    <2>5. CASE GetAllTasks
      <3>1. newBatch = <<>> /\ readyBatch = <<>>
        BY <2>5 DEF GetAllTasks, BatchInv
      <3>2. /\ newBatch' \o newq' = newBatch \o newq
            /\ readyBatch' \o readyq' = readyBatch \o readyq
        BY <2>5, <3>1, ConcatEmptySeq DEF GetAllTasks
      <3>. QED  BY <2>5, <3>2 DEF GetAllTasks, Abstract!mailVars
    <2>6. ASSUME NEW p, Stop(p)
          PROVE  Abstract!Close
      BY <2>6 DEF Stop, queues, Abstract!Close
    <2>7. ASSUME UNCHANGED <<queues, stopped>>
          PROVE  UNCHANGED Abstract!mailVars
      BY <2>7 DEF queues, Abstract!mailVars
    <2>8. CASE \E p \in Signaler :
                  \/ SignalTestAndSet(p) \/ SignalWrite(p)
                  \/ StopWait(p) \/ SpuriousWakeup(p)
      BY <2>7, <2>8 DEF SignalTestAndSet, SignalWrite, StopWait, SpuriousWakeup
    <2>9. CASE \/ LoopCheck \/ LoopReturned \/ DrainPipe \/ ClearFlag
               \/ EventsDone \/ TasksDone \/ TimersDone \/ LoopExit
      BY <2>7, <2>9 DEF LoopCheck, LoopReturned, DrainPipe, ClearFlag,
                        EventsDone, TasksDone, TimersDone, LoopExit
    <2>10. CASE WaitPipe \/ \E r \in Returned : WaitOther(r)
      BY <2>7, <2>10 DEF WaitPipe, WaitOther
    <2>11. CASE UNCHANGED vars
      BY <2>7, <2>11 DEF vars
    <2>. QED
      BY <1>2, <2>1, <2>2, <2>3, <2>4, <2>5, <2>6, <2>8, <2>9, <2>10, <2>11
         DEF Next, LoopStep, Signaler, Abstract!Next
  <1>. QED
    BY Inductive, <1>1, <1>2, PTL DEF Spec, Abstract!Safety

-----------------------------------------------------------------------------
(* Sockets                                                                 *)

(* Who is in a call runs, or waits for the descriptor or sleeps in close();*)
(* only the latter have a timer, and only calls that are not close() have  *)
(* an event.  The descriptor stays open as long as a call is on it.        *)
InPlace ==
    \A c \in Co :
       /\ place[c] = "out" <=> call[c] = None
       /\ place[c] \in {"linger", "close"} <=> call[c] # None /\ call[c].op = "close"
       /\ place[c] \in {"out", "linger", "close"} => ~ added[c]
       /\ place[c] = "wait" => added[c]
       /\ place[c] \in {"try", "add", "woken", "close"} => Cpu(c)
       /\ place[c] \in {"wait", "linger"} => ~ Cpu(c)
       /\ timer[c] => place[c] \in {"wait", "linger"}
       /\ place[c] # "out" => call[c].fd \in open

(* What a loop has at each of its stages; whom it is about to resume waits.*)
InStage ==
    \A s \in Sched :
       /\ running[s] # None => home[running[s]] = s
       /\ stage[s] = "poll" => running[s] = None
       /\ stage[s] # "events" => batch[s] = {} /\ second[s] = None
       /\ stage[s] # "timers" => expired[s] = {}
       /\ second[s] # None => home[second[s]] = s /\ place[second[s]] = "wait"
       /\ \A c \in expired[s] : home[c] = s /\ place[c] \in {"wait", "linger"}

(* Calls on the same descriptor are on different directions of it.         *)
Apart ==
    \A c1, c2 \in Co :
       /\ c1 # c2 /\ place[c1] # "out" /\ place[c2] # "out"
       /\ call[c1].fd = call[c2].fd
       => Uses(call[c1]) \cap Uses(call[c2]) = {}

(* What io_event::_added says is so.                                       *)
AddedIsRegistered ==
    \A c \in Co : added[c] => ctx[call[c].fd][DirOf(call[c])] = c

(* A descriptor that is broken has either all conditions or only that.     *)
Broken == \A f \in Fd : "hup" \in ready[f] => ready[f] \in {Condition, {"hup"}}

(* EventNotLost, and already when the coroutine has found that it must     *)
(* wait once more: its event is registered, so that nothing is missed.     *)
NotMissed ==
    \A c \in Co : place[c] \in {"add", "wait"} /\ added[c] /\ Possible(c) => Coming(home[c], c)

SockInv ==
    /\ SockTypeOK
    /\ InPlace
    /\ InStage
    /\ Apart
    /\ AddedIsRegistered
    /\ RegistrationLive
    /\ Broken
    /\ NotMissed

(* A call is on a direction of its descriptor, or on both.                 *)
LEMMA SockCalls ==
    ASSUME SockTypeOK, NEW c \in Co
    PROVE  /\ call[c] # None => /\ call[c].fd \in Fd /\ call[c].timed \in BOOLEAN
                                /\ call[c].op \in {"recv", "send", "accept", "connect", "close"} \cup Polls
           /\ DirOf(call[c]) \in Dir
           /\ DirOf(call[c]) \in Uses(call[c]) /\ Uses(call[c]) \subseteq Dir
           /\ home[c] \in Sched /\ c # None
  <1>1. call[c] # None => call[c] \in Call
    BY DEF SockTypeOK
  <1>2. /\ DirOf(call[c]) \in Dir
        /\ DirOf(call[c]) \in Uses(call[c]) /\ Uses(call[c]) \subseteq Dir
    BY DEF DirOf, Uses, Dir
  <1>3. home[c] \in Sched /\ c # None
    BY SockIoAssumption DEF SockTypeOK
  <1>. QED  BY <1>1, <1>2, <1>3 DEF Call

(* Who is registered is in a call on that direction of that descriptor.    *)
LEMMA SockRegistrations ==
    ASSUME SockInv, NEW f \in Fd, NEW d \in Dir, ctx[f][d] # None
    PROVE  /\ ctx[f][d] \in Co /\ added[ctx[f][d]]
           /\ call[ctx[f][d]] # None /\ call[ctx[f][d]].fd = f /\ DirOf(call[ctx[f][d]]) = d
           /\ call[ctx[f][d]].op # "close"
           /\ d \in Uses(call[ctx[f][d]])
           /\ place[ctx[f][d]] \in {"try", "add", "wait", "woken"}
  <1>1. ctx[f][d] \in Co
    BY DEF SockInv, SockTypeOK
  <1>2. /\ added[ctx[f][d]] /\ call[ctx[f][d]].fd = f /\ DirOf(call[ctx[f][d]]) = d
    BY DEF SockInv, RegistrationLive
  <1>3. place[ctx[f][d]] \in {"try", "add", "wait", "woken"}
    <2>1. place[ctx[f][d]] \in {"out", "try", "add", "wait", "woken", "linger", "close"}
      BY <1>1 DEF SockInv, SockTypeOK
    <2>. QED  BY <1>1, <1>2, <2>1 DEF SockInv, InPlace
  <1>4. call[ctx[f][d]] # None /\ call[ctx[f][d]].op # "close"
    BY <1>1, <1>3 DEF SockInv, InPlace
  <1>. QED  BY <1>1, <1>2, <1>3, <1>4, SockCalls DEF SockInv

(* A direction that no call is on has nobody registered.                   *)
LEMMA SockUnused ==
    ASSUME SockInv, NEW f \in Fd, NEW d \in Dir,
           \A q \in Co : place[q] # "out" /\ call[q].fd = f => d \notin Uses(call[q])
    PROVE  ctx[f][d] = None
  <1>. SUFFICES ASSUME ctx[f][d] # None PROVE FALSE
    OBVIOUS
  <1>. QED  BY SockRegistrations

(* What the epoll of scheduler s watches after registrations have changed, *)
(* and what it still has to report.                                        *)
LEMMA SockWatched ==
    ASSUME SockTypeOK, NEW s \in Sched, NEW f \in Fd, NEW watched \in SUBSET Dir,
           Watch(s, f, watched)
    PROVE  /\ interest' \in [Sched -> [Fd -> SUBSET Dir]] /\ edges' \in [Sched -> SUBSET Fd]
           /\ interest'[s][f] = watched
           /\ \A t \in Sched, g \in Fd :
                 t # s \/ g # f => /\ interest'[t][g] = interest[t][g]
                                   /\ g \in edges'[t] <=> g \in edges[t]
           /\ \A d \in watched : ready[f] \cap {d, "hup"} # {} => f \in edges'[s]
  <1>1. /\ interest \in [Sched -> [Fd -> SUBSET Dir]] /\ edges \in [Sched -> SUBSET Fd]
        /\ ready[f] \subseteq Condition
    BY DEF SockTypeOK
  <1>2. interest' = [interest EXCEPT ![s][f] = watched]
    BY DEF Watch
  <1>3. /\ interest' \in [Sched -> [Fd -> SUBSET Dir]] /\ interest'[s][f] = watched
        /\ \A t \in Sched, g \in Fd : t # s \/ g # f => interest'[t][g] = interest[t][g]
    BY <1>1, <1>2
  <1>4. PICK m : m = Mask(s, f, watched)
    OBVIOUS
  <1>5. edges' = [edges EXCEPT ![s] = IF m # {} THEN @ \cup {f} ELSE @ \ {f}]
    BY <1>4 DEF Watch
  <1>6. /\ edges' \in [Sched -> SUBSET Fd]
        /\ \A t \in Sched, g \in Fd : t # s \/ g # f => (g \in edges'[t] <=> g \in edges[t])
        /\ m # {} => f \in edges'[s]
    BY <1>1, <1>5
  <1>7. \A d \in watched : ready[f] \cap {d, "hup"} # {} => m # {}
    BY <1>4 DEF Mask
  <1>. QED  BY <1>3, <1>6, <1>7

(* A call returns: its registration goes, others stay watched, and what    *)
(* their descriptor is ready for is reported anew.                         *)
LEMMA SockReturns ==
    ASSUME SockInv, NEW c \in Co, place[c] \in {"try", "add", "woken"}, Return(c)
    PROVE  /\ ctx' \in [Fd -> [Dir -> Co \cup {None}]]
           /\ interest' \in [Sched -> [Fd -> SUBSET Dir]] /\ edges' \in [Sched -> SUBSET Fd]
           /\ \A f \in Fd, d \in Dir : ctx'[f][d] = IF ctx[f][d] = c THEN None ELSE ctx[f][d]
           /\ \A s \in Sched, f \in Fd :
                 interest'[s][f] = {d \in Dir : ctx'[f][d] # None /\ home[ctx'[f][d]] = s}
           /\ \A s \in Sched, f \in Fd, d \in Dir :
                 /\ ctx'[f][d] # None /\ home[ctx'[f][d]] = s
                 /\ ready[f] \cap {d, "hup"} # {} /\ f \in edges[s]
                 => f \in edges'[s]
  <1> DEFINE f == call[c].fd
             d == DirOf(call[c])
             s == home[c]
  <1>1. /\ ctx \in [Fd -> [Dir -> Co \cup {None}]]
        /\ interest \in [Sched -> [Fd -> SUBSET Dir]] /\ edges \in [Sched -> SUBSET Fd]
        /\ added[c] \in BOOLEAN
    BY DEF SockInv, SockTypeOK
  <1>2. f \in Fd /\ d \in Dir /\ s \in Sched /\ c # None /\ call[c] # None
    BY SockCalls DEF SockInv, InPlace
  <1>3. \A t \in Sched, g \in Fd : interest[t][g] = {e \in Dir : ctx[g][e] # None /\ home[ctx[g][e]] = t}
    BY DEF SockInv, RegistrationLive, HasEv
  <1>4. \A g \in Fd, e \in Dir : ctx[g][e] = c => added[c] /\ g = f /\ e = d
    BY <1>2, SockRegistrations
  <1>5. added[c] => ctx[f][d] = c
    BY DEF SockInv, AddedIsRegistered
  <1>. HIDE DEF f, d, s
  <1>6. CASE ~ added[c]
    <2>1. UNCHANGED <<ctx, interest, edges>>
      BY <1>6 DEF Return
    <2>2. \A g \in Fd, e \in Dir : ctx'[g][e] = IF ctx[g][e] = c THEN None ELSE ctx[g][e]
      BY <1>4, <1>6, <2>1
    <2>. QED  BY <1>1, <1>3, <2>1, <2>2
  <1>7. ASSUME added[c],
               NEW watched \in SUBSET Dir,
               watched = {e \in Dir : e # d /\ ctx[f][e] # None /\ home[ctx[f][e]] = s},
               ctx' \in [Fd -> [Dir -> Co \cup {None}]],
               \A g \in Fd, e \in Dir : ctx'[g][e] = IF ctx[g][e] = c THEN None ELSE ctx[g][e],
               Watch(s, f, watched)
        PROVE  /\ interest' \in [Sched -> [Fd -> SUBSET Dir]] /\ edges' \in [Sched -> SUBSET Fd]
               /\ \A t \in Sched, g \in Fd :
                     interest'[t][g] = {e \in Dir : ctx'[g][e] # None /\ home[ctx'[g][e]] = t}
               /\ \A t \in Sched, g \in Fd, e \in Dir :
                     /\ ctx'[g][e] # None /\ home[ctx'[g][e]] = t
                     /\ ready[g] \cap {e, "hup"} # {} /\ g \in edges[t]
                     => g \in edges'[t]
    <2>1. /\ interest' \in [Sched -> [Fd -> SUBSET Dir]] /\ edges' \in [Sched -> SUBSET Fd]
          /\ interest'[s][f] = watched
          /\ \A t \in Sched, g \in Fd :
                t # s \/ g # f => /\ interest'[t][g] = interest[t][g]
                                  /\ g \in edges'[t] <=> g \in edges[t]
          /\ \A e \in watched : ready[f] \cap {e, "hup"} # {} => f \in edges'[s]
      <3>1. SockTypeOK /\ s \in Sched /\ f \in Fd /\ watched \in SUBSET Dir /\ Watch(s, f, watched)
        BY <1>2, <1>7 DEF SockInv
      <3>. QED  BY <3>1, SockWatched
    <2>2. ASSUME NEW t \in Sched, NEW g \in Fd, NEW e \in Dir
          PROVE  ctx'[g][e] # None /\ home[ctx'[g][e]] = t
                    <=> /\ ctx[g][e] # None /\ home[ctx[g][e]] = t
                        /\ t # s \/ g # f \/ e # d
      <3>1. ctx[g][e] = c <=> g = f /\ e = d
        BY <1>4, <1>5, <1>7
      <3>2. ctx'[g][e] = IF ctx[g][e] = c THEN None ELSE ctx[g][e]
        BY <1>7
      <3>. QED  BY <1>2, <3>1, <3>2 DEF s
    <2>3. ASSUME NEW t \in Sched, NEW g \in Fd
          PROVE  interest'[t][g] = {e \in Dir : ctx'[g][e] # None /\ home[ctx'[g][e]] = t}
      <3>1. CASE t = s /\ g = f
        BY <1>2, <1>7, <2>1, <2>2, <3>1
      <3>2. CASE t # s \/ g # f
        BY <1>3, <2>1, <2>2, <3>2
      <3>. QED  BY <3>1, <3>2
    <2>4. ASSUME NEW t \in Sched, NEW g \in Fd, NEW e \in Dir,
                 ctx'[g][e] # None, home[ctx'[g][e]] = t,
                 ready[g] \cap {e, "hup"} # {}, g \in edges[t]
          PROVE  g \in edges'[t]
      <3>1. CASE t = s /\ g = f
        <4>1. e \in watched
          BY <1>7, <2>2, <2>4, <3>1
        <4>. QED  BY <2>1, <2>4, <3>1, <4>1
      <3>2. CASE t # s \/ g # f
        BY <2>1, <2>4, <3>2
      <3>. QED  BY <3>1, <3>2
    <2>. QED  BY <2>1, <2>3, <2>4
  <1>8. CASE added[c] /\ call[c].op \notin Polls
    <2>1. DelEv(c, f, d)
      BY <1>8 DEF Return, f, d
    <2>2. ctx[f][d] # None /\ interest[s][f] # {}
      <3>1. ctx[f][d] = c
        BY <1>5, <1>8
      <3>2. d \in interest[s][f]
        BY <1>2, <1>3, <3>1 DEF s
      <3>. QED  BY <1>2, <3>1, <3>2
    <2>3. PICK watched : watched = {e \in {Other(d)} : HasEv(s, f, e)}
      OBVIOUS
    <2>4. ctx' = [ctx EXCEPT ![f][d] = None] /\ Watch(s, f, watched)
      BY <2>1, <2>2, <2>3 DEF DelEv, s
    <2>5. watched \in SUBSET Dir
          /\ watched = {e \in Dir : e # d /\ ctx[f][e] # None /\ home[ctx[f][e]] = s}
      BY <1>2, <2>3 DEF HasEv, Other, Dir
    <2>6. /\ ctx' \in [Fd -> [Dir -> Co \cup {None}]]
          /\ \A g \in Fd, e \in Dir : ctx'[g][e] = IF g = f /\ e = d THEN None ELSE ctx[g][e]
      BY <1>1, <1>2, <2>4
    <2>7. \A g \in Fd, e \in Dir : ctx[g][e] = c <=> g = f /\ e = d
      BY <1>4, <1>5, <1>8
    <2>8. \A g \in Fd, e \in Dir : ctx'[g][e] = IF ctx[g][e] = c THEN None ELSE ctx[g][e]
      BY <2>6, <2>7
    <2>. QED  BY <1>7, <1>8, <2>4, <2>5, <2>6, <2>8
  <1>9. CASE added[c] /\ call[c].op \in Polls
    <2>1. DelEvent(c, f)
      BY <1>9 DEF Return, f
    <2>2. \A e \in Dir : e # d => ctx[f][e] = None
      <3>. SUFFICES ASSUME NEW e \in Dir, e # d, ctx[f][e] # None
                    PROVE  FALSE
        OBVIOUS
      <3>1. /\ ctx[f][e] \in Co /\ ctx[f][e] # c
            /\ place[ctx[f][e]] # "out" /\ call[ctx[f][e]].fd = f /\ e \in Uses(call[ctx[f][e]])
        BY <1>2, <1>4, SockRegistrations
      <3>2. Uses(call[c]) = Dir
        BY <1>9 DEF Uses
      <3>3. Uses(call[c]) \cap Uses(call[ctx[f][e]]) = {}
        BY <3>1 DEF SockInv, Apart, f
      <3>. QED  BY <3>1, <3>2, <3>3
    <2>3. ctx[f][d] # None
      BY <1>2, <1>5, <1>9
    <2>4. ctx' = [ctx EXCEPT ![f] = [e \in Dir |-> None]] /\ Watch(s, f, {})
      BY <1>2, <2>1, <2>3 DEF DelEvent, s
    <2>5. {} = {e \in Dir : e # d /\ ctx[f][e] # None /\ home[ctx[f][e]] = s}
      BY <2>2
    <2>6. /\ ctx' \in [Fd -> [Dir -> Co \cup {None}]]
          /\ \A g \in Fd, e \in Dir : ctx'[g][e] = IF g = f THEN None ELSE ctx[g][e]
      BY <1>1, <1>2, <2>4
    <2>7. \A g \in Fd, e \in Dir : ctx[g][e] = c <=> g = f /\ e = d
      BY <1>4, <1>5, <1>9
    <2>8. \A g \in Fd, e \in Dir : ctx'[g][e] = IF ctx[g][e] = c THEN None ELSE ctx[g][e]
      BY <2>2, <2>6, <2>7
    <2>9. {} \in SUBSET Dir
      OBVIOUS
    <2>. QED  BY <1>7, <1>9, <2>4, <2>5, <2>6, <2>8, <2>9
  <1>. QED  BY <1>1, <1>6, <1>8, <1>9


(* Where an event is on its way it stays on it while the loop is not at it.*)
LEMMA SockStillMissesNone ==
    ASSUME SockInv, UNCHANGED <<home, second, batch>>,
           \A f \in Fd, d \in Dir :
              ctx[f][d] # None /\ added'[ctx[f][d]] => ctx'[f][d] = ctx[f][d],
           \A q \in Co : place'[q] \in {"add", "wait"} /\ added'[q] /\ Possible(q)' =>
              \/ call'[q].fd \in edges'[home[q]]
              \/ /\ place[q] \in {"add", "wait"} /\ added[q] /\ Possible(q)
                 /\ call'[q] = call[q]
                 /\ call[q].fd \in edges[home[q]] => call[q].fd \in edges'[home[q]]
    PROVE  NotMissed'
  <1>. SUFFICES ASSUME NEW q \in Co, place'[q] \in {"add", "wait"}, added'[q], Possible(q)'
                PROVE  Coming(home[q], q)'
    BY DEF NotMissed
  <1>1. CASE call'[q].fd \in edges'[home[q]]
    BY <1>1 DEF Coming
  <1>2. CASE /\ place[q] \in {"add", "wait"} /\ added[q] /\ Possible(q)
             /\ call'[q] = call[q]
             /\ call[q].fd \in edges[home[q]] => call[q].fd \in edges'[home[q]]
    <2>1. Coming(home[q], q)
      BY <1>2 DEF SockInv, NotMissed
    <2>2. CASE \E e \in batch[home[q]] :
                  q \in ReaderOf(home[q], e[1], e[2]) \cup WriterOf(home[q], e[1], e[2])
      <3>1. PICK e \in batch[home[q]] :
                  q \in ReaderOf(home[q], e[1], e[2]) \cup WriterOf(home[q], e[1], e[2])
        BY <2>2
      <3>2. e[1] \in Fd
        BY <3>1, SockCalls DEF SockInv, SockTypeOK
      <3>3. \A d \in Dir : q \in Registered(home[q], e[1], d) => q \in Registered(home[q], e[1], d)'
        BY <3>2, SockCalls DEF Registered, SockInv
      <3>4. q \in (ReaderOf(home[q], e[1], e[2]) \cup WriterOf(home[q], e[1], e[2]))'
        BY <3>1, <3>3 DEF ReaderOf, WriterOf, Dir
      <3>. QED  BY <3>1, <3>4 DEF Coming
    <2>3. CASE second[home[q]] = q
      BY <2>3 DEF Coming
    <2>4. CASE call[q].fd \in edges[home[q]]
      BY <1>2, <2>4 DEF Coming
    <2>. QED  BY <2>1, <2>2, <2>3, <2>4 DEF Coming
  <1>. QED  BY <1>1, <1>2

(* A call of c returns, and may have used up what it was called for.       *)
LEMMA SockReturnKeeps ==
    ASSUME SockInv, NEW c \in Co, place[c] \in {"try", "add", "woken"}, Return(c),
           UNCHANGED <<home, open, loops, running, timer>>,
           ready' \in [Fd -> SUBSET Condition], Broken',
           \A f \in Fd : ready'[f] \subseteq ready[f]
    PROVE  SockInv'
  <1>1. /\ ctx' \in [Fd -> [Dir -> Co \cup {None}]]
        /\ interest' \in [Sched -> [Fd -> SUBSET Dir]] /\ edges' \in [Sched -> SUBSET Fd]
        /\ \A f \in Fd, d \in Dir : ctx'[f][d] = IF ctx[f][d] = c THEN None ELSE ctx[f][d]
        /\ \A s \in Sched, f \in Fd :
              interest'[s][f] = {d \in Dir : ctx'[f][d] # None /\ home[ctx'[f][d]] = s}
        /\ \A s \in Sched, f \in Fd, d \in Dir :
              /\ ctx'[f][d] # None /\ home[ctx'[f][d]] = s
              /\ ready[f] \cap {d, "hup"} # {} /\ f \in edges[s]
              => f \in edges'[s]
    BY SockReturns
  <1>2. /\ place' \in [Co -> {"out", "try", "add", "wait", "woken", "linger", "close"}]
        /\ call' \in [Co -> Call \cup {None}] /\ added' \in [Co -> BOOLEAN]
        /\ place'[c] = "out" /\ call'[c] = None /\ added'[c] = FALSE
        /\ \A q \in Co : q # c => place'[q] = place[q] /\ call'[q] = call[q] /\ added'[q] = added[q]
    BY DEF SockInv, SockTypeOK, Return
  <1>3. UNCHANGED <<stage, batch, second, expired, timeout>>
    BY DEF loops
  <1>4. SockTypeOK'
    BY <1>1, <1>2, <1>3 DEF SockInv, SockTypeOK
  <1>5. InPlace'
    BY <1>2 DEF SockInv, InPlace, Cpu
  <1>6. InStage'
    <2>1. \A q \in Co : place[q] \in {"wait", "linger"} => place'[q] = place[q]
      BY <1>2
    <2>2. \A s \in Sched : second[s] \in Co \cup {None} /\ expired[s] \subseteq Co
      BY DEF SockInv, SockTypeOK
    <2>. QED  BY <1>3, <2>1, <2>2 DEF SockInv, InStage
  <1>7. Apart'
    BY <1>2 DEF SockInv, Apart
  <1>8. AddedIsRegistered'
    <2>. SUFFICES ASSUME NEW q \in Co, added'[q]
                  PROVE  ctx'[call'[q].fd][DirOf(call'[q])] = q
      BY DEF AddedIsRegistered
    <2>1. q # c /\ added[q] /\ call'[q] = call[q] /\ call[q] # None
      BY <1>2 DEF SockInv, InPlace
    <2>2. ctx[call[q].fd][DirOf(call[q])] = q
      BY <2>1 DEF SockInv, AddedIsRegistered
    <2>. QED  BY <1>1, <2>1, <2>2, SockCalls DEF SockInv
  <1>9. RegistrationLive'
    <2>1. ASSUME NEW f \in Fd, NEW d \in Dir, ctx'[f][d] # None
          PROVE  /\ added'[ctx'[f][d]] /\ call'[ctx'[f][d]].fd = f
                 /\ DirOf(call'[ctx'[f][d]]) = d
      <3>1. ctx'[f][d] = ctx[f][d] /\ ctx[f][d] # c
        BY <1>1, <2>1
      <3>. QED  BY <1>2, <2>1, <3>1, SockRegistrations
    <2>. QED  BY <1>1, <2>1 DEF RegistrationLive, HasEv
  <1>10. NotMissed'
    <2>1. \A f \in Fd, d \in Dir :
             ctx[f][d] # None /\ added'[ctx[f][d]] => ctx'[f][d] = ctx[f][d]
      BY <1>1, <1>2
    <2>2. ASSUME NEW q \in Co, place'[q] \in {"add", "wait"}, added'[q], Possible(q)'
          PROVE  /\ place[q] \in {"add", "wait"} /\ added[q] /\ Possible(q)
                 /\ call'[q] = call[q]
                 /\ call[q].fd \in edges[home[q]] => call[q].fd \in edges'[home[q]]
      <3>1. /\ q # c /\ place[q] \in {"add", "wait"} /\ added[q] /\ call'[q] = call[q]
            /\ call[q] # None
        BY <1>2, <2>2 DEF SockInv, InPlace
      <3>2. /\ call[q].fd \in Fd /\ DirOf(call[q]) \in Dir /\ home[q] \in Sched /\ q # None
        BY <3>1, SockCalls DEF SockInv
      <3>3. ready[call[q].fd] \cap {DirOf(call[q]), "hup"} # {}
        BY <2>2, <3>1, <3>2 DEF Possible
      <3>4. ctx'[call[q].fd][DirOf(call[q])] = q
        BY <1>1, <3>1, <3>2 DEF SockInv, AddedIsRegistered
      <3>5. Possible(q)
        BY <3>3 DEF Possible
      <3>6. call[q].fd \in edges[home[q]] => call[q].fd \in edges'[home[q]]
        BY <1>1, <3>2, <3>3, <3>4
      <3>. QED  BY <3>1, <3>5, <3>6
    <2>. QED  BY <1>3, <2>1, <2>2, SockStillMissesNone
  <1>. QED  BY <1>4, <1>5, <1>6, <1>7, <1>8, <1>9, <1>10 DEF SockInv

(* A step of c that changes no registration: a call begins, or goes on.    *)
LEMMA SockGoesOnKeeps ==
    ASSUME SockInv, NEW c \in Co, NEW k \in {"out", "try", "add"}, NEW x \in Call \cup {None},
           running[home[c]] = c,
           place[c] \in {"out", "try", "add", "woken"},
           place' = [place EXCEPT ![c] = k], call' = [call EXCEPT ![c] = x],
           x # call[c] => /\ x # None /\ ~ added[c] /\ k # "out"
                          /\ \A d \in Uses(x) : Free(c, x.fd, d),
           k = "out" <=> x = None,
           x # None => x.fd \in open /\ x.op # "close",
           k = "out" => ~ added[c],
           k = "add" /\ added[c] => ~ Possible(c)',
           UNCHANGED <<home, ctx, interest, edges, open, loops, running, added, timer>>,
           ready' \in [Fd -> SUBSET Condition], Broken',
           \A f \in Fd : ready'[f] \subseteq ready[f]
    PROVE  SockInv'
  <1>1. /\ place' \in [Co -> {"out", "try", "add", "wait", "woken", "linger", "close"}]
        /\ call' \in [Co -> Call \cup {None}]
        /\ place'[c] = k /\ call'[c] = x
        /\ \A q \in Co : q # c => place'[q] = place[q] /\ call'[q] = call[q]
    BY DEF SockInv, SockTypeOK
  <1>2. UNCHANGED <<stage, batch, second, expired, timeout>>
    BY DEF loops
  <1>3. SockTypeOK'
    BY <1>1, <1>2 DEF SockInv, SockTypeOK
  <1>4. InPlace'
    BY <1>1 DEF SockInv, InPlace, Cpu
  <1>5. InStage'
    <2>1. \A q \in Co : place[q] \in {"wait", "linger"} => place'[q] = place[q]
      BY <1>1
    <2>2. \A s \in Sched : second[s] \in Co \cup {None} /\ expired[s] \subseteq Co
      BY DEF SockInv, SockTypeOK
    <2>. QED  BY <1>2, <2>1, <2>2 DEF SockInv, InStage
  <1>6. Apart'
    <2>. SUFFICES ASSUME NEW q1 \in Co, NEW q2 \in Co, q1 # q2,
                         place'[q1] # "out", place'[q2] # "out", call'[q1].fd = call'[q2].fd
                  PROVE  Uses(call'[q1]) \cap Uses(call'[q2]) = {}
      BY DEF Apart
    <2>1. CASE x = call[c]
      <3>1. place'[c] # "out" => place[c] # "out"
        BY <1>1, <2>1 DEF SockInv, InPlace
      <3>2. call'[q1] = call[q1] /\ call'[q2] = call[q2] /\ place[q1] # "out" /\ place[q2] # "out"
        BY <1>1, <2>1, <3>1
      <3>. QED  BY <3>2 DEF SockInv, Apart
    <2>2. CASE x # call[c]
      <3>1. \A q \in Co : q # c /\ place'[q] # "out" /\ call'[q].fd = x.fd
                             => Uses(x) \cap Uses(call'[q]) = {}
        BY <1>1, <2>2 DEF Free
      <3>2. CASE q1 # c /\ q2 # c
        BY <1>1, <3>2 DEF SockInv, Apart
      <3>3. CASE q1 = c
        BY <1>1, <3>1, <3>3
      <3>4. CASE q2 = c
        BY <1>1, <3>1, <3>4
      <3>. QED  BY <3>2, <3>3, <3>4
    <2>. QED  BY <2>1, <2>2
  <1>7. \A q \in Co : added[q] => call'[q] = call[q]
    BY <1>1
  <1>8. AddedIsRegistered'
    BY <1>7 DEF SockInv, AddedIsRegistered
  <1>9. RegistrationLive'
    <2>1. ASSUME NEW f \in Fd, NEW d \in Dir, ctx[f][d] # None
          PROVE  added[ctx[f][d]] /\ call'[ctx[f][d]].fd = f /\ DirOf(call'[ctx[f][d]]) = d
      BY <1>7, <2>1, SockRegistrations
    <2>2. \A s \in Sched, f \in Fd : interest[s][f] = {d \in Dir : HasEv(s, f, d)}
      BY DEF SockInv, RegistrationLive
    <2>. QED  BY <2>1, <2>2 DEF RegistrationLive, HasEv
  <1>10. NotMissed'
    <2>1. ASSUME NEW q \in Co, place'[q] \in {"add", "wait"}, added'[q], Possible(q)'
          PROVE  /\ place[q] \in {"add", "wait"} /\ added[q] /\ Possible(q)
                 /\ call'[q] = call[q]
      <3>1. q # c /\ call'[q] = call[q] /\ place'[q] = place[q]
        BY <1>1, <1>7, <2>1
      <3>2. call[q].fd \in Fd
        BY <2>1, <3>1, SockCalls DEF SockInv, InPlace
      <3>. QED  BY <2>1, <3>1, <3>2 DEF Possible
    <2>. QED  BY <1>2, <2>1, SockStillMissesNone
  <1>. QED  BY <1>3, <1>4, <1>5, <1>6, <1>8, <1>9, <1>10 DEF SockInv

(* No call is under way at first, and nothing is registered.               *)
LEMMA SockStarts ==
    ASSUME SockInit
    PROVE  SockInv
  <1>. USE DEF SockInit
  <1>1. SockTypeOK
    BY SockIoAssumption DEF SockTypeOK
  <1>2. \A c \in Co : home[c] \in Sched /\ c # None
    BY <1>1, SockIoAssumption DEF SockTypeOK
  <1>3. InPlace
    BY <1>2 DEF InPlace, Cpu
  <1>4. InStage
    BY DEF InStage
  <1>5. Apart /\ AddedIsRegistered /\ Broken /\ NotMissed
    BY DEF Apart, AddedIsRegistered, Broken, NotMissed
  <1>6. RegistrationLive
    BY DEF RegistrationLive, HasEv
  <1>. QED  BY <1>1, <1>3, <1>4, <1>5, <1>6 DEF SockInv

(* A call begins when no other is on what it uses.                         *)
LEMMA SockBegins ==
    ASSUME SockInv, Alone = TRUE, NEW c \in Co, NEW a \in Calls, Begin(c, a)
    PROVE  SockInv'
  <1>. USE DEF Begin
  <1>1. PICK k \in {"try", "add"} : k = IF a.op \in Polls THEN "add" ELSE "try"
    OBVIOUS
  <1>2. place' = [place EXCEPT ![c] = k]
    BY <1>1
  <1>3. a \in Call /\ a # None
    BY SockIoAssumption
  <1>4. ~ added[c] /\ running[home[c]] = c
    BY DEF SockInv, InPlace, Cpu
  <1>5. UNCHANGED <<interest, edges, ready, open>>
    BY DEF kernel
  <1>6. ready' \in [Fd -> SUBSET Condition] /\ Broken'
    BY <1>5 DEF SockInv, SockTypeOK, Broken
  <1>. HIDE DEF Begin
  <1>7. /\ place[c] = "out" /\ a.op # "close" /\ a.fd \in open
        /\ \A d \in Uses(a) : Free(c, a.fd, d)
        /\ call' = [call EXCEPT ![c] = a]
        /\ UNCHANGED <<home, ctx, loops, running, added, timer>>
    BY DEF Begin
  <1>. QED  BY <1>1, <1>2, <1>3, <1>4, <1>5, <1>6, <1>7, SockGoesOnKeeps

(* A system call uses a condition up at most, never the end of a           *)
(* connection.                                                             *)
LEMMA SockTransfers ==
    ASSUME SockInv, NEW c \in Co, Transfer(c)
    PROVE  /\ ready' \in [Fd -> SUBSET Condition] /\ Broken'
           /\ \A f \in Fd : ready'[f] \subseteq ready[f]
  <1>1. ready \in [Fd -> SUBSET Condition] /\ Broken
    BY DEF SockInv, SockTypeOK
  <1>2. CASE UNCHANGED ready
    BY <1>1, <1>2 DEF Broken
  <1>3. CASE /\ "hup" \notin ready[call[c].fd]
             /\ ready' = [ready EXCEPT ![call[c].fd] = @ \ {DirOf(call[c])}]
    BY <1>1, <1>3 DEF Broken
  <1>. QED  BY <1>2, <1>3 DEF Transfer

(* The system call was enough, and the call returns.                       *)
LEMMA SockTrySucceeds ==
    ASSUME SockInv, NEW c \in Co, TrySucceeds(c)
    PROVE  SockInv'
  <1>1. place[c] = "try" /\ Return(c) /\ UNCHANGED <<home, open, loops, running, timer>> /\ Transfer(c)
    BY DEF TrySucceeds, Transfer
  <1>. QED  BY <1>1, SockTransfers, SockReturnKeeps

(* recvn or send has transferred a part, and goes on.                      *)
LEMMA SockTryPartly ==
    ASSUME SockInv, NEW c \in Co, TryPartly(c)
    PROVE  SockInv'
  <1>1. /\ place[c] = "try" /\ running[home[c]] = c /\ Transfer(c)
        /\ UNCHANGED <<home, ctx, interest, edges, open, loops, running, place, call, added, timer>>
    BY DEF TryPartly, Transfer, Cpu
  <1>2. PICK x \in Call \cup {None} : x = call[c]
    BY DEF SockInv, SockTypeOK
  <1>3. place' = [place EXCEPT ![c] = "try"] /\ call' = [call EXCEPT ![c] = x]
    BY <1>1, <1>2 DEF SockInv, SockTypeOK
  <1>4. x # None /\ x.op # "close" /\ x.fd \in open
    BY <1>1, <1>2 DEF SockInv, InPlace
  <1>. QED  BY <1>1, <1>2, <1>3, <1>4, SockTransfers, SockGoesOnKeeps

(* The system call failed for good, and the call returns.                  *)
LEMMA SockTryFails ==
    ASSUME SockInv, NEW c \in Co, TryFails(c)
    PROVE  SockInv'
  <1>1. place[c] = "try" /\ Return(c) /\ UNCHANGED <<home, open, loops, running, timer>> /\ UNCHANGED ready
    BY DEF TryFails
  <1>2. ready' \in [Fd -> SUBSET Condition] /\ Broken'
    BY <1>1 DEF SockInv, SockTypeOK, Broken
  <1>. QED  BY <1>1, <1>2, SockReturnKeeps

(* The system call would block: nothing is possible, so nothing is missed  *)
(* although the event was registered for an earlier wait of the call.      *)
LEMMA SockTryBlocks ==
    ASSUME SockInv, NEW c \in Co, TryBlocks(c)
    PROVE  SockInv'
  <1>1. /\ place[c] = "try" /\ running[home[c]] = c /\ ~ Possible(c)
        /\ place' = [place EXCEPT ![c] = "add"]
        /\ UNCHANGED <<home, ctx, interest, edges, ready, open, loops, running, call, added, timer>>
    BY DEF TryBlocks, Cpu, kernel
  <1>2. PICK x \in Call \cup {None} : x = call[c]
    BY DEF SockInv, SockTypeOK
  <1>3. call' = [call EXCEPT ![c] = x]
    BY <1>1, <1>2 DEF SockInv, SockTypeOK
  <1>4. x # None /\ x.op # "close" /\ x.fd \in open
    BY <1>1, <1>2 DEF SockInv, InPlace
  <1>5. ready' \in [Fd -> SUBSET Condition] /\ Broken'
    BY <1>1 DEF SockInv, SockTypeOK, Broken
  <1>6. ~ Possible(c)'
    BY <1>1 DEF Possible
  <1>. QED  BY <1>1, <1>2, <1>3, <1>4, <1>5, <1>6, SockGoesOnKeeps

(* accept() tries once more although wait() has failed; after a wait the   *)
(* other calls do.                                                         *)
LEMMA SockTriesAgain ==
    ASSUME SockInv, NEW c \in Co, place[c] \in {"add", "woken"}, running[home[c]] = c,
           place' = [place EXCEPT ![c] = "try"],
           UNCHANGED <<home, ctx, interest, edges, ready, open, loops, running, call, added, timer>>
    PROVE  SockInv'
  <1>1. PICK x \in Call \cup {None} : x = call[c]
    BY DEF SockInv, SockTypeOK
  <1>2. call' = [call EXCEPT ![c] = x]
    BY <1>1 DEF SockInv, SockTypeOK
  <1>3. x # None /\ x.op # "close" /\ x.fd \in open
    BY <1>1 DEF SockInv, InPlace
  <1>4. ready' \in [Fd -> SUBSET Condition] /\ Broken'
    BY DEF SockInv, SockTypeOK, Broken
  <1>. QED  BY <1>1, <1>2, <1>3, <1>4, SockGoesOnKeeps

(* A call returns without having touched the descriptor.                   *)
LEMMA SockReturnsAsIs ==
    ASSUME SockInv, NEW c \in Co, place[c] \in {"add", "woken"}, Return(c),
           UNCHANGED <<home, ready, open, loops, running, timer>>
    PROVE  SockInv'
  <1>1. ready' \in [Fd -> SUBSET Condition] /\ Broken'
    BY DEF SockInv, SockTypeOK, Broken
  <1>. QED  BY <1>1, SockReturnKeeps

(* epoll_ctl refuses: the call returns, that of accept() tries again.      *)
LEMMA SockWaitFails ==
    ASSUME SockInv, NEW c \in Co, WaitFails(c)
    PROVE  SockInv'
  <1>1. /\ place[c] = "add" /\ running[home[c]] = c
        /\ UNCHANGED <<home, ready, open, loops, running, timer>>
        /\ \/ Return(c)
           \/ place' = [place EXCEPT ![c] = "try"] /\ UNCHANGED <<ctx, interest, edges, call, added>>
    BY DEF WaitFails, Cpu
  <1>. QED  BY <1>1, SockTriesAgain, SockReturnsAsIs

(* A coroutine that was resumed returns or tries again.                    *)
LEMMA SockWoken ==
    ASSUME SockInv, NEW c \in Co, Woken(c)
    PROVE  SockInv'
  <1>1. /\ place[c] = "woken" /\ running[home[c]] = c
        /\ UNCHANGED <<home, ready, open, loops, running, timer>>
        /\ \/ Return(c)
           \/ place' = [place EXCEPT ![c] = "try"] /\ UNCHANGED <<ctx, interest, edges, call, added>>
    BY DEF Woken, Cpu
  <1>. QED  BY <1>1, SockTriesAgain, SockReturnsAsIs

(* wait() registers the caller, unless it is: nobody else is there, and if *)
(* what it waits for has come about, that is reported at once.             *)
LEMMA SockAdds ==
    ASSUME SockInv, NEW c \in Co, place[c] = "add",
           added[c] => UNCHANGED <<ctx, interest, edges>>,
           ~ added[c] => AddEv(c, call[c].fd, DirOf(call[c]))
    PROVE  /\ ctx' \in [Fd -> [Dir -> Co \cup {None}]]
           /\ interest' \in [Sched -> [Fd -> SUBSET Dir]] /\ edges' \in [Sched -> SUBSET Fd]
           /\ \A f \in Fd, d \in Dir :
                 ctx'[f][d] = IF f = call[c].fd /\ d = DirOf(call[c]) THEN c ELSE ctx[f][d]
           /\ \A s \in Sched, f \in Fd :
                 interest'[s][f] = {d \in Dir : ctx'[f][d] # None /\ home[ctx'[f][d]] = s}
           /\ \A s \in Sched, f \in Fd, d \in Dir :
                 /\ ctx'[f][d] # None /\ home[ctx'[f][d]] = s
                 /\ ready[f] \cap {d, "hup"} # {}
                 /\ f \in edges[s] \/ ctx[f][d] = None
                 => f \in edges'[s]
           /\ ctx[call[c].fd][DirOf(call[c])] \in {c, None}
  <1> DEFINE f == call[c].fd
             d == DirOf(call[c])
             s == home[c]
  <1>1. /\ ctx \in [Fd -> [Dir -> Co \cup {None}]]
        /\ interest \in [Sched -> [Fd -> SUBSET Dir]] /\ edges \in [Sched -> SUBSET Fd]
        /\ added[c] \in BOOLEAN
    BY DEF SockInv, SockTypeOK
  <1>2. f \in Fd /\ d \in Dir /\ s \in Sched /\ c # None /\ call[c] # None /\ d \in Uses(call[c])
    BY SockCalls DEF SockInv, InPlace
  <1>3. \A t \in Sched, g \in Fd : interest[t][g] = {e \in Dir : ctx[g][e] # None /\ home[ctx[g][e]] = t}
    BY DEF SockInv, RegistrationLive, HasEv
  <1>4. added[c] => ctx[f][d] = c
    BY DEF SockInv, AddedIsRegistered
  <1>5. ~ added[c] => ctx[f][d] = None
    <2>. SUFFICES ASSUME ~ added[c], ctx[f][d] # None PROVE FALSE
      OBVIOUS
    <2>1. PICK q \in Co : q = ctx[f][d]
      BY <1>1, <1>2
    <2>2. added[q] /\ call[q].fd = f /\ d \in Uses(call[q]) /\ place[q] # "out"
      BY <1>2, <2>1, SockRegistrations
    <2>3. q # c
      BY <2>2
    <2>4. Uses(call[c]) \cap Uses(call[q]) = {}
      BY <2>2, <2>3 DEF SockInv, Apart
    <2>. QED  BY <1>2, <2>2, <2>4
  <1>. HIDE DEF f, d, s
  <1>6. CASE added[c]
    <2>1. UNCHANGED <<ctx, interest, edges>>
      BY <1>6
    <2>2. \A g \in Fd, e \in Dir : ctx'[g][e] = IF g = f /\ e = d THEN c ELSE ctx[g][e]
      BY <1>4, <1>6, <2>1
    <2>3. \A g \in Fd, e \in Dir : ctx'[g][e] # None => ctx[g][e] # None
      BY <2>1
    <2>. QED  BY <1>1, <1>3, <1>4, <1>6, <2>1, <2>2, <2>3 DEF f, d
  <1>7. CASE ~ added[c]
    <2>1. AddEv(c, f, d)
      BY <1>7 DEF f, d
    <2>2. PICK watched : watched = {d} \cup {e \in {Other(d)} : HasEv(s, f, e)}
      OBVIOUS
    <2>3. ctx' = [ctx EXCEPT ![f][d] = c] /\ Watch(s, f, watched)
      BY <1>5, <1>7, <2>1, <2>2 DEF AddEv, s
    <2>4. /\ watched \in SUBSET Dir
          /\ \A e \in Dir : e \in watched <=> e = d \/ (ctx[f][e] # None /\ home[ctx[f][e]] = s)
      <3>1. ctx[f][d] = None
        BY <1>5, <1>7
      <3>. QED  BY <1>2, <2>2, <3>1 DEF HasEv, Other, Dir
    <2>5. /\ ctx' \in [Fd -> [Dir -> Co \cup {None}]]
          /\ \A g \in Fd, e \in Dir : ctx'[g][e] = IF g = f /\ e = d THEN c ELSE ctx[g][e]
      BY <1>1, <1>2, <2>3
    <2>6. /\ interest' \in [Sched -> [Fd -> SUBSET Dir]] /\ edges' \in [Sched -> SUBSET Fd]
          /\ interest'[s][f] = watched
          /\ \A t \in Sched, g \in Fd :
                t # s \/ g # f => /\ interest'[t][g] = interest[t][g]
                                  /\ g \in edges'[t] <=> g \in edges[t]
          /\ \A e \in watched : ready[f] \cap {e, "hup"} # {} => f \in edges'[s]
      <3>1. SockTypeOK /\ s \in Sched /\ f \in Fd /\ watched \in SUBSET Dir /\ Watch(s, f, watched)
        BY <1>2, <2>3, <2>4 DEF SockInv
      <3>. QED  BY <3>1, SockWatched
    <2>7. ASSUME NEW t \in Sched, NEW g \in Fd
          PROVE  interest'[t][g] = {e \in Dir : ctx'[g][e] # None /\ home[ctx'[g][e]] = t}
      <3>1. CASE g = f /\ t = s
        <4>1. \A e \in Dir : e \in watched <=> ctx'[f][e] # None /\ home[ctx'[f][e]] = s
          BY <1>2, <2>4, <2>5 DEF s
        <4>2. watched = {e \in Dir : ctx'[f][e] # None /\ home[ctx'[f][e]] = s}
          BY <2>4, <4>1
        <4>. QED  BY <2>6, <3>1, <4>2
      <3>2. CASE g = f /\ t # s
        <4>1. \A e \in Dir : ctx'[f][e] # None /\ home[ctx'[f][e]] = t
                                <=> ctx[f][e] # None /\ home[ctx[f][e]] = t
          <5>1. ctx'[f][d] = c /\ ctx[f][d] = None /\ home[c] # t
            BY <1>2, <1>5, <1>7, <2>5, <3>2 DEF s
          <5>. QED  BY <1>2, <2>5, <5>1
        <4>2. interest'[t][g] = {e \in Dir : ctx[f][e] # None /\ home[ctx[f][e]] = t}
          BY <1>2, <1>3, <2>6, <3>2
        <4>. QED  BY <3>2, <4>1, <4>2
      <3>3. CASE g # f
        BY <1>3, <2>5, <2>6, <3>3
      <3>. QED  BY <3>1, <3>2, <3>3
    <2>8. ASSUME NEW t \in Sched, NEW g \in Fd, NEW e \in Dir,
                 ctx'[g][e] # None, home[ctx'[g][e]] = t,
                 ready[g] \cap {e, "hup"} # {}, g \in edges[t] \/ ctx[g][e] = None
          PROVE  g \in edges'[t]
      <3>1. CASE t = s /\ g = f
        <4>1. e \in watched
          BY <2>4, <2>5, <2>8, <3>1
        <4>. QED  BY <2>6, <2>8, <3>1, <4>1
      <3>2. CASE t # s \/ g # f
        <4>1. ctx'[g][e] = ctx[g][e]
          BY <2>5, <2>8, <3>2 DEF s
        <4>. QED  BY <2>6, <2>8, <3>2, <4>1
      <3>. QED  BY <3>1, <3>2
    <2>. QED  BY <1>5, <1>7, <2>5, <2>6, <2>7, <2>8 DEF f, d
  <1>. QED  BY <1>6, <1>7

(* io_event::wait registers the coroutine, sets its timer and yields.      *)
LEMMA SockWaits ==
    ASSUME SockInv, NEW c \in Co, Wait(c)
    PROVE  SockInv'
  <1>0. /\ place[c] = "add" /\ running[home[c]] = c
        /\ added[c] => UNCHANGED <<ctx, interest, edges>>
        /\ ~ added[c] => AddEv(c, call[c].fd, DirOf(call[c]))
        /\ added' = [added EXCEPT ![c] = TRUE]
        /\ timer' = [timer EXCEPT ![c] = call[c].timed]
        /\ place' = [place EXCEPT ![c] = "wait"]
        /\ running' = [running EXCEPT ![home[c]] = None]
        /\ UNCHANGED <<home, ready, open, call>>
        /\ UNCHANGED <<stage, batch, second, expired, timeout>>
    BY DEF Wait, Cpu, Yield, loops
  <1>1. /\ ctx' \in [Fd -> [Dir -> Co \cup {None}]]
        /\ interest' \in [Sched -> [Fd -> SUBSET Dir]] /\ edges' \in [Sched -> SUBSET Fd]
        /\ \A f \in Fd, d \in Dir :
              ctx'[f][d] = IF f = call[c].fd /\ d = DirOf(call[c]) THEN c ELSE ctx[f][d]
        /\ \A s \in Sched, f \in Fd :
              interest'[s][f] = {d \in Dir : ctx'[f][d] # None /\ home[ctx'[f][d]] = s}
        /\ \A s \in Sched, f \in Fd, d \in Dir :
              /\ ctx'[f][d] # None /\ home[ctx'[f][d]] = s
              /\ ready[f] \cap {d, "hup"} # {}
              /\ f \in edges[s] \/ ctx[f][d] = None
              => f \in edges'[s]
        /\ ctx[call[c].fd][DirOf(call[c])] \in {c, None}
    BY <1>0, SockAdds
  <1>2. /\ call[c] # None /\ call[c].fd \in Fd /\ call[c].timed \in BOOLEAN /\ DirOf(call[c]) \in Dir
        /\ c # None /\ home[c] \in Sched
    BY <1>0, SockCalls DEF SockInv, InPlace
  <1>3. /\ place' \in [Co -> {"out", "try", "add", "wait", "woken", "linger", "close"}]
        /\ added' \in [Co -> BOOLEAN] /\ timer' \in [Co -> BOOLEAN]
        /\ running' \in [Sched -> Co \cup {None}]
        /\ place'[c] = "wait" /\ added'[c] = TRUE /\ running'[home[c]] = None
        /\ \A q \in Co : q # c => place'[q] = place[q] /\ added'[q] = added[q] /\ timer'[q] = timer[q]
        /\ \A s \in Sched : s # home[c] => running'[s] = running[s]
    BY <1>0, <1>2 DEF SockInv, SockTypeOK
  <1>4. SockTypeOK'
    BY <1>0, <1>1, <1>3 DEF SockInv, SockTypeOK
  <1>5. \A q \in Co : q # c => (Cpu(q)' <=> Cpu(q))
    <2>. SUFFICES ASSUME NEW q \in Co, q # c
                  PROVE  running'[home[q]] = q <=> running[home[q]] = q
      BY <1>0 DEF Cpu
    <2>1. home[q] \in Sched /\ q # None
      BY SockCalls DEF SockInv
    <2>. QED  BY <1>0, <1>3, <2>1
  <1>6. InPlace'
    <2>. SUFFICES ASSUME NEW q \in Co
                  PROVE  /\ place'[q] = "out" <=> call'[q] = None
                         /\ place'[q] \in {"linger", "close"} <=> call'[q] # None /\ call'[q].op = "close"
                         /\ place'[q] \in {"out", "linger", "close"} => ~ added'[q]
                         /\ place'[q] = "wait" => added'[q]
                         /\ place'[q] \in {"try", "add", "woken", "close"} => Cpu(q)'
                         /\ place'[q] \in {"wait", "linger"} => ~ Cpu(q)'
                         /\ timer'[q] => place'[q] \in {"wait", "linger"}
                         /\ place'[q] # "out" => call'[q].fd \in open'
      BY DEF InPlace
    <2>1. CASE q = c
      <3>1. ~ Cpu(q)'
        BY <1>0, <1>2, <1>3, <2>1 DEF Cpu
      <3>2. call[c].op # "close" /\ call[c].fd \in open
        BY <1>0, <1>2 DEF SockInv, InPlace
      <3>. QED  BY <1>0, <1>2, <1>3, <2>1, <3>1, <3>2
    <2>2. CASE q # c
      BY <1>0, <1>3, <1>5, <2>2 DEF SockInv, InPlace
    <2>. QED  BY <2>1, <2>2
  <1>7. InStage'
    <2>1. \A q \in Co : place[q] \in {"wait", "linger"} => place'[q] = place[q]
      BY <1>0, <1>3
    <2>2. \A s \in Sched : second[s] \in Co \cup {None} /\ expired[s] \subseteq Co
      BY DEF SockInv, SockTypeOK
    <2>3. \A s \in Sched : running'[s] \in {running[s], None}
      BY <1>3
    <2>. QED  BY <1>0, <2>1, <2>2, <2>3 DEF SockInv, InStage
  <1>8. Apart'
    <2>1. \A q \in Co : place'[q] # "out" <=> place[q] # "out"
      BY <1>0, <1>3
    <2>. QED  BY <1>0, <2>1 DEF SockInv, Apart
  <1>9. AddedIsRegistered'
    <2>. SUFFICES ASSUME NEW q \in Co, added'[q]
                  PROVE  ctx'[call[q].fd][DirOf(call[q])] = q
      BY <1>0 DEF AddedIsRegistered
    <2>1. CASE q = c
      BY <1>1, <1>2, <2>1
    <2>2. CASE q # c
      <3>1. added[q] /\ call[q] # None
        BY <1>3, <2>2 DEF SockInv, InPlace
      <3>2. ctx[call[q].fd][DirOf(call[q])] = q
        BY <3>1 DEF SockInv, AddedIsRegistered
      <3>3. call[q].fd \in Fd /\ DirOf(call[q]) \in Dir /\ q # None
        BY <3>1, SockCalls DEF SockInv
      <3>4. ~ (call[q].fd = call[c].fd /\ DirOf(call[q]) = DirOf(call[c]))
        BY <1>1, <2>2, <3>2, <3>3
      <3>. QED  BY <1>1, <3>2, <3>3, <3>4
    <2>. QED  BY <2>1, <2>2
  <1>10. RegistrationLive'
    <2>1. ASSUME NEW f \in Fd, NEW d \in Dir, ctx'[f][d] # None
          PROVE  /\ added'[ctx'[f][d]] /\ call'[ctx'[f][d]].fd = f
                 /\ DirOf(call'[ctx'[f][d]]) = d
      <3>1. CASE f = call[c].fd /\ d = DirOf(call[c])
        BY <1>0, <1>1, <1>3, <3>1
      <3>2. CASE ~ (f = call[c].fd /\ d = DirOf(call[c]))
        <4>1. ctx'[f][d] = ctx[f][d]
          BY <1>1, <3>2
        <4>2. ctx[f][d] \in Co /\ added[ctx[f][d]] /\ call[ctx[f][d]].fd = f /\ DirOf(call[ctx[f][d]]) = d
          BY <2>1, <4>1, SockRegistrations
        <4>. QED  BY <1>0, <1>3, <4>1, <4>2
      <3>. QED  BY <3>1, <3>2
    <2>. QED  BY <1>0, <1>1, <2>1 DEF RegistrationLive, HasEv
  <1>11. Broken'
    BY <1>0 DEF SockInv, Broken
  <1>12. NotMissed'
    <2>1. \A f \in Fd, d \in Dir :
             ctx[f][d] # None /\ added'[ctx[f][d]] => ctx'[f][d] = ctx[f][d]
      BY <1>1
    <2>2. ASSUME NEW q \in Co, place'[q] \in {"add", "wait"}, added'[q], Possible(q)'
          PROVE  \/ call'[q].fd \in edges'[home[q]]
                 \/ /\ place[q] \in {"add", "wait"} /\ added[q] /\ Possible(q)
                    /\ call'[q] = call[q]
                    /\ call[q].fd \in edges[home[q]] => call[q].fd \in edges'[home[q]]
      <3>1. /\ place[q] \in {"add", "wait"} /\ call'[q] = call[q] /\ call[q] # None
        BY <1>0, <1>3, <2>2 DEF SockInv, InPlace
      <3>2. /\ call[q].fd \in Fd /\ DirOf(call[q]) \in Dir /\ home[q] \in Sched /\ q # None
        BY <3>1, SockCalls DEF SockInv
      <3>3. ready[call[q].fd] \cap {DirOf(call[q]), "hup"} # {} /\ Possible(q)
        BY <1>0, <2>2, <3>1 DEF Possible
      <3>4. ctx'[call[q].fd][DirOf(call[q])] = q
        BY <1>9, <2>2, <3>1 DEF AddedIsRegistered
      <3>5. CASE added[q]
        BY <1>1, <3>1, <3>2, <3>3, <3>4, <3>5
      <3>6. CASE ~ added[q]
        <4>1. q = c /\ ctx[call[q].fd][DirOf(call[q])] = None
          <5>1. q = c
            BY <1>3, <2>2, <3>6
          <5>2. ctx[call[c].fd][DirOf(call[c])] # c
            <6>. SUFFICES ASSUME ctx[call[c].fd][DirOf(call[c])] = c PROVE FALSE
              OBVIOUS
            <6>. QED  BY <1>2, <3>6, <5>1, SockRegistrations
          <5>. QED  BY <1>1, <5>1, <5>2
        <4>. QED  BY <1>1, <3>1, <3>2, <3>3, <3>4, <4>1
      <3>. QED  BY <3>5, <3>6
    <2>. QED  BY <1>0, <2>1, <2>2, SockStillMissesNone
  <1>. QED  BY <1>4, <1>6, <1>7, <1>8, <1>9, <1>10, <1>11, <1>12 DEF SockInv

(* A coroutine in no call yields, or is resumed.                           *)
LEMMA SockElsewhereKeeps ==
    ASSUME SockInv, NEW c \in Co, place[c] = "out", NEW x \in {c, None},
           running[home[c]] \in {c, None}, stage[home[c]] # "poll" \/ x = None,
           running' = [running EXCEPT ![home[c]] = x],
           UNCHANGED <<home, ctx, interest, edges, ready, open, loops, place, call, added, timer>>
    PROVE  SockInv'
  <1>1. UNCHANGED <<stage, batch, second, expired, timeout>>
    BY DEF loops
  <1>2. home[c] \in Sched /\ c # None
    BY SockCalls DEF SockInv
  <1>3. /\ running' \in [Sched -> Co \cup {None}]
        /\ running'[home[c]] = x
        /\ \A s \in Sched : s # home[c] => running'[s] = running[s]
    BY <1>2 DEF SockInv, SockTypeOK
  <1>4. SockTypeOK'
    BY <1>1, <1>3 DEF SockInv, SockTypeOK
  <1>5. InPlace'
    <2>1. ASSUME NEW q \in Co, place[q] # "out"
          PROVE  Cpu(q)' <=> Cpu(q)
      <3>1. home[q] \in Sched /\ q # None /\ q # c
        BY <2>1, SockCalls DEF SockInv
      <3>. QED  BY <1>3, <3>1 DEF Cpu
    <2>. QED  BY <2>1 DEF SockInv, InPlace
  <1>6. InStage'
    BY <1>1, <1>2, <1>3 DEF SockInv, InStage
  <1>7. Apart' /\ AddedIsRegistered' /\ Broken'
    BY DEF SockInv, Apart, AddedIsRegistered, Broken
  <1>8. RegistrationLive'
    BY DEF SockInv, RegistrationLive, HasEv
  <1>9. NotMissed'
    BY <1>1, SockStillMissesNone DEF Possible
  <1>. QED  BY <1>4, <1>5, <1>6, <1>7, <1>8, <1>9 DEF SockInv

(* What coroutines do outside of calls changes no registration.            *)
LEMMA SockLeaves ==
    ASSUME SockInv, NEW c \in Co, Leave(c) \/ TaskResumed(c)
    PROVE  SockInv'
  <1>1. PICK x \in {c, None} :
           /\ stage[home[c]] # "poll" \/ x = None
           /\ running' = [running EXCEPT ![home[c]] = x]
           /\ place[c] = "out"
           /\ UNCHANGED <<home, ctx, interest, kernel, loops, place, call, added, timer>>
    <2>1. CASE Leave(c)
      BY <2>1 DEF Leave, Cpu, Yield
    <2>2. CASE TaskResumed(c)
      BY <2>2 DEF TaskResumed
    <2>. QED  BY <2>1, <2>2
  <1>2. running[home[c]] \in {c, None}
    BY DEF Leave, TaskResumed, Cpu
  <1>3. stage[home[c]] # "poll" \/ x = None
    BY <1>1
  <1>4. UNCHANGED <<edges, ready, open>>
    BY <1>1 DEF kernel
  <1>. QED  BY <1>1, <1>2, <1>3, <1>4, SockElsewhereKeeps

(* close() finds nobody registered, since nobody is in a call on the       *)
(* descriptor, and keeps others from beginning one.                        *)
LEMMA SockCloses ==
    ASSUME SockInv, Alone = TRUE, NEW c \in Co, NEW f \in Fd, NEW ms \in BOOLEAN, Close(c, f, ms)
    PROVE  SockInv'
  <1>1. /\ running[home[c]] = c /\ place[c] = "out" /\ f \in open
        /\ \A d \in Dir : Free(c, f, d)
        /\ DelEvent(c, f)
        /\ call' = [call EXCEPT ![c] = [op |-> "close", fd |-> f, timed |-> ms]]
        /\ UNCHANGED <<home, ready, open, added>>
        /\ UNCHANGED <<stage, batch, second, expired, timeout>>
    BY DEF Close, Cpu, loops
  <1>2. PICK x \in Call : x = [op |-> "close", fd |-> f, timed |-> ms]
    BY DEF Call
  <1>3. x.op = "close" /\ x.fd = f /\ x # None /\ call' = [call EXCEPT ![c] = x]
    BY <1>1, <1>2, SockIoAssumption
  <1>4. PICK k \in {"linger", "close"} :
           /\ place' = [place EXCEPT ![c] = k]
           /\ k = "linger" => /\ timer' = [timer EXCEPT ![c] = TRUE]
                              /\ running' = [running EXCEPT ![home[c]] = None]
           /\ k = "close" => UNCHANGED <<timer, running>>
    <2>1. CASE ms
      BY <2>1 DEF Close, Yield
    <2>2. CASE ~ ms
      BY <2>2 DEF Close
    <2>. QED  BY <2>1, <2>2
  <1>5. \A q \in Co : place[q] # "out" /\ call[q].fd = f => q # c /\ Uses(call[q]) = {}
    <2>. SUFFICES ASSUME NEW q \in Co, place[q] # "out", call[q].fd = f, NEW d \in Uses(call[q])
                  PROVE  FALSE
      BY <1>1
    <2>1. q # c /\ d \in Dir
      BY <1>1, SockCalls DEF SockInv
    <2>. QED  BY <1>1, <2>1 DEF Free
  <1>6. \A d \in Dir : ctx[f][d] = None
    <2>. SUFFICES ASSUME NEW d \in Dir PROVE ctx[f][d] = None
      OBVIOUS
    <2>. QED  BY <1>5, SockUnused
  <1>7. UNCHANGED <<ctx, interest, edges>>
    BY <1>1, <1>6 DEF DelEvent
  <1>8. home[c] \in Sched /\ c # None
    BY SockCalls DEF SockInv
  <1>9. /\ place' \in [Co -> {"out", "try", "add", "wait", "woken", "linger", "close"}]
        /\ call' \in [Co -> Call \cup {None}] /\ timer' \in [Co -> BOOLEAN]
        /\ running' \in [Sched -> Co \cup {None}]
        /\ place'[c] = k /\ call'[c] = x
        /\ running'[home[c]] = IF k = "linger" THEN None ELSE c
        /\ timer'[c] => k = "linger" \/ timer[c]
        /\ \A q \in Co : q # c => place'[q] = place[q] /\ call'[q] = call[q] /\ timer'[q] = timer[q]
        /\ \A s \in Sched : s # home[c] => running'[s] = running[s]
    <2>1. /\ place \in [Co -> {"out", "try", "add", "wait", "woken", "linger", "close"}]
          /\ call \in [Co -> Call \cup {None}] /\ timer \in [Co -> BOOLEAN]
          /\ running \in [Sched -> Co \cup {None}]
      BY DEF SockInv, SockTypeOK
    <2>2. CASE k = "linger"
      <3>1. /\ timer' = [timer EXCEPT ![c] = TRUE]
            /\ running' = [running EXCEPT ![home[c]] = None]
        BY <1>4, <2>2
      <3>2. /\ timer' \in [Co -> BOOLEAN] /\ \A q \in Co : q # c => timer'[q] = timer[q]
        BY <2>1, <3>1
      <3>3. /\ running' \in [Sched -> Co \cup {None}] /\ running'[home[c]] = None
            /\ \A s \in Sched : s # home[c] => running'[s] = running[s]
        BY <1>8, <2>1, <3>1
      <3>4. /\ place' \in [Co -> {"out", "try", "add", "wait", "woken", "linger", "close"}]
            /\ call' \in [Co -> Call \cup {None}]
            /\ place'[c] = k /\ call'[c] = x
            /\ \A q \in Co : q # c => place'[q] = place[q] /\ call'[q] = call[q]
        BY <1>3, <1>4, <2>1
      <3>. QED  BY <2>2, <3>2, <3>3, <3>4
    <2>3. CASE k = "close"
      BY <1>1, <1>3, <1>4, <1>8, <2>1, <2>3
    <2>. QED  BY <2>2, <2>3
  <1>10. SockTypeOK'
    BY <1>1, <1>7, <1>9 DEF SockInv, SockTypeOK
  <1>11. InPlace'
    <2>. SUFFICES ASSUME NEW q \in Co
                  PROVE  /\ place'[q] = "out" <=> call'[q] = None
                         /\ place'[q] \in {"linger", "close"} <=> call'[q] # None /\ call'[q].op = "close"
                         /\ place'[q] \in {"out", "linger", "close"} => ~ added'[q]
                         /\ place'[q] = "wait" => added'[q]
                         /\ place'[q] \in {"try", "add", "woken", "close"} => Cpu(q)'
                         /\ place'[q] \in {"wait", "linger"} => ~ Cpu(q)'
                         /\ timer'[q] => place'[q] \in {"wait", "linger"}
                         /\ place'[q] # "out" => call'[q].fd \in open'
      BY DEF InPlace
    <2>1. CASE q = c
      <3>1. Cpu(c)' <=> k = "close"
        BY <1>1, <1>8, <1>9 DEF Cpu
      <3>2. ~ added[c] /\ ~ timer[c]
        BY <1>1 DEF SockInv, InPlace
      <3>. QED  BY <1>1, <1>3, <1>9, <2>1, <3>1, <3>2
    <2>2. CASE q # c
      <3>1. home[q] \in Sched /\ q # None
        BY SockCalls DEF SockInv
      <3>2. Cpu(q)' <=> Cpu(q)
        BY <1>1, <1>9, <2>2, <3>1 DEF Cpu
      <3>. QED  BY <1>1, <1>9, <2>2, <3>2 DEF SockInv, InPlace
    <2>. QED  BY <2>1, <2>2
  <1>12. InStage'
    <2>1. \A q \in Co : place[q] \in {"wait", "linger"} => place'[q] = place[q]
      BY <1>1, <1>9
    <2>2. \A s \in Sched : second[s] \in Co \cup {None} /\ expired[s] \subseteq Co
      BY DEF SockInv, SockTypeOK
    <2>3. \A s \in Sched : running'[s] \in {running[s], None}
      BY <1>1, <1>9
    <2>. QED  BY <1>1, <2>1, <2>2, <2>3 DEF SockInv, InStage
  <1>13. Apart'
    <2>. SUFFICES ASSUME NEW q1 \in Co, NEW q2 \in Co, q1 # q2,
                         place'[q1] # "out", place'[q2] # "out", call'[q1].fd = call'[q2].fd
                  PROVE  Uses(call'[q1]) \cap Uses(call'[q2]) = {}
      BY DEF Apart
    <2>1. CASE q1 # c /\ q2 # c
      <3>1. /\ place'[q1] = place[q1] /\ call'[q1] = call[q1]
            /\ place'[q2] = place[q2] /\ call'[q2] = call[q2]
        BY <1>9, <2>1
      <3>2. Uses(call[q1]) \cap Uses(call[q2]) = {}
        BY <3>1 DEF SockInv, Apart
      <3>. QED  BY <3>1, <3>2
    <2>2. CASE q1 = c
      BY <1>3, <1>5, <1>9, <2>2
    <2>3. CASE q2 = c
      BY <1>3, <1>5, <1>9, <2>3
    <2>. QED  BY <2>1, <2>2, <2>3
  <1>14. \A q \in Co : added[q] => q # c /\ call'[q] = call[q]
    BY <1>1, <1>9 DEF SockInv, InPlace
  <1>15. AddedIsRegistered'
    BY <1>1, <1>7, <1>14 DEF SockInv, AddedIsRegistered
  <1>16. RegistrationLive'
    <2>1. ASSUME NEW g \in Fd, NEW d \in Dir, ctx[g][d] # None
          PROVE  added[ctx[g][d]] /\ call'[ctx[g][d]].fd = g /\ DirOf(call'[ctx[g][d]]) = d
      BY <1>14, <2>1, SockRegistrations
    <2>2. \A s \in Sched, g \in Fd : interest[s][g] = {d \in Dir : HasEv(s, g, d)}
      BY DEF SockInv, RegistrationLive
    <2>. QED  BY <1>1, <1>7, <2>1, <2>2 DEF RegistrationLive, HasEv
  <1>17. Broken'
    BY <1>1 DEF SockInv, Broken
  <1>18. NotMissed'
    <2>1. ASSUME NEW q \in Co, place'[q] \in {"add", "wait"}, added'[q], Possible(q)'
          PROVE  /\ place[q] \in {"add", "wait"} /\ added[q] /\ Possible(q)
                 /\ call'[q] = call[q]
      <3>1. q # c /\ call'[q] = call[q] /\ place'[q] = place[q]
        BY <1>1, <1>9, <1>14, <2>1
      <3>. QED  BY <1>1, <2>1, <3>1 DEF Possible
    <2>. QED  BY <1>1, <1>7, <2>1, SockStillMissesNone
  <1>. QED  BY <1>10, <1>11, <1>12, <1>13, <1>15, <1>16, <1>17, <1>18 DEF SockInv

(* The descriptor is gone, and whoever closed it is out of the call.       *)
LEMMA SockClosedKeeps ==
    ASSUME SockInv, NEW f \in Fd, Closed(f),
           place' \in [Co -> {"out", "try", "add", "wait", "woken", "linger", "close"}],
           call' \in [Co -> Call \cup {None}],
           \A q \in Co : \/ place'[q] = place[q] /\ call'[q] = call[q]
                         \/ place[q] = "close" /\ place'[q] = "out" /\ call'[q] = None,
           \A q \in Co : place'[q] # "out" => call'[q].fd # f,
           \A d \in Dir : ctx[f][d] = None,
           UNCHANGED <<home, ctx, loops, running, added, timer>>
    PROVE  SockInv'
  <1>1. UNCHANGED <<stage, batch, second, expired, timeout>>
    BY DEF loops
  <1>2. /\ interest \in [Sched -> [Fd -> SUBSET Dir]] /\ edges \in [Sched -> SUBSET Fd]
        /\ ready \in [Fd -> SUBSET Condition] /\ open \subseteq Fd
    BY DEF SockInv, SockTypeOK
  <1>3. /\ interest' \in [Sched -> [Fd -> SUBSET Dir]] /\ edges' \in [Sched -> SUBSET Fd]
        /\ ready' \in [Fd -> SUBSET Condition] /\ open' = open \ {f}
        /\ ready'[f] = {} /\ \A g \in Fd : g # f => ready'[g] = ready[g]
        /\ \A s \in Sched : /\ interest'[s][f] = {}
                            /\ \A g \in Fd : g # f => interest'[s][g] = interest[s][g]
                            /\ \A g \in Fd : g # f => (g \in edges'[s] <=> g \in edges[s])
    BY <1>2 DEF Closed
  <1>4. SockTypeOK'
    BY <1>1, <1>2, <1>3 DEF SockInv, SockTypeOK
  <1>5. InPlace'
    BY <1>3 DEF SockInv, InPlace, Cpu
  <1>6. InStage'
    <2>1. \A q \in Co : place[q] \in {"wait", "linger"} => place'[q] = place[q]
      OBVIOUS
    <2>2. \A s \in Sched : second[s] \in Co \cup {None} /\ expired[s] \subseteq Co
      BY DEF SockInv, SockTypeOK
    <2>. QED  BY <1>1, <2>1, <2>2 DEF SockInv, InStage
  <1>7. Apart'
    <2>1. \A q \in Co : place'[q] # "out" => place[q] # "out" /\ call'[q] = call[q]
      OBVIOUS
    <2>. QED  BY <2>1 DEF SockInv, Apart
  <1>8. \A q \in Co : added[q] => call'[q] = call[q] /\ place'[q] = place[q] /\ place[q] # "out"
    BY DEF SockInv, InPlace
  <1>9. AddedIsRegistered'
    BY <1>8 DEF SockInv, AddedIsRegistered
  <1>10. RegistrationLive'
    <2>1. ASSUME NEW g \in Fd, NEW d \in Dir, ctx[g][d] # None
          PROVE  added[ctx[g][d]] /\ call'[ctx[g][d]].fd = g /\ DirOf(call'[ctx[g][d]]) = d
      BY <1>8, <2>1, SockRegistrations
    <2>2. \A s \in Sched, g \in Fd : interest[s][g] = {d \in Dir : ctx[g][d] # None /\ home[ctx[g][d]] = s}
      BY DEF SockInv, RegistrationLive, HasEv
    <2>3. ASSUME NEW s \in Sched, NEW g \in Fd
          PROVE  interest'[s][g] = {d \in Dir : ctx[g][d] # None /\ home[ctx[g][d]] = s}
      BY <1>3, <2>2
    <2>. QED  BY <2>1, <2>3 DEF RegistrationLive, HasEv
  <1>11. Broken'
    BY <1>3 DEF SockInv, Broken
  <1>12. NotMissed'
    <2>1. ASSUME NEW q \in Co, place'[q] \in {"add", "wait"}, added'[q], Possible(q)'
          PROVE  /\ place[q] \in {"add", "wait"} /\ added[q] /\ Possible(q)
                 /\ call'[q] = call[q]
                 /\ call[q].fd \in edges[home[q]] => call[q].fd \in edges'[home[q]]
      <3>1. call'[q] = call[q] /\ place'[q] = place[q] /\ call[q] # None /\ call[q].fd # f
        BY <1>8, <2>1 DEF SockInv, InPlace
      <3>2. call[q].fd \in Fd /\ home[q] \in Sched
        BY <3>1, SockCalls DEF SockInv
      <3>3. /\ ready'[call[q].fd] = ready[call[q].fd]
            /\ call[q].fd \in edges[home[q]] => call[q].fd \in edges'[home[q]]
        BY <1>3, <3>1, <3>2
      <3>4. Possible(q)
        BY <2>1, <3>1, <3>3 DEF Possible
      <3>. QED  BY <1>8, <2>1, <3>1, <3>3, <3>4
    <2>. QED  BY <1>1, <2>1, SockStillMissesNone
  <1>. QED  BY <1>4, <1>5, <1>6, <1>7, <1>9, <1>10, <1>11, <1>12 DEF SockInv

(* When close() has the system call behind it the number has no user.      *)
LEMMA SockCloseEnds ==
    ASSUME SockInv, NEW c \in Co, CloseEnds(c)
    PROVE  SockInv'
  <1>1. /\ place[c] = "close" /\ Closed(call[c].fd)
        /\ place' = [place EXCEPT ![c] = "out"] /\ call' = [call EXCEPT ![c] = None]
        /\ UNCHANGED <<home, ctx, loops, running, added, timer>>
    BY DEF CloseEnds
  <1>2. call[c] # None /\ call[c].op = "close" /\ call[c].fd \in Fd
    BY <1>1, SockCalls DEF SockInv, InPlace
  <1>3. \A q \in Co : place[q] # "out" /\ call[q].fd = call[c].fd => q = c
    <2>. SUFFICES ASSUME NEW q \in Co, place[q] # "out", call[q].fd = call[c].fd, q # c
                  PROVE  FALSE
      OBVIOUS
    <2>1. Uses(call[q]) \cap Uses(call[c]) = {}
      BY <1>1 DEF SockInv, Apart
    <2>2. Uses(call[c]) = Dir
      BY <1>2 DEF Uses
    <2>. QED  BY <2>1, <2>2, SockCalls DEF SockInv
  <1>4. \A d \in Dir : ctx[call[c].fd][d] = None
    <2>. SUFFICES ASSUME NEW d \in Dir, ctx[call[c].fd][d] # None PROVE FALSE
      OBVIOUS
    <2>1. PICK q : q = ctx[call[c].fd][d]
      OBVIOUS
    <2>2. q \in Co /\ place[q] # "out" /\ call[q].fd = call[c].fd /\ call[q].op # "close"
      BY <1>2, <2>1, SockRegistrations
    <2>. QED  BY <1>2, <1>3, <2>2
  <1>5. /\ place' \in [Co -> {"out", "try", "add", "wait", "woken", "linger", "close"}]
        /\ call' \in [Co -> Call \cup {None}]
        /\ place'[c] = "out" /\ call'[c] = None
        /\ \A q \in Co : q # c => place'[q] = place[q] /\ call'[q] = call[q]
    BY <1>1 DEF SockInv, SockTypeOK
  <1>6. \A q \in Co : \/ place'[q] = place[q] /\ call'[q] = call[q]
                      \/ place[q] = "close" /\ place'[q] = "out" /\ call'[q] = None
    BY <1>1, <1>5
  <1>7. \A q \in Co : place'[q] # "out" => call'[q].fd # call[c].fd
    BY <1>3, <1>5
  <1>. QED  BY <1>1, <1>2, <1>4, <1>5, <1>6, <1>7, SockClosedKeeps

(* The same for close() by a thread.                                       *)
LEMMA SockCloseByThread ==
    ASSUME SockInv, Alone = TRUE, NEW f \in Fd, CloseByThread(f)
    PROVE  SockInv'
  <1>1. /\ \A d \in Dir : Free(None, f, d)
        /\ ctx' = [ctx EXCEPT ![f] = [d \in Dir |-> None]]
        /\ Closed(f)
        /\ UNCHANGED <<home, loops, running, place, call, added, timer>>
    BY DEF CloseByThread
  <1>2. \A q \in Co, d \in Dir : place[q] # "out" /\ call[q].fd = f => d \notin Uses(call[q])
    BY <1>1, SockIoAssumption DEF Free
  <1>3. \A d \in Dir : ctx[f][d] = None
    <2>. SUFFICES ASSUME NEW d \in Dir PROVE ctx[f][d] = None
      OBVIOUS
    <2>. QED  BY <1>2, SockUnused
  <1>4. UNCHANGED ctx
    <2>1. ctx \in [Fd -> [Dir -> Co \cup {None}]]
      BY DEF SockInv, SockTypeOK
    <2>2. ctx[f] = [d \in Dir |-> None]
      BY <1>3, <2>1
    <2>. QED  BY <1>1, <2>1, <2>2
  <1>5. \A q \in Co : place'[q] # "out" => call'[q].fd # f
    BY <1>1, <1>2, SockCalls DEF SockInv
  <1>6. /\ place' \in [Co -> {"out", "try", "add", "wait", "woken", "linger", "close"}]
        /\ call' \in [Co -> Call \cup {None}]
    BY <1>1 DEF SockInv, SockTypeOK
  <1>. QED  BY <1>1, <1>3, <1>4, <1>5, <1>6, SockClosedKeeps

(* More becomes true of a descriptor, of others nothing; the registrations *)
(* stay.  Whom it lets go on is told by an edge.                           *)
LEMMA SockMoreKeeps ==
    ASSUME SockInv, ready' \in [Fd -> SUBSET Condition], edges' \in [Sched -> SUBSET Fd], Broken',
           \A s \in Sched : edges[s] \subseteq edges'[s],
           \A q \in Co : /\ place[q] \in {"add", "wait"} /\ added[q] /\ Possible(q)'
                         => Possible(q) \/ call[q].fd \in edges'[home[q]],
           UNCHANGED <<home, ctx, interest, open, loops, running, place, call, added, timer>>
    PROVE  SockInv'
  <1>1. UNCHANGED <<stage, batch, second, expired, timeout>>
    BY DEF loops
  <1>2. SockTypeOK'
    BY <1>1 DEF SockInv, SockTypeOK
  <1>3. InPlace' /\ InStage'
    BY <1>1 DEF SockInv, InPlace, InStage, Cpu
  <1>4. Apart' /\ AddedIsRegistered'
    BY DEF SockInv, Apart, AddedIsRegistered
  <1>5. RegistrationLive'
    BY DEF SockInv, RegistrationLive, HasEv
  <1>6. NotMissed'
    <2>1. \A q \in Co : home[q] \in Sched
      BY DEF SockInv, SockTypeOK
    <2>. QED  BY <1>1, <2>1, SockStillMissesNone
  <1>. QED  BY <1>2, <1>3, <1>4, <1>5, <1>6 DEF SockInv

(* Nobody waits for a direction that is shut down.                         *)
LEMMA SockShut ==
    ASSUME SockInv, NEW f \in Fd, NEW ds \in SUBSET Dir, ShutDown(f, ds),
           \A q \in Co, d \in ds : place[q] # "out" /\ call[q].fd = f => d \notin Uses(call[q]),
           UNCHANGED <<home, ctx, interest, edges, open, loops, running, place, call, added, timer>>
    PROVE  SockInv'
  <1>1. /\ ready \in [Fd -> SUBSET Condition] /\ Broken /\ edges \in [Sched -> SUBSET Fd]
        /\ ds \subseteq Condition /\ "hup" \notin ds
    BY DEF SockInv, SockTypeOK, Condition, Dir
  <1>2. PICK new : new = IF "hup" \in ready[f] THEN ready[f] ELSE ready[f] \cup ds
    OBVIOUS
  <1>3. ready' = [ready EXCEPT ![f] = new]
    BY <1>2 DEF ShutDown
  <1>4. /\ new \subseteq Condition /\ "hup" \in new => new = ready[f]
        /\ new \subseteq ready[f] \cup ds
    BY <1>1, <1>2
  <1>5. ready' \in [Fd -> SUBSET Condition] /\ Broken'
    BY <1>1, <1>3, <1>4 DEF Broken
  <1>6. ASSUME NEW q \in Co, place[q] \in {"add", "wait"}, added[q], Possible(q)'
        PROVE  Possible(q)
    <2>1. call[q] # None /\ call[q].fd \in Fd /\ DirOf(call[q]) \in Uses(call[q])
      BY <1>6, SockCalls DEF SockInv, InPlace
    <2>2. call[q].fd = f => DirOf(call[q]) \notin ds
      BY <1>6, <2>1
    <2>3. ready'[call[q].fd] \cap {DirOf(call[q]), "hup"} # {}
      BY <1>6 DEF Possible
    <2>4. CASE call[q].fd = f
      BY <1>1, <1>3, <1>4, <2>2, <2>3, <2>4 DEF Possible
    <2>5. CASE call[q].fd # f
      BY <1>1, <1>3, <2>1, <2>3, <2>5 DEF Possible
    <2>. QED  BY <2>4, <2>5
  <1>7. edges' \in [Sched -> SUBSET Fd] /\ \A s \in Sched : edges[s] \subseteq edges'[s]
    BY <1>1
  <1>. QED  BY <1>5, <1>6, <1>7, SockMoreKeeps

(* shutdown() finds nobody registered for what it shuts down.              *)
LEMMA SockShutdown ==
    ASSUME SockInv, Alone = TRUE, NEW c \in Co, NEW f \in Fd, NEW ds \in SUBSET Dir, Shutdown(c, f, ds)
    PROVE  SockInv'
  <1>1. /\ place[c] = "out" /\ ShutDown(f, ds)
        /\ \A d \in ds : Free(c, f, d)
        /\ IF ds = Dir THEN DelEvent(c, f) ELSE \E d \in ds : DelEv(c, f, d)
        /\ UNCHANGED <<home, open, loops, running, place, call, added, timer>>
    BY DEF Shutdown
  <1>2. \A q \in Co, d \in ds : place[q] # "out" /\ call[q].fd = f => d \notin Uses(call[q])
    BY <1>1 DEF Free
  <1>3. \A d \in ds : ctx[f][d] = None
    BY <1>2, SockUnused
  <1>4. UNCHANGED <<ctx, interest, edges>>
    BY <1>1, <1>3 DEF DelEvent, DelEv
  <1>. QED  BY <1>1, <1>2, <1>4, SockShut

(* The same for shutdown() by a thread.                                    *)
LEMMA SockShutdownByThread ==
    ASSUME SockInv, Alone = TRUE, NEW f \in Fd, NEW ds \in SUBSET Dir, ShutdownByThread(f, ds)
    PROVE  SockInv'
  <1>1. /\ ShutDown(f, ds)
        /\ \A d \in ds : Free(None, f, d)
        /\ ctx' = [ctx EXCEPT ![f] = [d \in Dir |-> IF d \in ds THEN None ELSE @[d]]]
        /\ UNCHANGED <<home, interest, edges, open, loops, running, place, call, added, timer>>
    BY DEF ShutdownByThread
  <1>2. \A q \in Co, d \in ds : place[q] # "out" /\ call[q].fd = f => d \notin Uses(call[q])
    BY <1>1, SockIoAssumption DEF Free
  <1>3. \A d \in ds : ctx[f][d] = None
    BY <1>2, SockUnused
  <1>4. UNCHANGED ctx
    <2>1. ctx \in [Fd -> [Dir -> Co \cup {None}]]
      BY DEF SockInv, SockTypeOK
    <2>2. ctx[f] = [d \in Dir |-> IF d \in ds THEN None ELSE ctx[f][d]]
      BY <1>3, <2>1
    <2>. QED  BY <1>1, <2>1, <2>2
  <1>. QED  BY <1>1, <1>2, <1>4, SockShut

(* Whatever happens to a socket is reported to those who are registered.   *)
LEMMA SockBecomes ==
    ASSUME SockInv, NEW f \in Fd, NEW conditions \in SUBSET Condition, Becomes(f, conditions),
           "hup" \in conditions => ready[f] \cup conditions \in {Condition, {"hup"}},
           "hup" \notin ready[f]
    PROVE  SockInv'
  <1>1. /\ ready \in [Fd -> SUBSET Condition] /\ Broken /\ edges \in [Sched -> SUBSET Fd]
        /\ interest \in [Sched -> [Fd -> SUBSET Dir]]
    BY DEF SockInv, SockTypeOK
  <1>2. /\ ready' = [ready EXCEPT ![f] = ready[f] \cup conditions]
        /\ edges' = [s \in Sched |->
                  IF conditions \cap (interest[s][f] \cup {"hup"}) # {} /\ interest[s][f] # {}
                  THEN edges[s] \cup {f} ELSE edges[s]]
        /\ UNCHANGED <<home, ctx, interest, open, loops, running, place, call, added, timer>>
    BY DEF Becomes
  <1>3. ready' \in [Fd -> SUBSET Condition] /\ Broken'
    BY <1>1, <1>2 DEF Broken
  <1>4. edges' \in [Sched -> SUBSET Fd] /\ \A s \in Sched : edges[s] \subseteq edges'[s]
    BY <1>1, <1>2
  <1>5. ASSUME NEW q \in Co, place[q] \in {"add", "wait"}, added[q], Possible(q)', ~ Possible(q)
        PROVE  call[q].fd \in edges'[home[q]]
    <2>1. /\ call[q] # None /\ call[q].fd \in Fd /\ DirOf(call[q]) \in Dir
          /\ home[q] \in Sched /\ q # None
      BY <1>5, SockCalls DEF SockInv, InPlace
    <2>2. ctx[call[q].fd][DirOf(call[q])] = q
      BY <1>5 DEF SockInv, AddedIsRegistered
    <2>3. DirOf(call[q]) \in interest[home[q]][call[q].fd]
      BY <2>1, <2>2 DEF SockInv, RegistrationLive, HasEv
    <2>4. /\ ready'[call[q].fd] \cap {DirOf(call[q]), "hup"} # {}
          /\ ready[call[q].fd] \cap {DirOf(call[q]), "hup"} = {}
      BY <1>2, <1>5 DEF Possible
    <2>5. call[q].fd = f
      BY <1>1, <1>2, <2>1, <2>4
    <2>6. conditions \cap {DirOf(call[q]), "hup"} # {}
      BY <1>1, <1>2, <2>4, <2>5
    <2>. QED  BY <1>2, <2>1, <2>3, <2>5, <2>6
  <1>. QED  BY <1>2, <1>3, <1>4, <1>5, SockMoreKeeps

(* Every step of the kernel and of threads keeps the invariant.            *)
LEMMA SockKernel ==
    ASSUME SockInv, Alone = TRUE, Kernel
    PROVE  SockInv'
  <1>1. PICK f \in Fd :
           \/ Socket(f) \/ CloseByThread(f) \/ HangUp(f)
           \/ \E d \in Dir : Arrive(f, d)
           \/ \E ds \in SUBSET Dir \ {{}} : ShutdownByThread(f, ds)
    BY DEF Kernel
  <1>2. CASE Socket(f)
    <2>1. /\ open' = open \cup {f}
          /\ UNCHANGED <<home, ctx, interest, edges, ready, running, place, call, added, timer>>
          /\ UNCHANGED <<stage, batch, second, expired, timeout>>
      BY <1>2 DEF Socket, loops
    <2>2. SockTypeOK'
      BY <2>1 DEF SockInv, SockTypeOK
    <2>3. InPlace' /\ InStage'
      BY <2>1 DEF SockInv, InPlace, InStage, Cpu
    <2>4. Apart' /\ AddedIsRegistered' /\ Broken'
      BY <2>1 DEF SockInv, Apart, AddedIsRegistered, Broken
    <2>5. RegistrationLive'
      BY <2>1 DEF SockInv, RegistrationLive, HasEv
    <2>6. NotMissed'
      BY <2>1, SockStillMissesNone DEF Possible
    <2>. QED  BY <2>2, <2>3, <2>4, <2>5, <2>6 DEF SockInv
  <1>3. CASE CloseByThread(f)
    BY <1>3, SockCloseByThread
  <1>4. CASE HangUp(f)
    <2>1. PICK conditions \in SUBSET Condition :
             /\ Becomes(f, conditions) /\ "hup" \notin ready[f]
             /\ ready[f] \cup conditions \in {Condition, {"hup"}}
      <3>1. "hup" \notin ready[f]
        BY <1>4 DEF HangUp
      <3>2. CASE Becomes(f, Condition)
        <4>1. ready[f] \cup Condition = Condition
          BY DEF SockInv, SockTypeOK
        <4>. QED  BY <3>1, <3>2, <4>1
      <3>3. CASE ready[f] = {} /\ Becomes(f, {"hup"})
        BY <3>1, <3>3 DEF Condition
      <3>. QED  BY <1>4, <3>2, <3>3 DEF HangUp
    <2>. QED  BY <2>1, SockBecomes
  <1>5. CASE \E d \in Dir : Arrive(f, d)
    <2>1. PICK d \in Dir : Arrive(f, d)
      BY <1>5
    <2>2. /\ Becomes(f, {d}) /\ "hup" \notin ready[f]
          /\ {d} \in SUBSET Condition /\ "hup" \notin {d}
      BY <2>1 DEF Arrive, Condition, Dir
    <2>. QED  BY <2>2, SockBecomes
  <1>6. CASE \E ds \in SUBSET Dir \ {{}} : ShutdownByThread(f, ds)
    BY <1>6, SockShutdownByThread
  <1>. QED  BY <1>1, <1>2, <1>3, <1>4, <1>5, <1>6

(* Who is registered with an idle scheduler waits.                         *)
LEMMA SockRegisteredWaits ==
    ASSUME SockInv, NEW s \in Sched, running[s] = None, NEW f \in Fd, NEW d \in Dir,
           NEW q \in Registered(s, f, d)
    PROVE  /\ q \in Co /\ home[q] = s /\ place[q] = "wait" /\ ctx[f][d] = q
           /\ call[q].fd = f /\ DirOf(call[q]) = d
  <1>1. q \in Co /\ home[q] = s /\ ctx[f][d] = q /\ q # None
    BY SockIoAssumption DEF Registered
  <1>2. /\ place[q] \in {"try", "add", "wait", "woken"} /\ call[q].fd = f /\ DirOf(call[q]) = d
    BY <1>1, SockRegistrations
  <1>3. ~ Cpu(q)
    BY <1>1 DEF Cpu
  <1>. QED  BY <1>1, <1>2, <1>3 DEF SockInv, InPlace

(* The loop resumes a coroutine that waits, and has taken it from where it *)
(* found it.                                                               *)
LEMMA SockResumes ==
    ASSUME SockInv, NEW s \in Sched, NEW c \in Co, ResumeWaiting(s, c),
           running[s] = None, home[c] = s, place[c] \in {"wait", "linger"}, stage[s] # "poll",
           batch' \in [Sched -> SUBSET (Fd \X SUBSET Condition)],
           second' \in [Sched -> Co \cup {None}], expired' \in [Sched -> SUBSET Co],
           \A t \in Sched : t # s => /\ batch'[t] = batch[t] /\ second'[t] = second[t]
                                     /\ expired'[t] = expired[t],
           stage[s] # "events" => batch'[s] = {} /\ second'[s] = None,
           stage[s] # "timers" => expired'[s] = {},
           second'[s] # None => /\ home[second'[s]] = s /\ place[second'[s]] = "wait"
                                /\ second'[s] # c,
           \A q \in expired'[s] : home[q] = s /\ place[q] \in {"wait", "linger"} /\ q # c,
           \A q \in Co : q # c /\ home[q] = s /\ Coming(s, q) =>
              \/ second'[s] = q
              \/ \E e \in batch'[s] : q \in ReaderOf(s, e[1], e[2]) \cup WriterOf(s, e[1], e[2])
              \/ call[q].fd \in edges[s],
           UNCHANGED <<home, ctx, interest, edges, ready, open, stage, timeout, call, added>>
    PROVE  SockInv'
  <1>1. c # None /\ place[c] # "out" /\ call[c] # None
    BY SockIoAssumption DEF SockInv, InPlace
  <1>2. PICK k \in {"close", "woken"} : k = IF place[c] = "linger" THEN "close" ELSE "woken"
    OBVIOUS
  <1>3. place' = [place EXCEPT ![c] = k]
    BY <1>2 DEF ResumeWaiting
  <1>4. /\ place' \in [Co -> {"out", "try", "add", "wait", "woken", "linger", "close"}]
        /\ timer' \in [Co -> BOOLEAN] /\ running' \in [Sched -> Co \cup {None}]
        /\ place'[c] = k /\ timer'[c] = FALSE /\ running'[s] = c
        /\ \A q \in Co : q # c => place'[q] = place[q] /\ timer'[q] = timer[q]
        /\ \A t \in Sched : t # s => running'[t] = running[t]
    BY <1>3 DEF ResumeWaiting, SockInv, SockTypeOK
  <1>5. SockTypeOK'
    BY <1>4 DEF SockInv, SockTypeOK
  <1>6. InPlace'
    <2>. SUFFICES ASSUME NEW q \in Co
                  PROVE  /\ place'[q] = "out" <=> call'[q] = None
                         /\ place'[q] \in {"linger", "close"} <=> call'[q] # None /\ call'[q].op = "close"
                         /\ place'[q] \in {"out", "linger", "close"} => ~ added'[q]
                         /\ place'[q] = "wait" => added'[q]
                         /\ place'[q] \in {"try", "add", "woken", "close"} => Cpu(q)'
                         /\ place'[q] \in {"wait", "linger"} => ~ Cpu(q)'
                         /\ timer'[q] => place'[q] \in {"wait", "linger"}
                         /\ place'[q] # "out" => call'[q].fd \in open'
      BY DEF InPlace
    <2>1. CASE q = c
      <3>1. Cpu(c)'
        BY <1>4 DEF Cpu
      <3>. QED  BY <1>1, <1>2, <1>4, <2>1, <3>1 DEF SockInv, InPlace
    <2>2. CASE q # c
      <3>1. home[q] \in Sched /\ q # None
        BY SockCalls DEF SockInv
      <3>2. Cpu(q)' <=> Cpu(q)
        BY <1>4, <2>2, <3>1 DEF Cpu
      <3>. QED  BY <1>4, <2>2, <3>2 DEF SockInv, InPlace
    <2>. QED  BY <2>1, <2>2
  <1>7. InStage'
    <2>. SUFFICES ASSUME NEW t \in Sched
                  PROVE  /\ running'[t] # None => home[running'[t]] = t
                         /\ stage[t] = "poll" => running'[t] = None
                         /\ stage[t] # "events" => batch'[t] = {} /\ second'[t] = None
                         /\ stage[t] # "timers" => expired'[t] = {}
                         /\ second'[t] # None => home[second'[t]] = t /\ place'[second'[t]] = "wait"
                         /\ \A q \in expired'[t] : home[q] = t /\ place'[q] \in {"wait", "linger"}
      BY DEF InStage
    <2>1. second'[t] \in Co \cup {None} /\ expired'[t] \subseteq Co
      OBVIOUS
    <2>2. CASE t = s
      BY <1>4, <2>1, <2>2
    <2>3. CASE t # s
      <3>1. /\ running[t] # None => home[running[t]] = t
            /\ stage[t] = "poll" => running[t] = None
            /\ stage[t] # "events" => batch[t] = {} /\ second[t] = None
            /\ stage[t] # "timers" => expired[t] = {}
            /\ second[t] # None => home[second[t]] = t /\ place[second[t]] = "wait"
            /\ \A q \in expired[t] : home[q] = t /\ place[q] \in {"wait", "linger"}
        BY DEF SockInv, InStage
      <3>2. \A q \in Co : home[q] = t => place'[q] = place[q]
        BY <1>4, <2>3
      <3>. QED  BY <1>4, <2>1, <2>3, <3>1, <3>2
    <2>. QED  BY <2>2, <2>3
  <1>8. Apart'
    <2>1. \A q \in Co : place'[q] # "out" => place[q] # "out"
      BY <1>1, <1>4
    <2>. QED  BY <2>1 DEF SockInv, Apart
  <1>9. AddedIsRegistered' /\ Broken'
    BY DEF SockInv, AddedIsRegistered, Broken
  <1>10. RegistrationLive'
    BY DEF SockInv, RegistrationLive, HasEv
  <1>11. NotMissed'
    <2>. SUFFICES ASSUME NEW q \in Co, place'[q] \in {"add", "wait"}, added[q], Possible(q)'
                  PROVE  Coming(home[q], q)'
      BY DEF NotMissed
    <2>1. q # c /\ place[q] \in {"add", "wait"} /\ Possible(q)
      BY <1>2, <1>4 DEF Possible
    <2>2. Coming(home[q], q)
      BY <2>1 DEF SockInv, NotMissed
    <2>3. CASE home[q] = s
      BY <2>1, <2>2, <2>3 DEF Coming, ReaderOf, WriterOf, Registered
    <2>4. CASE home[q] # s
      <3>1. home[q] \in Sched
        BY SockCalls DEF SockInv
      <3>2. /\ second'[home[q]] = second[home[q]] /\ batch'[home[q]] = batch[home[q]]
        BY <2>4, <3>1
      <3>. QED  BY <2>2, <3>2 DEF Coming, ReaderOf, WriterOf, Registered
    <2>. QED  BY <2>3, <2>4
  <1>. QED  BY <1>5, <1>6, <1>7, <1>8, <1>9, <1>10, <1>11 DEF SockInv

(* An event resumes the coroutine that reads, then the one that writes.    *)
LEMMA SockEvent ==
    ASSUME SockInv, NEW s \in Sched, NEW f \in Fd, NEW mask \in SUBSET Condition, Event(s, f, mask)
    PROVE  SockInv'
  <1>1. /\ stage[s] = "events" /\ running[s] = None /\ second[s] = None
        /\ <<f, mask>> \in batch[s]
        /\ batch' = [batch EXCEPT ![s] = @ \ {<<f, mask>>}]
        /\ UNCHANGED <<home, ctx, interest, edges, ready, open, stage, expired, timeout, call, added>>
    BY DEF Event, Idle, kernel
  <1>2. PICK rco, wco : rco = ReaderOf(s, f, mask) /\ wco = WriterOf(s, f, mask)
    OBVIOUS
  <1>3. /\ rco = {} \/ rco = Registered(s, f, "r")
        /\ wco = {} \/ wco = Registered(s, f, "w")
    BY <1>2 DEF ReaderOf, WriterOf
  <1>4. "r" \in Dir /\ "w" \in Dir
    BY DEF Dir
  <1>5. \A q \in rco : /\ q \in Co /\ home[q] = s /\ place[q] = "wait" /\ ctx[f]["r"] = q
                       /\ DirOf(call[q]) = "r"
    BY <1>1, <1>3, <1>4, SockRegisteredWaits
  <1>6. \A q \in wco : /\ q \in Co /\ home[q] = s /\ place[q] = "wait" /\ ctx[f]["w"] = q
                       /\ DirOf(call[q]) = "w"
    BY <1>1, <1>3, <1>4, SockRegisteredWaits
  <1>7. /\ batch' \in [Sched -> SUBSET (Fd \X SUBSET Condition)]
        /\ batch'[s] = batch[s] \ {<<f, mask>>}
        /\ \A t \in Sched : t # s => batch'[t] = batch[t]
    BY <1>1 DEF SockInv, SockTypeOK
  <1>8. \A q \in Co : Coming(s, q) =>
           \/ q \in rco \cup wco
           \/ \E e \in batch'[s] : q \in ReaderOf(s, e[1], e[2]) \cup WriterOf(s, e[1], e[2])
           \/ call[q].fd \in edges[s]
    <2>. SUFFICES ASSUME NEW q \in Co, NEW e \in batch[s],
                         q \in ReaderOf(s, e[1], e[2]) \cup WriterOf(s, e[1], e[2])
                  PROVE  \/ q \in rco \cup wco
                         \/ \E e2 \in batch'[s] :
                               q \in ReaderOf(s, e2[1], e2[2]) \cup WriterOf(s, e2[1], e2[2])
      BY <1>1, SockIoAssumption DEF Coming
    <2>1. CASE e = <<f, mask>>
      BY <1>2, <2>1
    <2>2. CASE e # <<f, mask>>
      BY <1>7, <2>2
    <2>. QED  BY <2>1, <2>2
  <1>9. /\ expired[s] = {} /\ second \in [Sched -> Co \cup {None}]
        /\ expired \in [Sched -> SUBSET Co]
    BY <1>1 DEF SockInv, SockTypeOK, InStage
  <1>10. ASSUME second' = second, running' = running, place' = place, timer' = timer,
                rco \cup wco = {}
         PROVE  SockInv'
    <2>1. SockTypeOK'
      BY <1>1, <1>7, <1>10 DEF SockInv, SockTypeOK
    <2>2. InPlace' /\ InStage'
      BY <1>1, <1>7, <1>10 DEF SockInv, InPlace, InStage, Cpu
    <2>3. Apart' /\ AddedIsRegistered' /\ Broken'
      BY <1>1, <1>10 DEF SockInv, Apart, AddedIsRegistered, Broken
    <2>4. RegistrationLive'
      BY <1>1 DEF SockInv, RegistrationLive, HasEv
    <2>5. NotMissed'
      <3>. SUFFICES ASSUME NEW q \in Co, place[q] \in {"add", "wait"}, added[q], Possible(q)
                    PROVE  Coming(home[q], q)'
        BY <1>1, <1>10 DEF NotMissed, Possible
      <3>1. Coming(home[q], q) /\ home[q] \in Sched
        BY SockCalls DEF SockInv, NotMissed
      <3>2. CASE home[q] = s
        BY <1>1, <1>8, <1>10, <3>1, <3>2 DEF Coming, ReaderOf, WriterOf, Registered
      <3>3. CASE home[q] # s
        BY <1>1, <1>7, <1>10, <3>1, <3>3 DEF Coming, ReaderOf, WriterOf, Registered
      <3>. QED  BY <3>2, <3>3
    <2>. QED  BY <2>1, <2>2, <2>3, <2>4, <2>5 DEF SockInv
  <1>11. ASSUME NEW c \in rco \cup wco, rco # {} => c \in rco, ResumeWaiting(s, c),
                second' = [second EXCEPT ![s] =
                             IF rco # {} /\ wco # {} THEN CHOOSE w \in wco : TRUE ELSE None]
         PROVE  SockInv'
    <2>1. PICK w \in wco \cup {None} :
             /\ w = IF rco # {} /\ wco # {} THEN CHOOSE v \in wco : TRUE ELSE None
             /\ w # None => rco # {}
             /\ rco # {} /\ wco # {} => w \in wco
      <3>1. CASE rco # {} /\ wco # {}
        <4>1. (CHOOSE v \in wco : TRUE) \in wco
          BY <3>1
        <4>. QED  BY <3>1, <4>1
      <3>2. CASE ~ (rco # {} /\ wco # {})
        BY <3>2
      <3>. QED  BY <3>1, <3>2
    <2>2. second' = [second EXCEPT ![s] = w]
      BY <1>11, <2>1
    <2>3. /\ c \in Co /\ home[c] = s /\ place[c] = "wait" /\ w \in Co \cup {None}
          /\ w # None => w \in wco /\ rco # {}
      BY <1>5, <1>6, <1>11, <2>1
    <2>4. /\ second' \in [Sched -> Co \cup {None}] /\ second'[s] = w
          /\ \A t \in Sched : t # s => second'[t] = second[t]
      BY <1>9, <2>2, <2>3
    <2>5. w # None => home[w] = s /\ place[w] = "wait" /\ w # c
      <3>. SUFFICES ASSUME w # None PROVE home[w] = s /\ place[w] = "wait" /\ w # c
        OBVIOUS
      <3>1. w \in wco /\ c \in rco
        BY <1>11, <2>3
      <3>. QED  BY <1>5, <1>6, <3>1
    <2>6. ASSUME NEW q \in Co, q # c, home[q] = s, Coming(s, q)
          PROVE  \/ second'[s] = q
                 \/ \E e \in batch'[s] : q \in ReaderOf(s, e[1], e[2]) \cup WriterOf(s, e[1], e[2])
                 \/ call[q].fd \in edges[s]
      <3>1. CASE q \in rco \cup wco
        <4>1. q \notin rco
          <5>. SUFFICES ASSUME q \in rco PROVE FALSE
            OBVIOUS
          <5>. QED  BY <1>5, <1>11, <2>6
        <4>2. q \in wco
          BY <3>1, <4>1
        <4>3. rco # {}
          <5>. SUFFICES ASSUME rco = {} PROVE FALSE
            OBVIOUS
          <5>. QED  BY <1>6, <1>11, <2>6, <4>2
        <4>4. w = q
          BY <1>6, <2>1, <4>2, <4>3
        <4>. QED  BY <2>4, <4>4
      <3>. QED  BY <1>8, <2>6, <3>1
    <2>7. /\ expired' \in [Sched -> SUBSET Co] /\ expired'[s] = {}
          /\ \A t \in Sched : expired'[t] = expired[t]
      BY <1>1, <1>9
    <2>8. /\ running[s] = None /\ place[c] \in {"wait", "linger"} /\ stage[s] = "events"
          /\ UNCHANGED <<home, ctx, interest, edges, ready, open, stage, timeout, call, added>>
      BY <1>1, <2>3
    <2>9. \A t \in Sched : t # s => /\ batch'[t] = batch[t] /\ second'[t] = second[t]
                                    /\ expired'[t] = expired[t]
      BY <1>7, <2>4, <2>7
    <2>10. second'[s] # None => /\ home[second'[s]] = s /\ place[second'[s]] = "wait"
                                /\ second'[s] # c
      BY <2>4, <2>5
    <2>. QED  BY <1>7, <1>11, <2>3, <2>4, <2>6, <2>7, <2>8, <2>9, <2>10, SockResumes
  <1>. QED  BY <1>2, <1>10, <1>11 DEF Event

(* The coroutine that was looked up before the first one ran still waits:  *)
(* nobody else can have resumed it.                                        *)
LEMMA SockEventSecond ==
    ASSUME SockInv, NEW s \in Sched, EventSecond(s)
    PROVE  SockInv'
  <1>1. /\ stage[s] = "events" /\ running[s] = None /\ second[s] # None
        /\ ResumeWaiting(s, second[s])
        /\ second' = [second EXCEPT ![s] = None]
        /\ UNCHANGED <<home, ctx, interest, edges, ready, open, stage, batch, expired, timeout, call, added>>
    BY DEF EventSecond, Idle, kernel
  <1>2. PICK c \in Co : c = second[s]
    BY <1>1 DEF SockInv, SockTypeOK
  <1>3. home[c] = s /\ place[c] = "wait" /\ expired[s] = {}
    BY <1>1, <1>2 DEF SockInv, InStage
  <1>4. /\ second' \in [Sched -> Co \cup {None}] /\ second'[s] = None
        /\ \A t \in Sched : t # s => second'[t] = second[t]
        /\ batch' \in [Sched -> SUBSET (Fd \X SUBSET Condition)]
        /\ expired' \in [Sched -> SUBSET Co]
    BY <1>1 DEF SockInv, SockTypeOK
  <1>5. \A q \in Co : q # c /\ home[q] = s /\ Coming(s, q) =>
           \/ second'[s] = q
           \/ \E e \in batch'[s] : q \in ReaderOf(s, e[1], e[2]) \cup WriterOf(s, e[1], e[2])
           \/ call[q].fd \in edges[s]
    BY <1>1, <1>2 DEF Coming
  <1>. QED  BY <1>1, <1>2, <1>3, <1>4, <1>5, SockResumes

(* A coroutine whose timer was taken still waits: the loop has dealt with  *)
(* all events before.                                                      *)
LEMMA SockResumeExpired ==
    ASSUME SockInv, NEW s \in Sched, NEW c \in Co, ResumeExpired(s, c)
    PROVE  SockInv'
  <1>1. /\ stage[s] = "timers" /\ running[s] = None /\ c \in expired[s]
        /\ ResumeWaiting(s, c)
        /\ expired' = [expired EXCEPT ![s] = @ \ {c}]
        /\ UNCHANGED <<home, ctx, interest, edges, ready, open, stage, batch, second, timeout, call, added>>
    BY DEF ResumeExpired, Idle, kernel
  <1>2. /\ home[c] = s /\ place[c] \in {"wait", "linger"} /\ batch[s] = {} /\ second[s] = None
        /\ \A q \in expired[s] : home[q] = s /\ place[q] \in {"wait", "linger"}
    BY <1>1 DEF SockInv, InStage
  <1>3. /\ second' \in [Sched -> Co \cup {None}]
        /\ batch' \in [Sched -> SUBSET (Fd \X SUBSET Condition)]
        /\ expired' \in [Sched -> SUBSET Co] /\ expired'[s] = expired[s] \ {c}
        /\ \A t \in Sched : t # s => expired'[t] = expired[t]
    BY <1>1 DEF SockInv, SockTypeOK
  <1>4. \A q \in Co : q # c /\ home[q] = s /\ Coming(s, q) =>
           \/ second'[s] = q
           \/ \E e \in batch'[s] : q \in ReaderOf(s, e[1], e[2]) \cup WriterOf(s, e[1], e[2])
           \/ call[q].fd \in edges[s]
    BY <1>1 DEF Coming
  <1>. QED  BY <1>1, <1>2, <1>3, <1>4, SockResumes

(* epoll_wait returns what there is to report: whoever waits for it is     *)
(* found by the mask of the event.                                         *)
LEMMA SockPoll ==
    ASSUME SockInv, NEW s \in Sched, Poll(s)
    PROVE  SockInv'
  <1>1. /\ stage[s] = "poll"
        /\ batch' = [batch EXCEPT ![s] =
                       {<<f, Mask(s, f, interest[s][f])>> :
                          f \in {e \in edges[s] : Mask(s, e, interest[s][e]) # {}}}]
        /\ edges' = [edges EXCEPT ![s] = {}]
        /\ stage' = [stage EXCEPT ![s] = "events"]
        /\ UNCHANGED <<home, ctx, interest, ready, open, second, expired, timeout, running,
                       place, call, added, timer>>
    BY DEF Poll
  <1>2. /\ batch \in [Sched -> SUBSET (Fd \X SUBSET Condition)]
        /\ edges \in [Sched -> SUBSET Fd] /\ stage \in [Sched -> {"poll", "events", "tasks", "timers"}]
        /\ ready \in [Fd -> SUBSET Condition] /\ interest \in [Sched -> [Fd -> SUBSET Dir]]
    BY DEF SockInv, SockTypeOK
  <1>3. PICK b : b = {<<f, Mask(s, f, interest[s][f])>> :
                        f \in {e \in edges[s] : Mask(s, e, interest[s][e]) # {}}}
    OBVIOUS
  <1>4. b \subseteq Fd \X SUBSET Condition
    <2>1. \A f \in Fd : Mask(s, f, interest[s][f]) \in SUBSET Condition
      BY <1>2 DEF Mask
    <2>2. edges[s] \subseteq Fd
      BY <1>2
    <2>. QED  BY <1>3, <2>1, <2>2
  <1>5. /\ batch' \in [Sched -> SUBSET (Fd \X SUBSET Condition)] /\ batch'[s] = b
        /\ \A t \in Sched : t # s => batch'[t] = batch[t]
    BY <1>1, <1>2, <1>3, <1>4
  <1>6. /\ edges' \in [Sched -> SUBSET Fd] /\ edges'[s] = {}
        /\ stage' \in [Sched -> {"poll", "events", "tasks", "timers"}] /\ stage'[s] = "events"
        /\ \A t \in Sched : t # s => edges'[t] = edges[t] /\ stage'[t] = stage[t]
    BY <1>1, <1>2
  <1>7. SockTypeOK'
    BY <1>1, <1>5, <1>6 DEF SockInv, SockTypeOK
  <1>8. InPlace'
    BY <1>1 DEF SockInv, InPlace, Cpu
  <1>9. InStage'
    BY <1>1, <1>5, <1>6 DEF SockInv, InStage
  <1>10. Apart' /\ AddedIsRegistered' /\ Broken'
    BY <1>1 DEF SockInv, Apart, AddedIsRegistered, Broken
  <1>11. RegistrationLive'
    BY <1>1 DEF SockInv, RegistrationLive, HasEv
  <1>12. NotMissed'
    <2>. SUFFICES ASSUME NEW q \in Co, place[q] \in {"add", "wait"}, added[q], Possible(q)
                  PROVE  Coming(home[q], q)'
      BY <1>1 DEF NotMissed, Possible
    <2> DEFINE f == call[q].fd
               d == DirOf(call[q])
    <2>1. Coming(home[q], q) /\ home[q] \in Sched /\ q # None
      BY SockCalls DEF SockInv, NotMissed
    <2>2. f \in Fd /\ d \in Dir
      BY SockCalls DEF SockInv, InPlace
    <2>3. ctx[f][d] = q
      BY DEF SockInv, AddedIsRegistered
    <2>4. ready[f] \cap {d, "hup"} # {}
      BY DEF Possible
    <2>. HIDE DEF f, d
    <2>5. CASE home[q] = s
      <3>1. batch[s] = {} /\ second[s] = None
        BY <1>1 DEF SockInv, InStage
      <3>2. f \in edges[s]
        BY <2>1, <2>5, <3>1 DEF Coming, f
      <3>3. d \in interest[s][f]
        BY <2>1, <2>2, <2>3, <2>5 DEF SockInv, RegistrationLive, HasEv
      <3>4. PICK m : m = Mask(s, f, interest[s][f])
        OBVIOUS
      <3>5. m = ready[f] \cap (interest[s][f] \cup {"hup"})
        BY <3>3, <3>4 DEF Mask
      <3>6. m # {} /\ <<f, m>> \in b
        BY <1>3, <2>4, <3>2, <3>3, <3>4, <3>5
      <3>7. q \in Registered(s, f, d)
        BY <2>3, <2>5 DEF Registered
      <3>8. d \in m \/ Other(d) \notin m
        <4>1. d \in ready[f] => d \in m
          BY <3>3, <3>5
        <4>2. d \notin ready[f] => "hup" \in ready[f] /\ ready[f] # Condition
          BY <2>2, <2>4 DEF Condition
        <4>3. d \notin ready[f] => ready[f] = {"hup"}
          BY <2>2, <4>2 DEF SockInv, Broken
        <4>4. Other(d) # "hup"
          BY <2>2 DEF Other, Dir
        <4>. QED  BY <3>5, <4>1, <4>3, <4>4
      <3>9. q \in ReaderOf(s, f, m) \cup WriterOf(s, f, m)
        <4>1. CASE d = "r"
          BY <3>7, <3>8, <4>1 DEF Other, ReaderOf
        <4>2. CASE d = "w"
          BY <3>7, <3>8, <4>2 DEF Other, WriterOf
        <4>. QED  BY <2>2, <4>1, <4>2 DEF Dir
      <3>10. \E e \in batch'[s] : q \in ReaderOf(s, e[1], e[2]) \cup WriterOf(s, e[1], e[2])
        <4>1. <<f, m>>[1] = f /\ <<f, m>>[2] = m
          OBVIOUS
        <4>. QED  BY <1>5, <3>6, <3>9, <4>1
      <3>. QED  BY <1>1, <2>5, <3>10 DEF Coming, ReaderOf, WriterOf, Registered
    <2>6. CASE home[q] # s
      BY <1>1, <1>5, <1>6, <2>1, <2>6 DEF Coming, ReaderOf, WriterOf, Registered
    <2>. QED  BY <2>5, <2>6
  <1>. QED  BY <1>7, <1>8, <1>9, <1>10, <1>11, <1>12 DEF SockInv

(* The loop goes on to its next stage.                                     *)
LEMMA SockStageKeeps ==
    ASSUME SockInv, NEW s \in Sched, NEW k \in {"poll", "tasks", "timers"}, running[s] = None,
           stage' = [stage EXCEPT ![s] = k], batch[s] = {}, second[s] = None,
           expired' \in [Sched -> SUBSET Co], timeout' \in [Sched -> BOOLEAN],
           timer' \in [Co -> BOOLEAN],
           \A t \in Sched : t # s => expired'[t] = expired[t],
           k # "timers" => expired'[s] = {},
           \A q \in expired'[s] : home[q] = s /\ place[q] \in {"wait", "linger"},
           \A q \in Co : timer'[q] => timer[q],
           UNCHANGED <<home, ctx, interest, edges, ready, open, batch, second, running, place,
                       call, added>>
    PROVE  SockInv'
  <1>1. /\ stage' \in [Sched -> {"poll", "events", "tasks", "timers"}] /\ stage'[s] = k
        /\ \A t \in Sched : t # s => stage'[t] = stage[t]
    BY DEF SockInv, SockTypeOK
  <1>2. SockTypeOK'
    BY <1>1 DEF SockInv, SockTypeOK
  <1>3. InPlace'
    BY DEF SockInv, InPlace, Cpu
  <1>4. InStage'
    BY <1>1 DEF SockInv, InStage
  <1>5. Apart' /\ AddedIsRegistered' /\ Broken'
    BY DEF SockInv, Apart, AddedIsRegistered, Broken
  <1>6. RegistrationLive'
    BY DEF SockInv, RegistrationLive, HasEv
  <1>7. NotMissed'
    BY SockStillMissesNone DEF Possible
  <1>. QED  BY <1>2, <1>3, <1>4, <1>5, <1>6, <1>7 DEF SockInv

(* Events, tasks and timers follow each other.                             *)
LEMMA SockStages ==
    ASSUME SockInv, NEW s \in Sched,
           IoEventsDone(s) \/ IoTimersDone(s) \/ \E due \in SUBSET Co : CheckTimeout(s, due)
    PROVE  SockInv'
  <1>1. CASE IoEventsDone(s)
    <2>1. /\ stage[s] = "events" /\ running[s] = None /\ second[s] = None /\ batch[s] = {}
          /\ stage' = [stage EXCEPT ![s] = "tasks"]
          /\ UNCHANGED <<home, ctx, interest, edges, ready, open, batch, second, expired, timeout,
                         running, place, call, added, timer>>
      BY <1>1 DEF IoEventsDone, Idle, kernel
    <2>2. /\ expired[s] = {}
          /\ expired' \in [Sched -> SUBSET Co] /\ timeout' \in [Sched -> BOOLEAN]
          /\ timer' \in [Co -> BOOLEAN]
      BY <2>1 DEF SockInv, SockTypeOK, InStage
    <2>. QED  BY <2>1, <2>2, SockStageKeeps
  <1>2. CASE IoTimersDone(s)
    <2>1. /\ stage[s] = "timers" /\ running[s] = None /\ expired[s] = {}
          /\ timeout' = [timeout EXCEPT ![s] = FALSE]
          /\ stage' = [stage EXCEPT ![s] = "poll"]
          /\ UNCHANGED <<home, ctx, interest, edges, ready, open, batch, second, expired,
                         running, place, call, added, timer>>
      BY <1>2 DEF IoTimersDone, Idle, kernel
    <2>2. /\ batch[s] = {} /\ second[s] = None
          /\ expired' \in [Sched -> SUBSET Co] /\ timeout' \in [Sched -> BOOLEAN]
          /\ timer' \in [Co -> BOOLEAN]
      BY <2>1 DEF SockInv, SockTypeOK, InStage
    <2>. QED  BY <2>1, <2>2, SockStageKeeps
  <1>3. CASE \E due \in SUBSET Co : CheckTimeout(s, due)
    <2>1. PICK due \in SUBSET Co : CheckTimeout(s, due)
      BY <1>3
    <2>2. /\ stage[s] = "tasks" /\ running[s] = None
          /\ due \subseteq {c \in Co : home[c] = s /\ timer[c]}
          /\ expired' = [expired EXCEPT ![s] = due]
          /\ timer' = [c \in Co |-> timer[c] /\ c \notin due]
          /\ timeout' = [timeout EXCEPT ![s] = due # {}]
          /\ stage' = [stage EXCEPT ![s] = "timers"]
          /\ UNCHANGED <<home, ctx, interest, edges, ready, open, batch, second, running, place,
                         call, added>>
      BY <2>1 DEF CheckTimeout, Idle, kernel
    <2>3. /\ batch[s] = {} /\ second[s] = None
          /\ expired' \in [Sched -> SUBSET Co] /\ expired'[s] = due
          /\ \A t \in Sched : t # s => expired'[t] = expired[t]
      BY <2>2 DEF SockInv, SockTypeOK, InStage
    <2>4. timer' \in [Co -> BOOLEAN] /\ \A q \in Co : timer'[q] => timer[q]
      BY <2>2 DEF SockInv, SockTypeOK
    <2>5. timeout' \in [Sched -> BOOLEAN]
      <3>1. PICK x \in BOOLEAN : x = (due # {})
        OBVIOUS
      <3>2. timeout' = [timeout EXCEPT ![s] = x] /\ timeout \in [Sched -> BOOLEAN]
        BY <2>2, <3>1 DEF SockInv, SockTypeOK
      <3>. QED  BY <3>2
    <2>6. \A q \in due : home[q] = s /\ place[q] \in {"wait", "linger"}
      BY <2>2 DEF SockInv, InPlace
    <2>. QED  BY <2>2, <2>3, <2>4, <2>5, <2>6, SockStageKeeps
  <1>. QED  BY <1>1, <1>2, <1>3

(* Every step keeps the invariant.                                         *)
LEMMA SockStep ==
    ASSUME SockInv, Alone = TRUE, [SockNext]_sockVars
    PROVE  SockInv'
  <1>1. CASE Kernel
    BY <1>1, SockKernel
  <1>2. ASSUME NEW s \in Sched, IoLoopStep(s)
        PROVE  SockInv'
    BY <1>2, SockPoll, SockEvent, SockEventSecond, SockResumeExpired, SockStages DEF IoLoopStep
  <1>3. ASSUME NEW c \in Co, InCall(c)
        PROVE  SockInv'
    BY <1>3, SockTrySucceeds, SockTryFails, SockTryBlocks, SockWaits, SockWaitFails, SockWoken,
       SockCloseEnds DEF InCall
  <1>4. ASSUME NEW c \in Co, TryPartly(c) \/ Leave(c)
        PROVE  SockInv'
    BY <1>4, SockTryPartly, SockLeaves
  <1>5. ASSUME NEW c \in Co, User(c)
        PROVE  SockInv'
    BY <1>5, SockBegins, SockCloses, SockShutdown, SockLeaves DEF User
  <1>6. CASE UNCHANGED sockVars
    <2>. USE <1>6 DEF sockVars, kernel, loops
    <2>1. SockTypeOK'
      BY DEF SockInv, SockTypeOK
    <2>2. InPlace' /\ InStage'
      BY DEF SockInv, InPlace, InStage, Cpu
    <2>3. Apart' /\ AddedIsRegistered' /\ Broken'
      BY DEF SockInv, Apart, AddedIsRegistered, Broken
    <2>4. RegistrationLive'
      BY DEF SockInv, RegistrationLive, HasEv
    <2>5. NotMissed'
      BY SockStillMissesNone DEF Possible
    <2>. QED  BY <2>1, <2>2, <2>3, <2>4, <2>5 DEF SockInv
  <1>. QED  BY <1>1, <1>2, <1>3, <1>4, <1>5, <1>6 DEF SockNext

(* The invariant of the sockets holds throughout.                          *)
LEMMA SockInvariant ==
    ASSUME Alone = TRUE
    PROVE  SockSpec => []SockInv
  <1>1. SockInit => SockInv
    BY SockStarts
  <1>2. SockInv /\ [SockNext]_sockVars => SockInv'
    BY SockStep
  <1>. QED  BY <1>1, <1>2, PTL DEF SockSpec

(* EventsReachWaiters of the run `loop': as long as nobody closes or shuts *)
(* down what others wait for, an epoll's event resumes who waits for it.   *)
THEOREM EventsReach ==
    ASSUME Alone = TRUE
    PROVE  SockSpec => []EventsReachWaiters
  <1>1. SockInv => EventsReachWaiters
    <2>. SUFFICES ASSUME SockInv PROVE WaiterRegistered /\ EventNotLost /\ RegistrationLive
      BY DEF EventsReachWaiters
    <2>1. WaiterRegistered
      <3>. SUFFICES ASSUME NEW c \in Co, place[c] = "wait"
                    PROVE  /\ ctx[call[c].fd][DirOf(call[c])] = c
                           /\ DirOf(call[c]) \in interest[home[c]][call[c].fd]
        BY DEF WaiterRegistered
      <3>1. /\ added[c] /\ call[c].fd \in Fd /\ DirOf(call[c]) \in Dir /\ home[c] \in Sched /\ c # None
        BY SockCalls DEF SockInv, InPlace
      <3>2. ctx[call[c].fd][DirOf(call[c])] = c
        BY <3>1 DEF SockInv, AddedIsRegistered
      <3>. QED  BY <3>1, <3>2 DEF SockInv, RegistrationLive, HasEv
    <2>2. EventNotLost
      BY DEF SockInv, InPlace, NotMissed, EventNotLost
    <2>. QED  BY <2>1, <2>2 DEF SockInv
  <1>. QED  BY <1>1, SockInvariant, PTL

(* ResumedOnlyWaiting of the run `loop': the loop resumes a coroutine for  *)
(* an event or a timeout only while it waits for one, on its scheduler.    *)
THEOREM ResumesWaiting ==
    ASSUME Alone = TRUE
    PROVE  SockSpec => ResumedOnlyWaiting
  <1> DEFINE Waited(s) ==
                /\ home[running'[s]] = s
                /\ place[running'[s]] \in CASE stage[s] = "events" -> {"wait"}
                                            [] stage[s] = "tasks"  -> {"out"}
                                            [] stage[s] = "timers" -> {"wait", "linger"}
             Step == \A s \in Sched : running[s] = None /\ running'[s] # None => Waited(s)
  <1>1. ASSUME SockInv, NEW s \in Sched, NEW c \in Co,
               running' = [running EXCEPT ![s] = c], home[c] = s,
               \/ stage[s] = "events" /\ place[c] = "wait"
               \/ stage[s] = "tasks" /\ place[c] = "out"
               \/ stage[s] = "timers" /\ place[c] \in {"wait", "linger"}
        PROVE  Step
    <2>1. \A t \in Sched : running'[t] = IF t = s THEN c ELSE running[t]
      BY <1>1 DEF SockInv, SockTypeOK
    <2>2. Waited(s)
      <3>1. running'[s] = c
        BY <2>1
      <3>2. CASE stage[s] = "events"
        BY <1>1, <3>1, <3>2
      <3>3. CASE stage[s] = "tasks"
        BY <1>1, <3>1, <3>3
      <3>4. CASE stage[s] = "timers"
        BY <1>1, <3>1, <3>4
      <3>. QED  BY <1>1, <3>2, <3>3, <3>4
    <2>. HIDE DEF Waited
    <2>. QED  BY <2>1, <2>2
  <1>2. ASSUME SockInv, NEW c \in Co, TaskResumed(c)
        PROVE  Step
    <2>1. home[c] \in Sched /\ running' = [running EXCEPT ![home[c]] = c]
          /\ stage[home[c]] = "tasks" /\ place[c] = "out"
      BY <1>2, SockCalls DEF TaskResumed, SockInv
    <2>. QED  BY <1>1, <1>2, <2>1
  <1>3. ASSUME SockInv, NEW s \in Sched, NEW f \in Fd, NEW mask \in SUBSET Condition, Event(s, f, mask)
        PROVE  Step
    <2>1. /\ stage[s] = "events" /\ running[s] = None
          /\ \/ UNCHANGED running
             \/ \E c \in ReaderOf(s, f, mask) \cup WriterOf(s, f, mask) : ResumeWaiting(s, c)
      BY <1>3 DEF Event, Idle
    <2>2. ASSUME NEW c \in ReaderOf(s, f, mask) \cup WriterOf(s, f, mask), ResumeWaiting(s, c)
          PROVE  Step
      <3>1. "r" \in Dir /\ "w" \in Dir
        BY DEF Dir
      <3>2. c \in Registered(s, f, "r") \/ c \in Registered(s, f, "w")
        BY DEF ReaderOf, WriterOf
      <3>3. c \in Co /\ home[c] = s /\ place[c] = "wait"
        BY <1>3, <2>1, <3>1, <3>2, SockRegisteredWaits
      <3>4. running' = [running EXCEPT ![s] = c]
        BY <2>2 DEF ResumeWaiting
      <3>. QED  BY <1>1, <1>3, <2>1, <3>3, <3>4
    <2>. QED  BY <2>1, <2>2
  <1>4. ASSUME SockInv, NEW s \in Sched, EventSecond(s)
        PROVE  Step
    <2>1. /\ stage[s] = "events" /\ second[s] # None
          /\ running' = [running EXCEPT ![s] = second[s]]
      BY <1>4 DEF EventSecond, ResumeWaiting
    <2>2. second[s] \in Co /\ home[second[s]] = s /\ place[second[s]] = "wait"
      BY <1>4, <2>1 DEF SockInv, SockTypeOK, InStage
    <2>. QED  BY <1>1, <1>4, <2>1, <2>2
  <1>5. ASSUME SockInv, NEW s \in Sched, NEW c \in Co, ResumeExpired(s, c)
        PROVE  Step
    <2>1. /\ stage[s] = "timers" /\ c \in expired[s] /\ running' = [running EXCEPT ![s] = c]
      BY <1>5 DEF ResumeExpired, ResumeWaiting
    <2>2. home[c] = s /\ place[c] \in {"wait", "linger"}
      BY <1>5, <2>1 DEF SockInv, InStage
    <2>. QED  BY <1>1, <1>5, <2>1, <2>2
  <1>6. ASSUME SockInv, \/ running' = running
                        \/ \E c \in Co : running' = [running EXCEPT ![home[c]] = None]
        PROVE  Step
    <2>1. running \in [Sched -> Co \cup {None}] /\ \A c \in Co : home[c] \in Sched
      BY <1>6 DEF SockInv, SockTypeOK
    <2>2. \A s \in Sched : running'[s] \in {running[s], None}
      BY <1>6, <2>1
    <2>. HIDE DEF Waited
    <2>. QED  BY <2>2
  <1>. HIDE DEF Step
  <1>7. ASSUME SockInv, [SockNext]_sockVars
        PROVE  Step
    <2>1. CASE UNCHANGED sockVars \/ Kernel
      BY <1>6, <1>7, <2>1 DEF sockVars, Kernel, Socket, CloseByThread, HangUp, Arrive, Becomes,
                              ShutdownByThread
    <2>2. ASSUME NEW s \in Sched, IoLoopStep(s)
          PROVE  Step
      <3>1. CASE Poll(s) \/ IoEventsDone(s) \/ IoTimersDone(s) \/ \E due \in SUBSET Co : CheckTimeout(s, due)
        BY <1>6, <1>7, <3>1 DEF Poll, IoEventsDone, IoTimersDone, CheckTimeout
      <3>. QED  BY <1>3, <1>4, <1>5, <1>7, <2>2, <3>1 DEF IoLoopStep
    <2>3. ASSUME NEW c \in Co, InCall(c) \/ TryPartly(c) \/ Leave(c)
          PROVE  Step
      <3>1. \/ running' = running
            \/ running' = [running EXCEPT ![home[c]] = None]
        BY <2>3 DEF InCall, TrySucceeds, TryFails, TryBlocks, Wait, WaitFails, Woken, CloseEnds,
                    TryPartly, Leave, Yield
      <3>. QED  BY <1>6, <1>7, <3>1
    <2>4. ASSUME NEW c \in Co, User(c)
          PROVE  Step
      <3>1. CASE TaskResumed(c)
        BY <1>2, <1>7, <3>1
      <3>2. CASE \/ \E a \in Calls : Begin(c, a)
                 \/ \E f \in Fd, ms \in BOOLEAN : Close(c, f, ms)
                 \/ \E f \in Fd, ds \in SUBSET Dir \ {{}} : Shutdown(c, f, ds)
        <4>1. \/ running' = running
              \/ running' = [running EXCEPT ![home[c]] = None]
          BY <3>2 DEF Begin, Close, Shutdown, Yield
        <4>. QED  BY <1>6, <1>7, <4>1
      <3>. QED  BY <2>4, <3>1, <3>2 DEF User
    <2>. QED  BY <1>7, <2>1, <2>2, <2>3, <2>4 DEF SockNext
  <1>8. SockInv /\ [SockNext]_sockVars
          => [\A s \in Sched : running[s] = None /\ running'[s] # None =>
                LET c == running'[s]
                IN  /\ home[c] = s
                    /\ place[c] \in CASE stage[s] = "events" -> {"wait"}
                                      [] stage[s] = "tasks"  -> {"out"}
                                      [] stage[s] = "timers" -> {"wait", "linger"}]_sockVars
    BY <1>7 DEF Step
  <1>. QED  BY <1>8, SockInvariant, PTL DEF SockSpec, ResumedOnlyWaiting

=============================================================================
