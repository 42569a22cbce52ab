--------------------------- MODULE LibraryProofs ---------------------------
(***************************************************************************)
(* Proofs about the threads the library runs for itself: Logger, for any   *)
(* number of threads, buffers and logs, Tasked, for any tasks, delays and  *)
(* length of a second, and LogFile, for any sizes, number of files and     *)
(* length of a day.                                                        *)
(***************************************************************************)
EXTENDS MCLogger, FiniteSetTheorems, SequenceTheorems, WellFoundedInduction, TLAPS

(* _stop is set by one thread at a time, and moves with the thread that    *)
(* starts the logging thread, the logging thread, and the one that stops   *)
(* it.                                                                     *)
Where(t) == pc[t][1]
StarterIsUnique ==
    /\ \A t \in Thread : Where(t) = "start" => state = -1
    /\ \A t, q \in Thread : Where(t) = "start" /\ Where(q) = "start" => t = q
Stops(t) == Where(t) \in {"wait2", "flush"}
StopperIsUnique ==
    /\ \A t \in Thread : Where(t) = "wait2" => state \in {1, 2}
    /\ \A t \in Thread : Where(t) = "flush" => state = 2
    /\ \A t, q \in Thread : Stops(t) /\ Stops(q) => t = q
    /\ \A t \in Thread : Where(t) = "wait3" => state \in {1, 2, 3}
WriterFollows ==
    /\ writer = "none" <=> state < 0
    /\ state \in {2, 3} <=> writer = "ended"
    /\ writer = "swap" => next \in Buffer
    /\ writer # "write" => \A k \in Buffer : out[k] = <<>>
AllWritten ==
    /\ state = 3 => \A k \in Buffer : buf[k] = <<>>
    /\ \A t \in Thread : Where(t) = "aborted" => state = 3 \/ state < 0

LoggerInv ==
    TypeOK /\ StarterIsUnique /\ StopperIsUnique /\ WriterFollows /\ AllWritten
 
-----------------------------------------------------------------------------
(* What the actions do to the place where a thread is.                     *)
Place == {"run", "start", "push", "wait2", "flush", "wait3", "aborted"}
Reason == {"none", "stop", "fatal"}

LEMMA GoesFor ==
    ASSUME TypeOK, NEW t \in Thread, NEW p \in Place \X Reason,
           pc' = [pc EXCEPT ![t] = p]
    PROVE  /\ pc' \in [Thread -> Place \X Reason]
           /\ Where(t)' = p[1]
           /\ \A x \in Thread : x # t => Where(x)' = Where(x)
  BY DEF TypeOK, Where, Place, Reason

LEMMA Goes ==
    ASSUME TypeOK, NEW t \in Thread, NEW where \in Place, Goto(t, where)
    PROVE  /\ pc' \in [Thread -> Place \X Reason]
           /\ Where(t)' = where
           /\ \A x \in Thread : x # t => Where(x)' = Where(x)
  <1>1. PICK w \in Place, r \in Reason : pc[t] = <<w, r>>
    BY DEF TypeOK, Place, Reason
  <1>2. [pc[t] EXCEPT ![1] = where] = <<where, r>>
    BY <1>1
  <1>3. pc' = [pc EXCEPT ![t] = <<where, r>>]
    BY <1>2 DEF Goto, TypeOK
  <1>. QED  BY <1>3, GoesFor

LEMMA TrimmedType ==
    ASSUME NEW s \in Seq(Log) PROVE Trimmed(s) \in Seq(Log)
  <1>1. Len(s) \in Nat /\ \A i \in 1..Len(s) : s[i] \in Log
    BY LenProperties, ElementOfSeq
  <1>2. \A i \in (Len(s) \div 2 + 2)..Len(s) : s[i] \in Log
    BY <1>1
  <1>. QED  BY <1>1, <1>2, SubSeqProperties DEF Trimmed

LEMMA LoggerInitInv == Init => LoggerInv
  <1> SUFFICES ASSUME Init PROVE LoggerInv
    OBVIOUS
  <1> USE LoggerAssumption DEF Init
  <1>1. TypeOK
    <2>1. /\ buf \in [Buffer -> Seq(Log)] /\ out \in [Buffer -> Seq(Log)]
          /\ file \in [Buffer -> Seq(Log)] /\ accepted \in [Buffer -> Seq(Log)]
      BY EmptySeq
    <2>2. state \in -2..3 /\ next \in 1..Buffers + 1 /\ pushed \in [Thread -> 0..Logs]
      OBVIOUS
    <2>3. /\ started \in BOOLEAN /\ initDone \in BOOLEAN /\ event \in BOOLEAN
          /\ signaled \in BOOLEAN
      OBVIOUS
    <2>4. pc \in [Thread -> Place \X Reason] /\ trimmed \subseteq Log
      BY DEF Place, Reason
    <2>5. writer \in {"none", "init", "wait", "swap", "write", "ended"}
      OBVIOUS
    <2>. QED  BY <2>1, <2>2, <2>3, <2>4, <2>5 DEF TypeOK, Place, Reason
  <1>2. \A t \in Thread : Where(t) = "run"
    BY DEF Where
  <1>3. StarterIsUnique /\ StopperIsUnique
    BY <1>2 DEF StarterIsUnique, StopperIsUnique, Stops
  <1>4. state = -2 /\ writer = "none" /\ \A k \in Buffer : buf[k] = <<>> /\ out[k] = <<>>
    OBVIOUS
  <1>5. WriterFollows /\ AllWritten
    BY <1>2, <1>4 DEF WriterFollows, AllWritten
  <1>. QED  BY <1>1, <1>3, <1>5 DEF LoggerInv

-----------------------------------------------------------------------------
LEMMA LoggerStepInv == LoggerInv /\ [Next]_vars => LoggerInv'
  <1> SUFFICES ASSUME LoggerInv, [Next]_vars PROVE LoggerInv'
    OBVIOUS
  <1> USE LoggerAssumption DEF LoggerInv, At, Writer, buffers, thread, history
  <1>0. ~ Aborted => \A t \in Thread : Where(t) # "aborted"
    BY DEF Aborted, Where
  <1>a. /\ state \in -2..3
        /\ buf \in [Buffer -> Seq(Log)] /\ out \in [Buffer -> Seq(Log)]
    BY DEF TypeOK
  <1>1. CASE InitDone
    <2> USE <1>1 DEF InitDone
    <2>0. \A x \in Thread : Where(x)' = Where(x)
      BY DEF Where
    <2>1. TypeOK'
      BY <1>0, <1>a, <2>0 DEF TypeOK, Place, Reason
    <2>2. StarterIsUnique'
      BY <1>0, <1>a, <2>0 DEF StarterIsUnique
    <2>3. StopperIsUnique'
      BY <1>0, <1>a, <2>0 DEF StopperIsUnique, Stops
    <2>4. WriterFollows'
      BY <1>0, <1>a, <2>0 DEF WriterFollows, StarterIsUnique, StopperIsUnique
    <2>5. AllWritten'
      BY <1>0, <1>a, <2>0 DEF AllWritten, StopperIsUnique, WriterFollows
    <2>. QED  BY <2>1, <2>2, <2>3, <2>4, <2>5
  <1>2. ASSUME NEW t \in Thread, StartBegins(t) PROVE LoggerInv'
    <2> USE <1>2 DEF StartBegins
    <2>0. /\ pc' \in [Thread -> Place \X Reason]
          /\ Where(t)' = "start" /\ \A x \in Thread : x # t => Where(x)' = Where(x)
      BY Goes DEF Place
    <2>z. Where(t) = "run" /\ ~ Aborted
      BY DEF Where, MayLog
    <2>1. TypeOK'
      BY <1>0, <1>a, <2>0, <2>z DEF TypeOK, Place, Reason
    <2>2. StarterIsUnique'
      BY <1>0, <1>a, <2>0, <2>z DEF StarterIsUnique
    <2>3. StopperIsUnique'
      BY <1>0, <1>a, <2>0, <2>z DEF StopperIsUnique, Stops
    <2>4. WriterFollows'
      BY <1>0, <1>a, <2>0, <2>z DEF WriterFollows, StarterIsUnique, StopperIsUnique
    <2>5. AllWritten'
      BY <1>0, <1>a, <2>0, <2>z DEF AllWritten, StopperIsUnique, WriterFollows
    <2>. QED  BY <2>1, <2>2, <2>3, <2>4, <2>5
  <1>3. ASSUME NEW t \in Thread, StartEnds(t) PROVE LoggerInv'
    <2> USE <1>3 DEF StartEnds
    <2>0. /\ pc' \in [Thread -> Place \X Reason]
          /\ Where(t)' = "push" /\ \A x \in Thread : x # t => Where(x)' = Where(x)
      BY Goes DEF Place
    <2>z. Where(t) = "start" /\ ~ Aborted
      BY DEF Where, MayLog
    <2>1. TypeOK'
      BY <1>0, <1>a, <2>0, <2>z DEF TypeOK, Place, Reason
    <2>2. StarterIsUnique'
      BY <1>0, <1>a, <2>0, <2>z DEF StarterIsUnique
    <2>3. StopperIsUnique'
      BY <1>0, <1>a, <2>0, <2>z DEF StopperIsUnique, Stops, StarterIsUnique
    <2>4. WriterFollows'
      BY <1>0, <1>a, <2>0, <2>z DEF WriterFollows, StarterIsUnique, StopperIsUnique
    <2>5. AllWritten'
      BY <1>0, <1>a, <2>0, <2>z DEF AllWritten, StopperIsUnique, WriterFollows
    <2>. QED  BY <2>1, <2>2, <2>3, <2>4, <2>5
  <1>4. ASSUME NEW t \in Thread, NEW k \in Buffer, Push(t, k) PROVE LoggerInv'
    <2> USE <1>4 DEF Push
    <2>0. /\ pc' \in [Thread -> Place \X Reason]
          /\ Where(t)' = "run" /\ \A x \in Thread : x # t => Where(x)' = Where(x)
      BY Goes DEF Place
    <2>z. Where(t) \in {"run", "push"} /\ ~ Aborted
      BY DEF Where, MayLog
    <2>y. \/ state = 0 /\ \A x \in Buffer : x # k => buf'[x] = buf[x]
          \/ state # 0 /\ UNCHANGED buf
      BY DEF TypeOK
    <2>1. TypeOK'
      <3>a. pushed[t] + 1 \in 1..Logs /\ pushed \in [Thread -> 0..Logs]
        BY DEF TypeOK
      <3>1. <<t, pushed[t] + 1>> \in Log /\ pushed' \in [Thread -> 0..Logs]
        BY <3>a DEF Log
      <3>2. CASE state = 0
        <4> DEFINE kept == IF Len(buf[k]) >= Capacity THEN Trimmed(buf[k]) ELSE buf[k]
                   log == <<t, pushed[t] + 1>>
        <4>1. kept \in Seq(Log) /\ Len(kept) \in Nat
          BY TrimmedType, LenProperties DEF TypeOK
        <4>2. Append(kept, log) \in Seq(Log) /\ Append(accepted[k], log) \in Seq(Log)
          BY <3>1, <4>1, AppendProperties DEF TypeOK
        <4>3. buf' \in [Buffer -> Seq(Log)] /\ accepted' \in [Buffer -> Seq(Log)]
          BY <3>2, <4>2 DEF TypeOK
        <4>4. trimmed' \subseteq Log
          <5>1. ToSet(buf[k]) \subseteq Log
            BY ElementOfSeq DEF ToSet, TypeOK
          <5>. QED  BY <3>2, <5>1 DEF TypeOK
        <4>5. event' \in BOOLEAN
          BY <3>2 DEF TypeOK
        <4>. QED  BY <2>0, <3>1, <4>3, <4>4, <4>5 DEF TypeOK, Place, Reason
      <3>3. CASE state # 0
        BY <2>0, <3>1, <3>3 DEF TypeOK, Place, Reason
      <3>. QED  BY <3>2, <3>3
    <2>2. StarterIsUnique'
      BY <1>0, <1>a, <2>0, <2>z, <2>y DEF StarterIsUnique
    <2>3. StopperIsUnique'
      BY <1>0, <1>a, <2>0, <2>z, <2>y DEF StopperIsUnique, Stops
    <2>4. WriterFollows'
      BY <1>0, <1>a, <2>0, <2>z, <2>y DEF WriterFollows, StarterIsUnique, StopperIsUnique
    <2>5. AllWritten'
      BY <1>0, <1>a, <2>0, <2>z, <2>y DEF AllWritten, StopperIsUnique, WriterFollows
    <2>. QED  BY <2>1, <2>2, <2>3, <2>4, <2>5
  <1>5. ASSUME NEW t \in Thread, NEW why \in {"stop", "fatal"}, Stop(t, why) PROVE LoggerInv'
    <2> USE <1>5 DEF Stop
    <2>0. Where(t) = "run" /\ ~ Aborted
      BY DEF MayLog, Where
    <2>1z. state \in -2..3
      BY DEF TypeOK
    <2>y. PICK w \in {"run", "aborted", "wait2", "wait3"} :
             /\ pc' \in [Thread -> Place \X Reason]
             /\ Where(t)' = w /\ \A x \in Thread : x # t => Where(x)' = Where(x)
             /\ \/ state < 0 /\ w \in {"run", "aborted"} /\ UNCHANGED <<state, event>>
                \/ state = 0 /\ w = "wait2" /\ state' = 1 /\ event' = TRUE
                \/ state > 0 /\ w = "wait3" /\ UNCHANGED <<state, event>>
      <3>1. CASE state < 0
        <4>1. PICK p \in {<<"run", "none">>, <<"aborted", "fatal">>} : p = AfterStop(t, why)
          BY DEF AfterStop
        <4>2. p \in Place \X Reason /\ p[1] \in {"run", "aborted"} /\ pc' = [pc EXCEPT ![t] = p]
          BY <3>1, <4>1 DEF Place, Reason
        <4>. QED  BY <3>1, <4>2, GoesFor
      <3>2. CASE state = 0
        <4>1. <<"wait2", why>> \in Place \X Reason
          BY DEF Place, Reason
        <4>. QED  BY <3>2, <4>1, GoesFor DEF Calls
      <3>3. CASE state > 0
        <4>1. <<"wait3", why>> \in Place \X Reason
          BY DEF Place, Reason
        <4>2. pc' = [pc EXCEPT ![t] = <<"wait3", why>>] /\ UNCHANGED <<state, event>>
          BY <3>3, <2>1z DEF Calls
        <4>. QED  BY <3>3, <4>1, <4>2, GoesFor
      <3>4. state < 0 \/ state = 0 \/ state > 0
        BY <2>1z
      <3>. QED  BY <3>1, <3>2, <3>3, <3>4, Zenon
    <2>x. UNCHANGED <<started, initDone, buffers, signaled, next, writer, history>>
      OBVIOUS
    <2> HIDE DEF Stop
    <2>1. TypeOK'
      <3>1. state' \in -2..3
        BY <2>1z, <2>y
      <3>2. event' \in BOOLEAN
        BY <2>y DEF TypeOK
      <3>. QED  BY <3>1, <3>2, <2>x, <2>y DEF TypeOK, Place, Reason
    <2>2. StarterIsUnique'
      <3>1. \A x \in Thread : Where(x)' = "start" => x # t /\ Where(x) = "start"
        BY <2>y
      <3>2. state = -1 => state' = -1
        BY <2>y
      <3>. QED  BY <3>1, <3>2 DEF StarterIsUnique
    <2>3. StopperIsUnique'
      BY <1>0, <1>a, <2>0, <2>x, <2>y DEF StopperIsUnique, Stops
    <2>4. WriterFollows'
      BY <1>0, <1>a, <2>0, <2>x, <2>y DEF WriterFollows
    <2>5. AllWritten'
      BY <1>0, <1>a, <2>0, <2>x, <2>y DEF AllWritten
    <2>. QED  BY <2>1, <2>2, <2>3, <2>4, <2>5
  <1>6. ASSUME NEW t \in Thread, StopWaited(t) PROVE LoggerInv'
    <2> USE <1>6 DEF StopWaited
    <2>0. /\ pc' \in [Thread -> Place \X Reason]
          /\ Where(t)' = "flush" /\ \A x \in Thread : x # t => Where(x)' = Where(x)
      BY Goes DEF Place
    <2>z. Where(t) = "wait2" /\ ~ Aborted
      BY DEF Where, MayLog
    <2>1. TypeOK'
      BY <1>0, <1>a, <2>0, <2>z DEF TypeOK, Place, Reason
    <2>2. StarterIsUnique'
      BY <1>0, <1>a, <2>0, <2>z DEF StarterIsUnique
    <2>3. StopperIsUnique'
      BY <1>0, <1>a, <2>0, <2>z DEF StopperIsUnique, Stops
    <2>4. WriterFollows'
      BY <1>0, <1>a, <2>0, <2>z DEF WriterFollows, StarterIsUnique, StopperIsUnique
    <2>5. AllWritten'
      BY <1>0, <1>a, <2>0, <2>z DEF AllWritten, StopperIsUnique, WriterFollows
    <2>. QED  BY <2>1, <2>2, <2>3, <2>4, <2>5
  <1>7. ASSUME NEW t \in Thread, NEW k \in Buffer, StopFlushes(t, k) PROVE LoggerInv'
    <2> USE <1>7 DEF StopFlushes
    <2>0. \A x \in Thread : Where(x)' = Where(x)
      BY DEF Where
    <2>1. TypeOK'
      BY <1>0, <1>a, <2>0 DEF TypeOK, Place, Reason
    <2>2. StarterIsUnique'
      BY <1>0, <1>a, <2>0 DEF StarterIsUnique
    <2>3. StopperIsUnique'
      BY <1>0, <1>a, <2>0 DEF StopperIsUnique, Stops
    <2>4. WriterFollows'
      BY <1>0, <1>a, <2>0 DEF WriterFollows, StarterIsUnique, StopperIsUnique
    <2>5. AllWritten'
      BY <1>0, <1>a, <2>0 DEF AllWritten, StopperIsUnique, WriterFollows
    <2>. QED  BY <2>1, <2>2, <2>3, <2>4, <2>5
  <1>8. ASSUME NEW t \in Thread, StopEnds(t) PROVE LoggerInv'
    <2> USE <1>8 DEF StopEnds
    <2>0. PICK w \in {"run", "aborted"} :
             /\ pc' \in [Thread -> Place \X Reason]
             /\ Where(t)' = w /\ \A x \in Thread : x # t => Where(x)' = Where(x)
      <3>1. PICK p \in {<<"run", "none">>, <<"aborted", "fatal">>} : p = AfterStop(t, pc[t][2])
        BY DEF AfterStop
      <3>2. p \in Place \X Reason /\ p[1] \in {"run", "aborted"} /\ pc' = [pc EXCEPT ![t] = p]
        BY <3>1 DEF Place, Reason
      <3>. QED  BY <3>2, GoesFor
    <2>z. Where(t) = "flush" /\ ~ Aborted
      BY DEF Where
    <2>1. TypeOK'
      BY <1>0, <1>a, <2>0, <2>z DEF TypeOK, Place, Reason
    <2>2. StarterIsUnique'
      BY <1>a, <2>0, <2>z DEF StarterIsUnique, StopperIsUnique
    <2>3. StopperIsUnique'
      BY <1>0, <1>a, <2>0, <2>z DEF StopperIsUnique, Stops
    <2>4. WriterFollows'
      BY <1>0, <1>a, <2>0, <2>z DEF WriterFollows, StarterIsUnique, StopperIsUnique
    <2>5. AllWritten'
      BY <1>0, <1>a, <2>0, <2>z DEF AllWritten, StopperIsUnique, WriterFollows
    <2>. QED  BY <2>1, <2>2, <2>3, <2>4, <2>5
  <1>9. ASSUME NEW t \in Thread, OtherStopEnds(t) PROVE LoggerInv'
    <2> USE <1>9 DEF OtherStopEnds
    <2>0. PICK w \in {"run", "aborted"} :
             /\ pc' \in [Thread -> Place \X Reason]
             /\ Where(t)' = w /\ \A x \in Thread : x # t => Where(x)' = Where(x)
      <3>1. PICK p \in {<<"run", "none">>, <<"aborted", "fatal">>} : p = AfterStop(t, pc[t][2])
        BY DEF AfterStop
      <3>2. p \in Place \X Reason /\ p[1] \in {"run", "aborted"} /\ pc' = [pc EXCEPT ![t] = p]
        BY <3>1 DEF Place, Reason
      <3>. QED  BY <3>2, GoesFor
    <2>z. Where(t) = "wait3" /\ ~ Aborted
      BY DEF Where
    <2>1. TypeOK'
      BY <1>0, <1>a, <2>0, <2>z DEF TypeOK, Place, Reason
    <2>2. StarterIsUnique'
      BY <1>0, <1>a, <2>0, <2>z DEF StarterIsUnique
    <2>3. StopperIsUnique'
      BY <1>0, <1>a, <2>0, <2>z DEF StopperIsUnique, Stops
    <2>4. WriterFollows'
      BY <1>0, <1>a, <2>0, <2>z DEF WriterFollows, StarterIsUnique, StopperIsUnique
    <2>5. AllWritten'
      BY <1>0, <1>a, <2>0, <2>z DEF AllWritten, StopperIsUnique, WriterFollows
    <2>. QED  BY <2>1, <2>2, <2>3, <2>4, <2>5
  <1>10. CASE WriterInit
    <2> USE <1>10 DEF WriterInit
    <2>0. \A x \in Thread : Where(x)' = Where(x)
      BY DEF Where
    <2>1. TypeOK'
      BY <1>0, <1>a, <2>0 DEF TypeOK, Place, Reason
    <2>2. StarterIsUnique'
      BY <1>0, <1>a, <2>0 DEF StarterIsUnique
    <2>3. StopperIsUnique'
      BY <1>0, <1>a, <2>0 DEF StopperIsUnique, Stops
    <2>4. WriterFollows'
      BY <1>0, <1>a, <2>0 DEF WriterFollows, StarterIsUnique, StopperIsUnique
    <2>5. AllWritten'
      BY <1>0, <1>a, <2>0 DEF AllWritten, StopperIsUnique, WriterFollows
    <2>. QED  BY <2>1, <2>2, <2>3, <2>4, <2>5
  <1>11. CASE WriterWakes
    <2> USE <1>11 DEF WriterWakes
    <2>0. \A x \in Thread : Where(x)' = Where(x)
      BY DEF Where
    <2>z. state \in {0, 1}
      BY <1>a DEF WriterFollows
    <2>1. TypeOK'
      BY <1>0, <1>a, <2>0, <2>z DEF TypeOK, Place, Reason
    <2>2. StarterIsUnique'
      BY <2>0, <2>z DEF StarterIsUnique
    <2>3. StopperIsUnique'
      BY <1>0, <1>a, <2>0, <2>z DEF StopperIsUnique, Stops
    <2>4. WriterFollows'
      <3>1. CASE state = 0
        <4>1. next' \in Buffer
          BY <3>1 DEF Buffer
        <4>. QED  BY <3>1, <4>1 DEF WriterFollows
      <3>2. CASE state = 1
        BY <3>2 DEF WriterFollows
      <3>. QED  BY <2>z, <3>1, <3>2
    <2>5. AllWritten'
      BY <1>0, <1>a, <2>0, <2>z DEF AllWritten, StopperIsUnique, WriterFollows
    <2>. QED  BY <2>1, <2>2, <2>3, <2>4, <2>5
  <1>12. CASE Swap
    <2> USE <1>12 DEF Swap
    <2>0. \A x \in Thread : Where(x)' = Where(x)
      BY DEF Where
    <2>1. TypeOK'
      <3>1. next' \in 1..Buffers + 1
        BY DEF WriterFollows, Buffer
      <3>2. /\ buf' \in [Buffer -> Seq(Log)] /\ out' \in [Buffer -> Seq(Log)]
        BY EmptySeq, <1>a DEF WriterFollows
      <3>3. pc' \in [Thread -> Place \X Reason]
        BY DEF TypeOK, Place, Reason
      <3>. QED  BY <3>1, <3>2, <3>3 DEF TypeOK, Place, Reason
    <2>2. StarterIsUnique'
      BY <1>0, <1>a, <2>0 DEF StarterIsUnique
    <2>3. StopperIsUnique'
      BY <1>0, <1>a, <2>0 DEF StopperIsUnique, Stops
    <2>4. WriterFollows'
      BY <1>0, <1>a, <2>0 DEF WriterFollows, StarterIsUnique, StopperIsUnique
    <2>5. AllWritten'
      BY <1>0, <1>a, <2>0 DEF AllWritten, StopperIsUnique, WriterFollows
    <2>. QED  BY <2>1, <2>2, <2>3, <2>4, <2>5
  <1>13. CASE Write
    <2> USE <1>13 DEF Write
    <2>0. \A x \in Thread : Where(x)' = Where(x)
      BY DEF Where
    <2>1. TypeOK'
      BY <1>0, <1>a, <2>0 DEF TypeOK, Place, Reason
    <2>2. StarterIsUnique'
      BY <1>0, <1>a, <2>0 DEF StarterIsUnique
    <2>3. StopperIsUnique'
      BY <1>0, <1>a, <2>0 DEF StopperIsUnique, Stops
    <2>4. WriterFollows'
      <3>1. next > Buffers \/ next \in Buffer
        BY DEF TypeOK, Buffer
      <3>. QED  BY <1>a, <3>1 DEF WriterFollows
    <2>5. AllWritten'
      BY <1>0, <1>a, <2>0 DEF AllWritten, StopperIsUnique, WriterFollows
    <2>. QED  BY <2>1, <2>2, <2>3, <2>4, <2>5
  <1>14. CASE UNCHANGED vars
    <2> USE <1>14 DEF vars
    <2>1. TypeOK'
      BY DEF TypeOK
    <2>2. StarterIsUnique' /\ StopperIsUnique' /\ AllWritten'
      BY DEF StarterIsUnique, StopperIsUnique, Stops, AllWritten, Where
    <2>3. WriterFollows'
      BY DEF WriterFollows
    <2>. QED  BY <2>1, <2>2, <2>3
  <1>. QED  BY <1>1, <1>2, <1>3, <1>4, <1>5, <1>6, <1>7, <1>8, <1>9, <1>10, <1>11, <1>12, <1>13, <1>14 DEF Next, WriterStep, InCall, User

LEMMA WrittenByInv == LoggerInv => StoppedAllWritten
  <1> SUFFICES ASSUME LoggerInv PROVE StoppedAllWritten
    OBVIOUS
  <1>1. state \in -2..3
    BY DEF LoggerInv, TypeOK
  <1>2. state = 3 => writer = "ended" /\ \A k \in Buffer : buf[k] = <<>> /\ out[k] = <<>>
    BY DEF LoggerInv, AllWritten, WriterFollows
  <1>3. \A t \in Thread : pc[t][1] = "aborted" => state = 3 \/ state < 0
    BY DEF LoggerInv, AllWritten, Where
  <1>. QED  BY <1>1, <1>2, <1>3 DEF StoppedAllWritten

(* When stop() has returned, or a fatal log has aborted the process after  *)
(* it, everything accepted is written and the logging thread has ended,    *)
(* for any number of threads that push, stop and abort at the same time.   *)
THEOREM AllWrittenWhenStopped == Spec => []StoppedAllWritten
  BY LoggerInitInv, LoggerStepInv, WrittenByInv, PTL DEF Spec

-----------------------------------------------------------------------------
(* The task scheduler.                                                     *)

(* The time up to which seconds have been taken off the counts: a count    *)
(* that reaches 0 does so when its task is due, or before.                 *)
Base == ticks - elapsed - ms
CountsDown == \A t \in Task : list[t] # "none" => dueAt[t] >= Base + count[t] * Second

(* A task that has nothing to wait for ends the wait of the loop.          *)
NoneWaits ==
    stopFlag = 0 => \A t \in Task : list[t] # "none" /\ count[t] <= 0 =>
                       (wake \/ at = "run") /\ ticks <= dueAt[t]

RestOfSecond ==
    /\ elapsed <= Second
    /\ at = "wait" => ms < Second
    /\ at = "run" => elapsed = 0 /\ ms < 2 * Second
    /\ at = "end" => stopFlag = 2

TaskedInv == TaskedTypeOK /\ CountsDown /\ NoneWaits /\ RestOfSecond

(* What whole seconds are, whatever a second is.                           *)
LEMMA DivMod ==
    ASSUME NEW m \in Nat, NEW d \in Nat, d > 0
    PROVE  /\ m \div d \in Nat /\ m % d \in Nat /\ m % d < d
           /\ m = (m \div d) * d + (m % d)
  <1>1. m \div d \in Nat
    OBVIOUS
  <1>2. m % d \in 0..(d - 1)
    OBVIOUS
  <1>3. m = (m \div d) * d + (m % d)
    OBVIOUS
  <1>. QED  BY <1>1, <1>2, <1>3

LEMMA Times ==
    ASSUME NEW i \in Int
    PROVE  /\ i * Second \in Int
           /\ i >= 0 => i * Second >= 0
           /\ i >= 1 => i * Second >= Second
           /\ \A j \in Int : (i - j) * Second = i * Second - j * Second
  BY TaskedAssumption

LEMMA TaskedInitInv == TaskedInit => TaskedInv
  <1> SUFFICES ASSUME TaskedInit PROVE TaskedInv
    OBVIOUS
  <1> USE TaskedAssumption DEF TaskedInit
  <1>1. TaskedTypeOK
    <2>1. /\ count \in [Task -> Int] /\ period \in [Task -> Seconds \cup {0}]
          /\ dueAt \in [Task -> Nat]
      OBVIOUS
    <2>2. /\ list \in [Task -> {"none", "new", "tasks"}]
          /\ stopper \in [Stopper -> {"out", "wait", "wait2", "done"}] /\ ran \subseteq Task
          /\ wake \in BOOLEAN
      OBVIOUS
    <2>3. ticks \in 0..Horizon /\ stopFlag \in 0..2 /\ ms \in Nat /\ sec \in Nat /\ elapsed \in Nat
      OBVIOUS
    <2>. QED  BY <2>1, <2>2, <2>3 DEF TaskedTypeOK
  <1>2. \A t \in Task : list[t] = "none"
    OBVIOUS
  <1>3. at = "wait" /\ ms = 0 /\ elapsed = 0
    OBVIOUS
  <1>. QED  BY <1>1, <1>2, <1>3 DEF TaskedInv, CountsDown, NoneWaits, RestOfSecond

LEMMA TaskedStepInv == TaskedInv /\ [TaskedNext]_tdVars => TaskedInv'
  <1> SUFFICES ASSUME TaskedInv, [TaskedNext]_tdVars PROVE TaskedInv'
    OBVIOUS
  <1> USE TaskedAssumption DEF TaskedInv, taskVars, loopVars
  <1>a. /\ ticks \in Nat /\ elapsed \in Nat /\ ms \in Nat /\ sec \in Nat /\ stopFlag \in 0..2
        /\ count \in [Task -> Int] /\ dueAt \in [Task -> Nat]
        /\ period \in [Task -> Seconds \cup {0}] /\ list \in [Task -> {"none", "new", "tasks"}]
    BY DEF TaskedTypeOK
  <1>1. CASE TaskedTick
    <2> USE <1>1 DEF TaskedTick
    <2>1. TaskedTypeOK'
      BY <1>a DEF TaskedTypeOK
    <2>2. CountsDown'
      BY <1>a DEF CountsDown, Base
    <2>3. NoneWaits'
      BY <1>a DEF NoneWaits
    <2>4. RestOfSecond'
      BY <1>a DEF RestOfSecond
    <2>. QED  BY <2>1, <2>2, <2>3, <2>4
  <1>2. ASSUME NEW t \in Task, NEW s \in Seconds, NEW p \in Seconds \cup {0},
             AddTask(t, s, p), s = 0 => p = 0
      PROVE  TaskedInv'
    <2> USE <1>2 DEF AddTask
    <2>1. TaskedTypeOK'
      BY <1>a DEF TaskedTypeOK
    <2>2. CountsDown'
      BY <1>a DEF CountsDown, Base
    <2>3. NoneWaits'
      <3> SUFFICES ASSUME stopFlag = 0, NEW x \in Task, list'[x] # "none", count'[x] <= 0
                   PROVE  (wake' \/ at = "run") /\ ticks <= dueAt'[x]
        BY DEF NoneWaits
      <3>1. CASE x = t
        <4>1. count'[t] = s /\ dueAt'[t] = ticks + s * Second
          BY <1>a
        <4>2. s = 0
          BY <3>1, <4>1
        <4>3. wake'
          BY <4>2
        <4>. QED  BY <1>a, <3>1, <4>1, <4>2, <4>3
      <3>2. CASE x # t
        <4>1. list[x] # "none" /\ count[x] <= 0 /\ dueAt'[x] = dueAt[x]
          BY <1>a, <3>2
        <4>. QED  BY <4>1 DEF NoneWaits
      <3>. QED  BY <3>1, <3>2
    <2>4. RestOfSecond'
      BY <1>a DEF RestOfSecond
    <2>. QED  BY <2>1, <2>2, <2>3, <2>4
  <1>3. CASE WaitOver
    <2> USE <1>3 DEF WaitOver
    <2>1. TaskedTypeOK'
      <3>1. ms' \in Nat /\ elapsed' \in Nat
        BY <1>a
      <3>2. wake' \in BOOLEAN
        OBVIOUS
      <3>3. at' \in {"run", "end"}
        OBVIOUS
      <3>4. stopFlag' \in 0..2
        BY <1>a
      <3>. QED  BY <3>1, <3>2, <3>3, <3>4 DEF TaskedTypeOK
    <2>2. CountsDown'
      BY <1>a DEF CountsDown, Base
    <2>3. NoneWaits'
      BY <1>a DEF NoneWaits
    <2>4. RestOfSecond'
      BY <1>a DEF RestOfSecond
    <2>. QED  BY <2>1, <2>2, <2>3, <2>4
  <1>4. CASE RunTasks
    <2> USE <1>4 DEF RunTasks
    <2> DEFINE left == [t \in Task |-> count[t] - Passed]
               live == {t \in Task : list[t] # "none"}
               due  == {t \in live : left[t] <= 0}
               over == {t \in due : period[t] = 0}
    <2>w. /\ Passed \in Nat /\ Rest \in Nat /\ Rest < Second /\ ms < 2 * Second /\ elapsed = 0
          /\ \/ ms = Passed * Second + Rest
             \/ ms = Rest
      <3>1. CASE ms >= Second
        BY <1>a, <3>1, DivMod DEF Passed, Rest, RestOfSecond
      <3>2. CASE ms < Second
        BY <1>a, <3>2 DEF Passed, Rest, RestOfSecond
      <3>. QED  BY <1>a, <3>1, <3>2
    <2>x. \A t \in Task : /\ left[t] \in Int /\ left[t] = count[t] - Passed
                          /\ period[t] \in Nat /\ period[t] * Second \in Nat
      <3>1. \A t \in Task : period[t] \in Nat
        <4>1. Seconds \cup {0} \subseteq Nat
          BY TaskedAssumption
        <4>. QED  BY <1>a, <4>1
      <3>2. \A t \in Task : period[t] * Second \in Nat
        BY <3>1, Times
      <3>. QED  BY <1>a, <2>w, <3>1, <3>2
    <2>y. /\ sec' = Passed /\ ms' = Rest
          /\ count' = [t \in Task |-> IF t \in due THEN period[t]
                                       ELSE IF t \in live THEN left[t] ELSE count[t]]
          /\ list' = [t \in Task |-> IF t \in live \ over THEN "tasks" ELSE "none"]
          /\ dueAt' = [t \in Task |-> IF t \in due THEN period[t] * Second + ticks ELSE dueAt[t]]
          /\ ran' = due
          /\ at' = "wait"
          /\ UNCHANGED <<ticks, stopFlag, period, elapsed, wake, stopper>>
      OBVIOUS
    <2>z. \A t \in Task : list'[t] # "none" =>
             /\ list[t] # "none"
             /\ \/ left[t] <= 0 /\ count'[t] = period[t] /\ period[t] # 0 /\ dueAt'[t] = period[t] * Second + ticks
                \/ left[t] > 0 /\ count'[t] = left[t] /\ dueAt'[t] = dueAt[t]
      <3> SUFFICES ASSUME NEW t \in Task, list'[t] # "none"
                   PROVE  /\ list[t] # "none"
                          /\ \/ /\ left[t] <= 0 /\ count'[t] = period[t] /\ period[t] # 0
                                /\ dueAt'[t] = period[t] * Second + ticks
                             \/ left[t] > 0 /\ count'[t] = left[t] /\ dueAt'[t] = dueAt[t]
        OBVIOUS
      <3>1. t \in live \ over
        BY <2>y
      <3>2. left[t] \in Int
        BY <2>x
      <3>3. CASE t \in due
        BY <2>y, <3>1, <3>3
      <3>4. CASE t \notin due
        <4>1. left[t] > 0
          BY <3>1, <3>2, <3>4
        <4>. QED  BY <2>y, <3>1, <3>4, <4>1
      <3>. QED  BY <3>3, <3>4
    <2> HIDE DEF left, RunTasks
    <2>1. TaskedTypeOK'
      <3>1. due \subseteq Task
        OBVIOUS
      <3> HIDE DEF due, live, over
      <3>2. count' \in [Task -> Int]
        BY <1>a, <2>x, <2>y
      <3>3. dueAt' \in [Task -> Nat]
        BY <1>a, <2>x, <2>y
      <3>4. list' \in [Task -> {"none", "new", "tasks"}]
        BY <2>y
      <3>. QED  BY <2>w, <2>y, <3>1, <3>2, <3>3, <3>4 DEF TaskedTypeOK
    <2>2. CountsDown'
      <3> SUFFICES ASSUME NEW t \in Task, list'[t] # "none"
                   PROVE  dueAt'[t] >= Base' + count'[t] * Second
        BY DEF CountsDown
      <3>1. Base' = ticks - Rest /\ Base = ticks - ms
        BY <1>a, <2>w, <2>y DEF Base
      <3>2. CASE left[t] <= 0
        BY <1>a, <2>w, <2>x, <2>z, <3>1, <3>2
      <3>3. CASE left[t] > 0
        <4>1. /\ count'[t] * Second = count[t] * Second - Passed * Second
              /\ count[t] * Second \in Int /\ Passed * Second \in Int /\ Passed * Second >= 0
          BY <1>a, <2>w, <2>x, <2>z, <3>3, Times
        <4>2. list[t] # "none" /\ dueAt'[t] = dueAt[t]
          BY <2>x, <2>z, <3>3
        <4>3. dueAt[t] >= Base + count[t] * Second /\ dueAt[t] \in Nat
          BY <1>a, <4>2 DEF CountsDown
        <4>. QED  BY <1>a, <2>w, <3>1, <4>1, <4>2, <4>3
      <3>. QED  BY <2>x, <3>2, <3>3
    <2>3. NoneWaits'
      BY <1>a, <2>w, <2>x, <2>y, <2>z DEF NoneWaits
    <2>4. RestOfSecond'
      BY <1>a, <2>w, <2>x, <2>y, <2>z DEF RestOfSecond
    <2>. QED  BY <2>1, <2>2, <2>3, <2>4
  <1>5. ASSUME NEW q \in Stopper, StopTasked(q) PROVE TaskedInv'
    <2> USE <1>5 DEF StopTasked
    <2>1. TaskedTypeOK'
      <3>1. stopper' \in [Stopper -> {"out", "wait", "wait2", "done"}]
        BY DEF TaskedTypeOK
      <3>2. wake' \in BOOLEAN
        BY Zenon DEF TaskedTypeOK
      <3>3. stopFlag' \in 0..2
        BY <1>a
      <3>. QED  BY <3>1, <3>2, <3>3 DEF TaskedTypeOK
    <2>2. CountsDown'
      BY <1>a DEF CountsDown, Base
    <2>3. NoneWaits'
      BY <1>a DEF NoneWaits
    <2>4. RestOfSecond'
      BY <1>a DEF RestOfSecond
    <2>. QED  BY <2>1, <2>2, <2>3, <2>4
  <1>6. ASSUME NEW q \in Stopper, StopTaskedEnds(q) PROVE TaskedInv'
    <2> USE <1>6 DEF StopTaskedEnds
    <2>1. TaskedTypeOK'
      BY <1>a DEF TaskedTypeOK
    <2>2. CountsDown'
      BY <1>a DEF CountsDown, Base
    <2>3. NoneWaits'
      BY <1>a DEF NoneWaits
    <2>4. RestOfSecond'
      BY <1>a DEF RestOfSecond
    <2>. QED  BY <2>1, <2>2, <2>3, <2>4
  <1>7. CASE UNCHANGED tdVars
    <2> USE <1>7 DEF tdVars
    <2>1. TaskedTypeOK'
      BY DEF TaskedTypeOK
    <2>2. CountsDown' /\ NoneWaits' /\ RestOfSecond'
      BY DEF CountsDown, Base, NoneWaits, RestOfSecond
    <2>. QED  BY <2>1, <2>2
  <1>8. ASSUME NEW t \in Task, NEW s \in Seconds, AddTask(t, s, 0) \/ (s > 0 /\ AddTask(t, s, s))
        PROVE  TaskedInv'
    BY <1>2, <1>8
  <1>. QED  BY <1>1, <1>3, <1>4, <1>5, <1>6, <1>7, <1>8 DEF TaskedNext

LEMMA InTimeByInv == TaskedInv => TasksInTime
  <1> SUFFICES ASSUME TaskedInv, stopFlag = 0, NEW t \in Task, list[t] # "none"
               PROVE  ticks < dueAt[t] + Second
    BY DEF TasksInTime
  <1>1. /\ ticks \in Nat /\ elapsed \in Nat /\ ms \in Nat /\ count[t] \in Int /\ dueAt[t] \in Nat
        /\ Second \in Nat \ {0} /\ at \in {"wait", "run", "end"}
    BY TaskedAssumption DEF TaskedInv, TaskedTypeOK
  <1>2. CASE count[t] <= 0
    BY <1>1, <1>2 DEF TaskedInv, NoneWaits
  <1>3. CASE count[t] >= 1
    <2>1. count[t] * Second \in Int /\ count[t] * Second >= Second
      BY <1>1, <1>3, Times
    <2>2. elapsed + ms < 2 * Second
      BY <1>1 DEF TaskedInv, RestOfSecond
    <2>3. dueAt[t] >= ticks - elapsed - ms + count[t] * Second
      BY DEF TaskedInv, CountsDown, Base
    <2>. QED  BY <1>1, <2>1, <2>2, <2>3
  <1>. QED  BY <1>1, <1>2, <1>3

(* While the scheduler has not been stopped, no task is overdue by a       *)
(* second, whatever tasks there are, however long a second is, and however *)
(* often run_in(f, 0) cuts the wait of the loop short.                     *)
THEOREM NoneOverdue == TaskedSpec => []TasksInTime
  BY TaskedInitInv, TaskedStepInv, InTimeByInv, PTL DEF TaskedSpec

-----------------------------------------------------------------------------
(* The files of the logger, for any sizes and numbers and any length of a  *)
(* day.  The list that counts is _old_paths between the two steps in which *)
(* it is written to xx_old.log, and xx_old.log otherwise: a restart reads  *)
(* that one.                                                               *)
Names == IF step \in {"truncate", "save"} THEN oldPaths ELSE oldLog

FileTypeOK ==
    /\ now \in File!Time
    /\ cur \in Seq(Nat) \cup {NoFile}
    /\ rotated \in [File!Time -> Seq(Nat) \cup {NoFile}]
    /\ oldLog \in Seq(File!Time) /\ oldPaths \in Seq(File!Time)
    /\ step \in {"idle", "create", "name", "truncate", "save", "write"}
    /\ written \in Nat

ListsAgree ==
    /\ step # "idle" => checked
    /\ checked /\ step \notin {"truncate", "save"} => oldPaths = oldLog
    /\ step = "save" => oldLog = <<>>
    /\ step \in {"truncate", "save"} => oldPaths # <<>>
    /\ Len(oldLog) <= MaxNum /\ Len(oldPaths) <= MaxNum

(* No file has the name the next rotation will give to xx.log.             *)
NameIsFree ==
    /\ step \in {"create", "name"} => rotated[now] = NoFile
    /\ ~ unlisted /\ step # "name" /\ cur # NoFile /\ Names # <<>> =>
          rotated[Names[Len(Names)]] = NoFile

FilesListed ==
    unlisted \/ forgotten \/
       /\ \A t \in File!Time : rotated[t] # NoFile =>
             \E i \in 1..Len(Names) : Names[i] = t
       /\ step # "name" /\ cur # NoFile => Names # <<>>

Kept(n) == n \in gone \/ n \in File!In(cur) \/ \E t \in File!Time : n \in File!In(rotated[t])
AllKept == unlisted \/ \A n : n \in 1..written <=> Kept(n)

FileInv == FileTypeOK /\ ListsAgree /\ NameIsFree /\ FilesListed /\ AllKept

LEMMA FileInitInv == File!Init => FileInv
  <1> SUFFICES ASSUME File!Init PROVE FileInv
    OBVIOUS
  <1> USE FileAssumption DEF File!Init, File!Time
  <1>1. FileTypeOK
    BY DEF FileTypeOK
  <1>2. ListsAgree
    BY DEF ListsAgree
  <1>3. NameIsFree /\ FilesListed
    BY DEF NameIsFree, FilesListed
  <1>4. AllKept
    BY DEF AllKept, Kept, File!In
  <1>. QED  BY <1>1, <1>2, <1>3, <1>4 DEF FileInv

(* LogFile::open finds the file there is, or gives it its name.            *)
LEMMA FileOpens == ASSUME FileInv, File!Open PROVE FileInv'
  <1> USE DEF FileInv
  <1>1. /\ step = "idle" /\ checked' = TRUE /\ Names = oldLog
        /\ now \in File!Time /\ oldLog \in Seq(File!Time) /\ Len(oldLog) \in Nat
        /\ \A i \in 1..Len(oldLog) : oldLog[i] \in File!Time /\ oldLog[i] # now
        /\ rotated[now] = NoFile /\ oldPaths' = oldLog
        /\ UNCHANGED <<now, oldLog, written, gone, unlisted, forgotten>>
    <2>1. \A i \in 1..Len(oldLog) : oldLog[i] \in File!ToSet(oldLog) /\ oldLog[i] \in File!Time
      BY LenProperties, ElementOfSeq DEF FileTypeOK, File!ToSet
    <2>2. oldPaths' = oldLog
      BY DEF File!Open, ListsAgree
    <2>. QED  BY <2>1, <2>2, LenProperties DEF File!Open, FileTypeOK, Names, File!history
  <1> DEFINE last == oldLog[Len(oldLog)]
  <1>2. \/ cur # NoFile /\ oldLog # <<>> /\ step' = "write" /\ UNCHANGED <<cur, rotated>>
        \/ cur # NoFile /\ oldLog # <<>> /\ step' = "create"
              /\ rotated' = [rotated EXCEPT ![last] = cur] /\ cur' = NoFile
        \/ (cur = NoFile \/ oldLog = <<>>) /\ step' = "create" /\ UNCHANGED <<cur, rotated>>
    <2>1. (IF checked THEN oldPaths ELSE oldLog) = oldLog
      BY <1>1 DEF ListsAgree
    <2>. QED  BY <2>1 DEF File!Open, File!Last
  <1>3. Names' = oldLog /\ Names' = Names
    BY <1>1, <1>2 DEF Names
  <1>4. ListsAgree'
    BY <1>1, <1>2 DEF ListsAgree
  <1>5. CASE UNCHANGED <<cur, rotated>>
    <2>1. FileTypeOK'
      BY <1>1, <1>2, <1>5 DEF FileTypeOK
    <2>2. NameIsFree'
      BY <1>1, <1>2, <1>3, <1>5 DEF NameIsFree
    <2>3. FilesListed'
      BY <1>1, <1>3, <1>5 DEF FilesListed
    <2>4. AllKept'
      BY <1>1, <1>5 DEF AllKept, Kept
    <2>. QED  BY <1>4, <2>1, <2>2, <2>3, <2>4
  <1>6. CASE /\ cur # NoFile /\ oldLog # <<>> /\ step' = "create"
             /\ rotated' = [rotated EXCEPT ![last] = cur] /\ cur' = NoFile
    <2>1. Len(oldLog) \in 1..Len(oldLog) /\ last \in File!Time /\ last # now
      BY <1>1, <1>6, EmptySeq
    <2>2. rotated'[last] = cur /\ \A t \in File!Time : t # last => rotated'[t] = rotated[t]
      BY <1>6, <2>1 DEF FileTypeOK
    <2>3. FileTypeOK'
      BY <1>1, <1>6 DEF FileTypeOK
    <2>4. NameIsFree'
      BY <1>1, <1>6, <2>1, <2>2 DEF NameIsFree
    <2>5. FilesListed'
      <3>1. \E i \in 1..Len(oldLog) : oldLog[i] = last
        BY <2>1
      <3>. QED  BY <1>1, <1>3, <1>6, <2>2, <3>1 DEF FilesListed
    <2>6. AllKept'
      <3>1. unlisted \/ rotated[last] = NoFile
        BY <1>1, <1>6 DEF NameIsFree
      <3>2. ASSUME rotated[last] = NoFile PROVE \A n : Kept(n)' <=> Kept(n)
        BY <1>1, <1>6, <2>1, <2>2, <3>2 DEF Kept, File!In
      <3>. QED  BY <1>1, <3>1, <3>2 DEF AllKept
    <2>. QED  BY <1>4, <2>3, <2>4, <2>5, <2>6
  <1>. QED  BY <1>2, <1>5, <1>6

(* The name of a new file is noted, and the oldest files are removed.      *)
LEMMA FileNamed == ASSUME FileInv, File!Name PROVE FileInv'
  <1> USE DEF FileInv
  <1> DEFINE paths  == Append(oldPaths, now)
             excess == IF Len(paths) > MaxNum THEN Len(paths) - MaxNum ELSE 0
             oldest == {paths[i] : i \in 1..excess}
             rest   == SubSeq(paths, excess + 1, Len(paths))
  <1>1. /\ step = "name" /\ step' = "truncate" /\ oldPaths = oldLog /\ checked
        /\ oldPaths' = rest
        /\ rotated' = [t \in File!Time |-> IF t \in oldest THEN NoFile ELSE rotated[t]]
        /\ gone' = gone \cup UNION {File!In(rotated[t]) : t \in oldest}
        /\ UNCHANGED <<now, cur, oldLog, checked, written, unlisted, forgotten>>
    BY DEF File!Name, ListsAgree
  <1>2. /\ paths \in Seq(File!Time) /\ Len(paths) = Len(oldPaths) + 1 /\ Len(oldPaths) \in Nat
        /\ paths[Len(paths)] = now
        /\ \A i \in 1..Len(oldPaths) : paths[i] = oldPaths[i]
        /\ \A i \in 1..Len(paths) : paths[i] \in File!Time
    <2>1. oldPaths \in Seq(File!Time) /\ now \in File!Time
      BY DEF FileTypeOK
    <2>2. paths \in Seq(File!Time)
      BY <2>1, AppendProperties
    <2>. QED  BY <2>1, <2>2, AppendProperties, LenProperties, ElementOfSeq
  <1> HIDE DEF paths
  <1>3. /\ excess \in Nat /\ excess < Len(paths) /\ Len(paths) - excess <= MaxNum
        /\ Len(paths) \in Nat /\ MaxNum \in Nat
    BY <1>2, FileAssumption
  <1> HIDE DEF excess
  <1>4. /\ rest \in Seq(File!Time) /\ Len(rest) = Len(paths) - excess
        /\ \A i \in 1..Len(rest) : rest[i] = paths[excess + i]
    <2>1. /\ excess + 1 \in Int /\ Len(paths) \in Int
          /\ \A i \in (excess + 1)..Len(paths) : paths[i] \in File!Time
      BY <1>2, <1>3
    <2>2. /\ rest \in Seq(File!Time)
          /\ Len(rest) = IF excess + 1 <= Len(paths) THEN Len(paths) - (excess + 1) + 1 ELSE 0
          /\ \A i \in 1..(Len(paths) - (excess + 1) + 1) : rest[i] = paths[(excess + 1) + i - 1]
      BY <2>1, SubSeqProperties
    <2> HIDE DEF rest
    <2>3. Len(rest) = Len(paths) - excess
      BY <1>3, <2>2
    <2>4. ASSUME NEW i \in 1..Len(rest) PROVE rest[i] = paths[excess + i]
      <3>1. i \in 1..(Len(paths) - (excess + 1) + 1) /\ (excess + 1) + i - 1 = excess + i
        BY <1>3, <2>3
      <3>. QED  BY <2>2, <3>1
    <2>. QED  BY <2>2, <2>3, <2>4
  <1> HIDE DEF rest
  <1>5. rest[Len(rest)] = now /\ Len(rest) \in 1..MaxNum /\ rest # <<>>
    <2>1. Len(rest) \in 1..Len(rest) /\ excess + Len(rest) = Len(paths)
      BY <1>3, <1>4
    <2>. QED  BY <1>2, <1>3, <1>4, <2>1, EmptySeq
  <1>6. /\ \A t \in File!Time : rotated'[t] = IF t \in oldest THEN NoFile ELSE rotated[t]
        /\ rotated' \in [File!Time -> Seq(Nat) \cup {NoFile}]
        /\ oldest \subseteq File!Time
    <2>1. oldest \subseteq File!Time
      BY <1>2, <1>3
    <2> HIDE DEF oldest
    <2>. QED  BY <1>1, <2>1 DEF FileTypeOK
  <1>7. Names' = rest /\ Names = oldPaths
    BY <1>1 DEF Names
  <1>8. FileTypeOK'
    BY <1>1, <1>4, <1>6 DEF FileTypeOK
  <1>9. ListsAgree'
    BY <1>1, <1>5, FileAssumption DEF ListsAgree
  <1>10. NameIsFree'
    BY <1>1, <1>5, <1>6, <1>7 DEF NameIsFree, FileTypeOK
  <1>11. FilesListed'
    <2> SUFFICES ASSUME ~ unlisted, ~ forgotten, NEW t \in File!Time, rotated'[t] # NoFile
                 PROVE  \E i \in 1..Len(rest) : rest[i] = t
      BY <1>1, <1>5, <1>7 DEF FilesListed
    <2>1. t \notin oldest /\ rotated[t] # NoFile
      BY <1>6
    <2>2. PICK i \in 1..Len(oldPaths) : oldPaths[i] = t
      BY <1>7, <2>1 DEF FilesListed
    <2>3. i \in 1..Len(paths) /\ paths[i] = t
      BY <1>2, <2>2
    <2>4. i \notin 1..excess
      BY <2>1, <2>3
    <2>5. i - excess \in 1..Len(rest) /\ excess + (i - excess) = i
      BY <1>3, <1>4, <2>3, <2>4
    <2>. QED  BY <1>4, <2>3, <2>5
  <1>12. AllKept'
    <2>1. \A n : n \in gone' <=> n \in gone \/ \E t \in oldest : n \in File!In(rotated[t])
      BY <1>1
    <2> HIDE DEF oldest
    <2>2. \A t \in File!Time : File!In(rotated'[t]) = IF t \in oldest THEN {} ELSE File!In(rotated[t])
      BY <1>6 DEF File!In
    <2>3. \A n : Kept(n)' <=> Kept(n)
      <3> SUFFICES ASSUME NEW n PROVE Kept(n)' <=> Kept(n)
        OBVIOUS
      <3>1. (n \in File!In(cur))' <=> n \in File!In(cur)
        BY <1>1
      <3>2. (\E t \in File!Time : n \in File!In(rotated[t]))' <=>
              \E t \in File!Time : t \notin oldest /\ n \in File!In(rotated[t])
        BY <2>2
      <3>. QED  BY <1>6, <2>1, <3>1, <3>2 DEF Kept
    <2>. QED  BY <1>1, <2>3 DEF AllKept
  <1>. QED  BY <1>8, <1>9, <1>10, <1>11, <1>12

(* A log is written, or xx.log was removed and it is lost.                 *)
LEMMA FileWritten == ASSUME FileInv, File!Write PROVE FileInv'
  <1> USE DEF FileInv
  <1>1. /\ step \in {"idle", "write"} /\ step' = "idle" /\ written' = written + 1
        /\ written \in Nat /\ Names' = Names
        /\ UNCHANGED <<now, rotated, oldLog, oldPaths, checked, unlisted, forgotten>>
    BY DEF File!Write, FileTypeOK, Names
  <1>2. CASE cur = NoFile
    <2>1. UNCHANGED cur /\ gone' = gone \cup {written'}
      BY <1>2 DEF File!Write
    <2>2. FileTypeOK' /\ ListsAgree' /\ NameIsFree' /\ FilesListed'
      BY <1>1, <2>1 DEF FileTypeOK, ListsAgree, NameIsFree, FilesListed
    <2>3. \A n : Kept(n)' <=> Kept(n) \/ n = written'
      BY <1>1, <2>1 DEF Kept
    <2>. QED  BY <1>1, <2>2, <2>3 DEF AllKept
  <1>3. CASE cur # NoFile
    <2>1. UNCHANGED gone /\ cur' = Append(cur, written') /\ cur \in Seq(Nat) /\ written' \in Nat
      BY <1>1, <1>3 DEF File!Write, FileTypeOK
    <2>2. /\ cur' \in Seq(Nat) /\ Len(cur') = Len(cur) + 1 /\ cur'[Len(cur) + 1] = written'
          /\ \A i \in 1..Len(cur) : cur'[i] = cur[i]
          /\ DOMAIN cur = 1..Len(cur) /\ DOMAIN cur' = 1..Len(cur') /\ Len(cur) \in Nat
      BY <2>1, AppendProperties, LenProperties
    <2>3. cur' # NoFile
      BY <2>2, FileAssumption
    <2>4. FileTypeOK' /\ ListsAgree' /\ NameIsFree' /\ FilesListed'
      BY <1>1, <1>3, <2>2, <2>3 DEF FileTypeOK, ListsAgree, NameIsFree, FilesListed
    <2>5. \A n : n \in File!In(cur)' <=> n \in File!In(cur) \/ n = written'
      <3>1. \A n : n \in File!In(cur)' <=> \E i \in 1..(Len(cur) + 1) : cur'[i] = n
        BY <2>2, <2>3 DEF File!In, File!ToSet
      <3>2. \A n : n \in File!In(cur) <=> \E i \in 1..Len(cur) : cur[i] = n
        BY <1>3, <2>2 DEF File!In, File!ToSet
      <3>3. \A i \in 1..(Len(cur) + 1) : i \in 1..Len(cur) \/ i = Len(cur) + 1
        BY <2>2
      <3>. QED  BY <2>2, <3>1, <3>2, <3>3
    <2>6. \A n : Kept(n)' <=> Kept(n) \/ n = written'
      BY <1>1, <2>1, <2>5 DEF Kept
    <2>. QED  BY <1>1, <2>4, <2>6 DEF AllKept
  <1>. QED  BY <1>2, <1>3

(* The process ends; what is left is what is on the disk.                  *)
LEMMA FileRestarts == ASSUME FileInv, File!Restart PROVE FileInv'
  <1> USE DEF FileInv
  <1>1. /\ oldPaths' = <<>> /\ checked' = FALSE /\ step' = "idle" /\ Names' = oldLog
        /\ unlisted' = (unlisted \/ step \in {"name", "truncate"})
        /\ forgotten' = (forgotten \/ step = "save")
        /\ UNCHANGED <<now, cur, rotated, oldLog, written, gone>>
    BY DEF File!Restart, File!disk, Names
  <1>2. FileTypeOK' /\ ListsAgree'
    BY <1>1, EmptySeq, FileAssumption DEF FileTypeOK, ListsAgree
  <1>3. unlisted' \/ step = "save" \/ (step # "name" /\ Names = oldLog)
    BY <1>1 DEF FileTypeOK, Names
  <1>4. step = "save" => oldLog = <<>>
    BY DEF ListsAgree
  <1>5. NameIsFree'
    BY <1>1, <1>3, <1>4 DEF NameIsFree
  <1>6. FilesListed'
    BY <1>1, <1>3 DEF FilesListed
  <1>7. AllKept'
    <2>1. \A n : Kept(n)' <=> Kept(n)
      BY <1>1 DEF Kept
    <2>. QED  BY <1>1, <2>1 DEF AllKept
  <1>. QED  BY <1>2, <1>5, <1>6, <1>7

LEMMA FileStepInv == ASSUME FileInv, File!Next \/ UNCHANGED fileVars PROVE FileInv'
  <1> USE DEF FileInv
  <1>1. CASE File!Open
    BY <1>1, FileOpens
  <1>2. CASE File!Name
    BY <1>2, FileNamed
  <1>3. CASE File!Write
    BY <1>3, FileWritten
  <1>4. CASE File!Restart
    BY <1>4, FileRestarts
  <1>5. CASE File!Tick
    <2>1. /\ step = "idle" /\ now' = now + 1 /\ now < EndOfTime /\ Names' = Names
          /\ UNCHANGED <<cur, rotated, oldLog, oldPaths, checked, step, written, gone,
                         unlisted, forgotten>>
      BY <1>5 DEF File!Tick, File!disk, File!memory, File!history, Names
    <2>2. FileTypeOK'
      BY <2>1, FileAssumption DEF FileTypeOK, File!Time
    <2>3. ListsAgree' /\ NameIsFree' /\ FilesListed'
      BY <2>1 DEF ListsAgree, NameIsFree, FilesListed, File!Time
    <2>4. AllKept'
      BY <2>1 DEF AllKept, Kept, File!Time
    <2>. QED  BY <2>2, <2>3, <2>4
  <1>6. CASE File!Create
    <2>1. /\ step = "create" /\ step' = "name" /\ Names' = Names
          /\ cur' = IF cur = NoFile THEN <<>> ELSE cur
          /\ UNCHANGED <<now, rotated, oldLog, oldPaths, checked, written, gone, unlisted, forgotten>>
      BY <1>6 DEF File!Create, File!history, Names
    <2>2. FileTypeOK' /\ ListsAgree'
      BY <2>1, EmptySeq DEF FileTypeOK, ListsAgree
    <2>3. NameIsFree' /\ FilesListed'
      BY <2>1 DEF NameIsFree, FilesListed
    <2>4. File!In(cur)' = File!In(cur)
      <3>1. File!In(<<>>) = {}
        BY DEF File!In, File!ToSet
      <3>2. File!In(NoFile) = {}
        BY DEF File!In
      <3>. QED  BY <2>1, <3>1, <3>2
    <2>5. \A n : Kept(n)' <=> Kept(n)
      BY <2>1, <2>4 DEF Kept
    <2>. QED  BY <2>1, <2>2, <2>3, <2>5 DEF AllKept
  <1>7. CASE File!Truncate
    <2>1. /\ step = "truncate" /\ step' = "save" /\ oldLog' = <<>> /\ Names' = Names
          /\ UNCHANGED <<now, cur, rotated, oldPaths, checked, written, gone, unlisted, forgotten>>
      BY <1>7 DEF File!Truncate, File!history, Names
    <2>2. FileTypeOK' /\ ListsAgree'
      BY <2>1, EmptySeq, FileAssumption DEF FileTypeOK, ListsAgree
    <2>3. NameIsFree' /\ FilesListed' /\ AllKept'
      BY <2>1 DEF NameIsFree, FilesListed, AllKept, Kept
    <2>. QED  BY <2>2, <2>3
  <1>8. CASE File!Save
    <2>1. /\ step = "save" /\ step' = "write" /\ oldLog' = oldPaths /\ Names' = Names
          /\ UNCHANGED <<now, cur, rotated, oldPaths, checked, written, gone, unlisted, forgotten>>
      BY <1>8 DEF File!Save, File!history, Names
    <2>2. FileTypeOK' /\ ListsAgree'
      BY <2>1 DEF FileTypeOK, ListsAgree
    <2>3. NameIsFree' /\ FilesListed' /\ AllKept'
      BY <2>1 DEF NameIsFree, FilesListed, AllKept, Kept
    <2>. QED  BY <2>2, <2>3
  <1>9. CASE File!Removed
    <2>1. /\ step = "idle" /\ cur # NoFile /\ cur' = NoFile /\ gone' = gone \cup File!In(cur)
          /\ Names' = Names
          /\ UNCHANGED <<now, rotated, oldLog, oldPaths, checked, step, written, unlisted, forgotten>>
      BY <1>9 DEF File!Removed, File!memory, Names
    <2>2. FileTypeOK' /\ ListsAgree' /\ NameIsFree' /\ FilesListed'
      BY <2>1 DEF FileTypeOK, ListsAgree, NameIsFree, FilesListed
    <2>3. File!In(cur)' = {}
      BY <2>1 DEF File!In
    <2>4. \A n : Kept(n)' <=> Kept(n)
      BY <2>1, <2>3 DEF Kept
    <2>. QED  BY <2>1, <2>2, <2>4 DEF AllKept
  <1>10. CASE UNCHANGED fileVars
    <2>1. /\ UNCHANGED <<now, cur, rotated, oldLog, oldPaths, checked, step, written, gone,
                         unlisted, forgotten>>
          /\ Names' = Names
      BY <1>10 DEF fileVars, Names
    <2>2. FileTypeOK' /\ ListsAgree' /\ NameIsFree' /\ FilesListed'
      BY <2>1 DEF FileTypeOK, ListsAgree, NameIsFree, FilesListed
    <2>3. AllKept'
      BY <2>1 DEF AllKept, Kept
    <2>. QED  BY <2>2, <2>3
  <1>. QED
    BY <1>1, <1>2, <1>3, <1>4, <1>5, <1>6, <1>7, <1>8, <1>9, <1>10 DEF File!Next

(* As many files as are on the list, less the one that is being written.   *)
LEMMA ListBoundsFiles ==
    ASSUME FileInv, ~ unlisted, ~ forgotten, step # "name"
    PROVE  Cardinality(File!Files) + (IF cur = NoFile THEN 0 ELSE 1) <= MaxNum
  <1> USE DEF FileInv
  <1> DEFINE one == IF cur = NoFile THEN 0 ELSE 1
             size == Len(Names) - one
             names == {Names[i] : i \in 1..size}
  <1>1. /\ Names \in Seq(File!Time) /\ Len(Names) \in Nat /\ Len(Names) <= MaxNum
        /\ MaxNum \in Nat /\ DOMAIN Names = 1..Len(Names)
    BY LenProperties, FileAssumption DEF FileTypeOK, ListsAgree, Names
  <1>2. size \in Nat /\ size + one <= MaxNum /\ one \in {0, 1}
    BY <1>1, EmptySeq DEF FilesListed
  <1> HIDE DEF size
  <1>3. IsFiniteSet(names) /\ Cardinality(names) <= size
    <2>1. IsFiniteSet(1..size) /\ Cardinality(1..size) = size
      BY <1>2, FS_Interval
    <2> DEFINE f == [i \in 1..size |-> Names[i]]
    <2>2. f \in Surjection(1..size, names)
      BY DEF Surjection
    <2> HIDE DEF f, names
    <2>. QED  BY <2>1, <2>2, FS_Surjection
  <1>4. File!Files \subseteq names
    <2> SUFFICES ASSUME NEW t \in File!Time, rotated[t] # NoFile PROVE t \in names
      BY DEF File!Files
    <2>1. PICK i \in 1..Len(Names) : Names[i] = t
      BY DEF FilesListed
    <2>2. cur # NoFile => i # Len(Names)
      <3>1. Names # <<>>
        BY <2>1, EmptySeq
      <3>2. cur # NoFile => rotated[Names[Len(Names)]] = NoFile
        BY <3>1 DEF NameIsFree
      <3>. QED  BY <2>1, <3>2
    <2>3. one = 1 => i # Len(Names)
      BY <2>2
    <2> HIDE DEF one
    <2>4. i \in Nat /\ 1 <= i /\ i <= Len(Names) /\ Len(Names) \in Nat
      BY <1>1, <2>1
    <2>5. i <= Len(Names) - one
      <3>1. CASE one = 0
        BY <2>4, <3>1
      <3>2. CASE one = 1
        BY <2>3, <2>4, <3>2
      <3>. QED  BY <1>2, <3>1, <3>2
    <2>6. i \in 1..size
      BY <1>1, <1>2, <2>4, <2>5 DEF size
    <2>. QED  BY <2>1, <2>6
  <1> HIDE DEF names
  <1>5. IsFiniteSet(File!Files) /\ Cardinality(File!Files) <= Cardinality(names)
    BY <1>3, <1>4, FS_Subset
  <1>6. Cardinality(File!Files) \in Nat /\ Cardinality(names) \in Nat
    BY <1>3, <1>5, FS_CardinalityType
  <1> HIDE DEF one
  <1>7. Cardinality(File!Files) + one <= MaxNum
    BY <1>1, <1>2, <1>3, <1>5, <1>6
  <1>. QED  BY <1>7 DEF one

LEMMA FilesByInv == FileInv => FilesKept
  <1> SUFFICES ASSUME FileInv PROVE FilesKept
    OBVIOUS
  <1>1. File!LogsKept
    <2>1. \A t \in File!Time \ File!Files : File!In(rotated[t]) = {}
      BY DEF File!Files, File!In
    <2>2. \A n : Kept(n) <=> n \in gone \cup File!In(cur) \cup UNION {File!In(rotated[t]) : t \in File!Files}
      <3>1. \A n : n \in UNION {File!In(rotated[t]) : t \in File!Files}
                     <=> \E t \in File!Files : n \in File!In(rotated[t])
        OBVIOUS
      <3>2. File!Files \subseteq File!Time
        BY DEF File!Files
      <3>. QED  BY <2>1, <3>1, <3>2 DEF Kept
    <2>. QED  BY <2>2 DEF FileInv, AllKept, File!LogsKept
  <1>2. File!FilesBounded
    <2>1. ~ unlisted /\ ~ forgotten => File!Files \subseteq File!ToSet(oldPaths) \cup File!ToSet(oldLog)
      <3> SUFFICES ASSUME ~ unlisted, ~ forgotten, NEW t \in File!Time, rotated[t] # NoFile
                   PROVE  t \in File!ToSet(oldPaths) \cup File!ToSet(oldLog)
        BY DEF File!Files
      <3>1. PICK i \in 1..Len(Names) : Names[i] = t
        BY DEF FileInv, FilesListed
      <3>2. Names \in Seq(File!Time) /\ Names \in {oldPaths, oldLog}
        BY DEF FileInv, FileTypeOK, Names
      <3>3. i \in DOMAIN Names
        BY <3>1, <3>2, LenProperties
      <3>. QED  BY <3>1, <3>2, <3>3 DEF File!ToSet
    <2>2. ~ unlisted /\ ~ forgotten /\ step # "name" =>
             Cardinality(File!Files) + (IF cur = NoFile THEN 0 ELSE 1) <= MaxNum
      BY ListBoundsFiles
    <2>3. File!Cardinality(File!Files) = Cardinality(File!Files)
      BY DEF File!Cardinality, Cardinality
    <2>. QED  BY ONLY <2>1, <2>2, <2>3 DEF File!FilesBounded
  <1>. QED  BY <1>1, <1>2 DEF FilesKept

(* Whatever the sizes are, how many files are kept, how long a day is and  *)
(* when the process is restarted: a log that was written is in a file      *)
(* unless its file was removed, and there are no more files than there     *)
(* should be - but for the restarts that leave the list without a file.    *)
THEOREM LogFilesKept == LibSpec => []FilesKept
  <1>1. LibInit => FileInv
    BY FileInitInv DEF LibInit
  <1>2. FileInv /\ [LibNext]_<<vars, tdVars, fileVars, part>> => FileInv'
    <2>. SUFFICES ASSUME FileInv, [LibNext]_<<vars, tdVars, fileVars, part>> PROVE FileInv'
      OBVIOUS
    <2>1. File!Next \/ UNCHANGED fileVars
      BY DEF LibNext
    <2>. QED  BY <2>1, FileStepInv
  <1>. QED  BY <1>1, <1>2, FilesByInv, PTL DEF LibSpec

-----------------------------------------------------------------------------
(* What is left of a sequence, by induction on its length: a set of        *)
(* numbers has a least one, because the sets 0..n are finite and those     *)
(* below one another are well-founded.                                     *)

LEMMA LeastNumber ==
    ASSUME NEW T, T \subseteq Nat, T # {}
    PROVE  \E x \in T : \A y \in T : x <= y
  <1> DEFINE U == {0..n : n \in T}
  <1>1. U \subseteq FiniteSubsetsOf(Nat) /\ U # {}
    <2>1. \A n \in T : IsFiniteSet(0..n) /\ 0..n \subseteq Nat
      BY FS_Interval
    <2>. QED  BY <2>1 DEF FiniteSubsetsOf
  <1>2. IsWellFoundedOn(StrictSubsetOrdering(Nat), FiniteSubsetsOf(Nat))
    BY FS_StrictSubsetOrderingWellFounded
  <1>3. PICK x \in U : \A y \in U : ~ (<<y, x>> \in StrictSubsetOrdering(Nat))
    <2> HIDE DEF U
    <2>. QED  BY <1>1, <1>2, WFMin
  <1>4. PICK n \in T : x = 0..n
    OBVIOUS
  <1>5. ASSUME NEW k \in T PROVE n <= k
    <2>1. ~ (<<0..k, 0..n>> \in StrictSubsetOrdering(Nat))
      BY <1>3, <1>4
    <2>2. k < n => 0..k \subseteq 0..n /\ n \notin 0..k /\ n \in 0..n
      OBVIOUS
    <2>3. 0..k \in SUBSET Nat /\ 0..n \in SUBSET Nat
      OBVIOUS
    <2>4. k < n => 0..k # 0..n
      BY <2>2
    <2>. QED  BY <2>1, <2>2, <2>3, <2>4 DEF StrictSubsetOrdering
  <1>. QED  BY <1>5

(* What holds of 0 and of a number with its predecessor holds of all.      *)
LEMMA Induction ==
    ASSUME NEW T, 0 \in T, \A n \in Nat \ {0} : n - 1 \in T => n \in T
    PROVE  Nat \subseteq T
  <1>1. SUFFICES ASSUME Nat \ T # {} PROVE FALSE
    OBVIOUS
  <1>2. PICK n \in Nat \ T : \A k \in Nat \ T : n <= k
    BY <1>1, LeastNumber
  <1>3. n # 0
    BY <1>2
  <1>4. n - 1 \in Nat /\ ~ (n <= n - 1)
    BY <1>2, <1>3
  <1>5. n - 1 \in T
    BY <1>2, <1>4
  <1>. QED  BY <1>2, <1>3, <1>5

(* f is the function of Without for the first n of s.                      *)
LeftFun(s, x, n, f) ==
    f = [i \in 0..n |-> IF i = 0 THEN <<>>
                        ELSE IF s[i] \in x THEN f[i - 1] ELSE Append(f[i - 1], s[i])]
Lefts(s, x, n, f) ==
    \A i \in 0..n : f[i] = IF i = 0 THEN <<>>
                           ELSE IF s[i] \in x THEN f[i - 1] ELSE Append(f[i - 1], s[i])

LEMMA LeftsExist ==
    ASSUME NEW s, NEW x, NEW n \in Nat
    PROVE  \E f : LeftFun(s, x, n, f)
  <1> DEFINE T == {k \in Nat : \E f : LeftFun(s, x, k, f)}
  <1>1. 0 \in T
    <2> DEFINE g == [i \in 0..0 |-> <<>>]
    <2>1. g = [i \in 0..0 |-> IF i = 0 THEN <<>>
                        ELSE IF s[i] \in x THEN g[i - 1] ELSE Append(g[i - 1], s[i])]
      OBVIOUS
    <2> HIDE DEF g
    <2>2. LeftFun(s, x, 0, g)
      BY <2>1 DEF LeftFun
    <2>. QED  BY <2>2
  <1>2. ASSUME NEW k \in Nat \ {0}, k - 1 \in T PROVE k \in T
    <2>1. k - 1 \in Nat
      OBVIOUS
    <2>2. PICK f : LeftFun(s, x, k - 1, f)
      BY <1>2
    <2> DEFINE last == IF s[k] \in x THEN f[k - 1] ELSE Append(f[k - 1], s[k])
    <2>3. \A i \in 0..(k - 1) :
             f[i] = IF i = 0 THEN <<>> ELSE IF s[i] \in x THEN f[i - 1] ELSE Append(f[i - 1], s[i])
      BY <2>2 DEF LeftFun
    <2> HIDE DEF last
    <2> DEFINE g == [i \in 0..k |-> IF i = k THEN last ELSE f[i]]
    <2>4. g[k] = last /\ \A i \in 0..(k - 1) : g[i] = f[i]
      OBVIOUS
    <2>5. g = [i \in 0..k |-> g[i]]
      OBVIOUS
    <2> HIDE DEF g
    <2>6. ASSUME NEW i \in 0..k
          PROVE  g[i] = IF i = 0 THEN <<>> ELSE IF s[i] \in x THEN g[i - 1] ELSE Append(g[i - 1], s[i])
      <3>1. CASE i = k
        <4>1. k # 0 /\ k - 1 \in 0..(k - 1)
          BY <2>1
        <4>. QED  BY <2>4, <3>1, <4>1 DEF last
      <3>2. CASE i # k
        <4>1. i \in 0..(k - 1) /\ (i # 0 => i - 1 \in 0..(k - 1))
          BY <3>2
        <4>. QED  BY <2>3, <2>4, <4>1
      <3>. QED  BY <3>1, <3>2
    <2>7. g = [i \in 0..k |-> IF i = 0 THEN <<>>
                        ELSE IF s[i] \in x THEN g[i - 1] ELSE Append(g[i - 1], s[i])]
      BY <2>5, <2>6
    <2>8. LeftFun(s, x, k, g)
      BY <2>7 DEF LeftFun
    <2>. QED  BY <2>8
  <1> HIDE DEF T
  <1>3. n \in T
    BY <1>1, <1>2, Induction
  <1>. QED  BY <1>3 DEF T

LEMMA WithoutIs ==
    ASSUME NEW S, NEW s \in Seq(S), NEW x
    PROVE  \E f : Lefts(s, x, Len(s), f) /\ Without(s, x) = f[Len(s)]
  <1>1. Len(s) \in Nat
    BY LenProperties
  <1>2. \E f : LeftFun(s, x, Len(s), f)
    BY <1>1, LeftsExist
  <1> DEFINE left == CHOOSE f : LeftFun(s, x, Len(s), f)
  <1>3. LeftFun(s, x, Len(s), left)
    BY <1>2
  <1>4. left = CHOOSE f : f = [i \in 0..Len(s) |->
                                 IF i = 0 THEN <<>>
                                 ELSE IF s[i] \in x THEN f[i - 1] ELSE Append(f[i - 1], s[i])]
    BY DEF LeftFun
  <1>5. Without(s, x) = left[Len(s)]
    BY <1>1, <1>4 DEF Without
  <1> HIDE DEF left
  <1>6. Lefts(s, x, Len(s), left)
    BY <1>3 DEF LeftFun, Lefts
  <1>. QED  BY <1>5, <1>6

Agree(s, t, n) == \A i \in 1..n : s[i] = t[i]

LEMMA LeftsEqual ==
    ASSUME NEW s, NEW t, NEW x, NEW n \in Nat, Agree(s, t, n),
           NEW f, NEW g, Lefts(s, x, n, f), Lefts(t, x, n, g)
    PROVE  \A i \in 0..n : f[i] = g[i]
  <1> DEFINE T == {k \in Nat : k \in 0..n => f[k] = g[k]}
  <1>1. 0 \in T
    BY DEF Lefts
  <1>2. ASSUME NEW k \in Nat \ {0}, k - 1 \in T PROVE k \in T
    <2> SUFFICES ASSUME k \in 0..n PROVE f[k] = g[k]
      OBVIOUS
    <2>1. k \in 1..n /\ k - 1 \in 0..n /\ k # 0
      OBVIOUS
    <2>2. f[k - 1] = g[k - 1] /\ s[k] = t[k]
      BY <1>2, <2>1 DEF Agree
    <2>. QED  BY <2>1, <2>2 DEF Lefts
  <1> HIDE DEF T
  <1>3. Nat \subseteq T
    BY <1>1, <1>2, Induction
  <1> SUFFICES ASSUME NEW i \in 0..n PROVE f[i] = g[i]
    OBVIOUS
  <1>4. i \in T
    BY <1>3
  <1>. QED  BY <1>4 DEF T

LEMMA WithoutNone ==
    ASSUME NEW x
    PROVE  Without(<<>>, x) = <<>>
  <1>1. <<>> \in Seq({}) /\ Len(<<>>) = 0
    BY EmptySeq
  <1>2. PICK f : Lefts(<<>>, x, 0, f) /\ Without(<<>>, x) = f[0]
    BY <1>1, WithoutIs
  <1>. QED  BY <1>2 DEF Lefts

LEMMA WithoutLast ==
    ASSUME NEW S, NEW s \in Seq(S), NEW e \in S, NEW x
    PROVE  Without(Append(s, e), x) =
              IF e \in x THEN Without(s, x) ELSE Append(Without(s, x), e)
  <1> DEFINE n == Len(s)
             t == Append(s, e)
  <1>1. n \in Nat /\ t \in Seq(S) /\ Len(t) = n + 1 /\ t[n + 1] = e /\ \A i \in 1..n : s[i] = t[i]
    BY LenProperties, AppendProperties
  <1> HIDE DEF t
  <1>2. PICK f : Lefts(s, x, n, f) /\ Without(s, x) = f[n]
    BY WithoutIs
  <1>3. PICK g : Lefts(t, x, n + 1, g) /\ Without(t, x) = g[n + 1]
    BY <1>1, WithoutIs
  <1> HIDE DEF n
  <1>4. Lefts(t, x, n, g)
    <2>1. \A i \in 0..n : i \in 0..(n + 1)
      BY <1>1
    <2>. QED  BY <1>3, <2>1 DEF Lefts
  <1>5. f[n] = g[n]
    <2>1. Agree(s, t, n)
      BY <1>1 DEF Agree
    <2>2. \A i \in 0..n : f[i] = g[i]
      BY <1>1, <1>2, <1>4, <2>1, LeftsEqual
    <2>. QED  BY <1>1, <2>2
  <1>6. g[n + 1] = IF t[n + 1] \in x THEN g[n] ELSE Append(g[n], t[n + 1])
    <2>1. n + 1 \in 0..(n + 1) /\ n + 1 # 0 /\ (n + 1) - 1 = n
      BY <1>1
    <2>2. g[n + 1] = IF n + 1 = 0 THEN <<>>
                     ELSE IF t[n + 1] \in x THEN g[(n + 1) - 1] ELSE Append(g[(n + 1) - 1], t[n + 1])
      BY <1>3, <2>1 DEF Lefts
    <2>. QED  BY <2>1, <2>2
  <1>. QED  BY <1>1, <1>2, <1>3, <1>5, <1>6 DEF t

(* What holds of the empty sequence and of one with one more at its end    *)
(* holds of all.                                                           *)
LEMMA SequenceInduction ==
    ASSUME NEW S, NEW T, <<>> \in T,
           \A s \in Seq(S), e \in S : s \in T => Append(s, e) \in T
    PROVE  Seq(S) \subseteq T
  <1> DEFINE N == {n \in Nat : \A s \in Seq(S) : Len(s) = n => s \in T}
  <1>1. 0 \in N
    BY EmptySeq
  <1>2. ASSUME NEW n \in Nat \ {0}, n - 1 \in N PROVE n \in N
    <2> SUFFICES ASSUME NEW s \in Seq(S), Len(s) = n PROVE s \in T
      OBVIOUS
    <2>1. s # <<>>
      BY EmptySeq
    <2>2. PICK t \in Seq(S), e \in S : s = Append(t, e)
      BY <2>1, SequenceEmptyOrAppend
    <2>3. Len(t) \in Nat /\ n = Len(t) + 1
      BY <2>2, AppendProperties, LenProperties
    <2>4. Len(t) = n - 1
      BY <2>3
    <2>5. t \in T
      BY <1>2, <2>4
    <2>. QED  BY <2>2, <2>5
  <1> HIDE DEF N
  <1>3. Nat \subseteq N
    BY <1>1, <1>2, Induction
  <1> SUFFICES ASSUME NEW s \in Seq(S) PROVE s \in T
    OBVIOUS
  <1>4. Len(s) \in N
    BY <1>3, LenProperties
  <1>. QED  BY <1>4 DEF N

Elems(s) == {s[i] : i \in 1..Len(s)}

LEMMA ElemsAppend ==
    ASSUME NEW S, NEW s \in Seq(S), NEW e \in S
    PROVE  Elems(Append(s, e)) = Elems(s) \cup {e}
  <1>1. /\ Len(s) \in Nat /\ Len(Append(s, e)) = Len(s) + 1 /\ Append(s, e)[Len(s) + 1] = e
        /\ \A i \in 1..Len(s) : Append(s, e)[i] = s[i]
    BY LenProperties, AppendProperties
  <1>2. PICK t, n : t = Append(s, e) /\ n = Len(s)
    OBVIOUS
  <1>3. n \in Nat /\ Len(t) = n + 1 /\ t[n + 1] = e /\ \A i \in 1..n : t[i] = s[i]
    BY <1>1, <1>2
  <1>4. \A i : i \in 1..(n + 1) <=> i \in 1..n \/ i = n + 1
    BY <1>3
  <1>5. {t[i] : i \in 1..(n + 1)} = {s[i] : i \in 1..n} \cup {e}
    BY ONLY <1>3, <1>4
  <1>. QED  BY <1>2, <1>3, <1>5 DEF Elems

(* What is left is some of what there was, and nothing that was dropped.   *)
LEMMA WithoutSome ==
    ASSUME NEW S, NEW s \in Seq(S), NEW x
    PROVE  Without(s, x) \in Seq(S) /\ Elems(Without(s, x)) = Elems(s) \ x
  <1> DEFINE T == {t \in Seq(S) : Without(t, x) \in Seq(S) /\ Elems(Without(t, x)) = Elems(t) \ x}
  <1>1. <<>> \in T
    <2>1. Elems(<<>>) = {}
      BY EmptySeq DEF Elems
    <2>. QED  BY <2>1, WithoutNone, EmptySeq
  <1>2. ASSUME NEW t \in Seq(S), NEW e \in S, t \in T PROVE Append(t, e) \in T
    <2>1. Append(t, e) \in Seq(S) /\ Elems(Append(t, e)) = Elems(t) \cup {e}
      BY AppendProperties, ElemsAppend
    <2>2. Without(t, x) \in Seq(S) /\ Elems(Without(t, x)) = Elems(t) \ x
      BY <1>2
    <2>3. CASE e \in x
      <3>1. Without(Append(t, e), x) = Without(t, x)
        BY <2>3, WithoutLast
      <3>. QED  BY <2>1, <2>2, <2>3, <3>1
    <2>4. CASE e \notin x
      <3>1. Without(Append(t, e), x) = Append(Without(t, x), e)
        BY <2>4, WithoutLast
      <3>2. /\ Append(Without(t, x), e) \in Seq(S)
            /\ Elems(Append(Without(t, x), e)) = Elems(Without(t, x)) \cup {e}
        BY <2>2, AppendProperties, ElemsAppend
      <3>. QED  BY <2>1, <2>2, <2>4, <3>1, <3>2
    <2>. QED  BY <2>3, <2>4
  <1> HIDE DEF T
  <1>3. s \in T
    BY <1>1, <1>2, SequenceInduction
  <1>. QED  BY <1>3 DEF T

(* To drop x and y is to drop x, and then y.                               *)
LEMMA WithoutBoth ==
    ASSUME NEW S, NEW s \in Seq(S), NEW x, NEW y
    PROVE  Without(s, x \cup y) = Without(Without(s, x), y)
  <1> DEFINE T == {t \in Seq(S) : Without(t, x \cup y) = Without(Without(t, x), y)}
  <1>1. <<>> \in T
    BY WithoutNone, EmptySeq
  <1>2. ASSUME NEW t \in Seq(S), NEW e \in S, t \in T PROVE Append(t, e) \in T
    <2>1. Append(t, e) \in Seq(S) /\ Without(t, x) \in Seq(S)
      BY AppendProperties, WithoutSome
    <2>2. Without(t, x \cup y) = Without(Without(t, x), y)
      BY <1>2
    <2>3. Without(Append(t, e), x \cup y) =
             IF e \in x \cup y THEN Without(t, x \cup y) ELSE Append(Without(t, x \cup y), e)
      BY WithoutLast
    <2>4. Without(Append(t, e), x) = IF e \in x THEN Without(t, x) ELSE Append(Without(t, x), e)
      BY WithoutLast
    <2>5. Without(Append(Without(t, x), e), y) =
             IF e \in y THEN Without(Without(t, x), y) ELSE Append(Without(Without(t, x), y), e)
      BY <2>1, WithoutLast
    <2>. QED  BY <2>1, <2>2, <2>3, <2>4, <2>5
  <1> HIDE DEF T
  <1>3. s \in T
    BY <1>1, <1>2, SequenceInduction
  <1>. QED  BY <1>3 DEF T

LEMMA WithoutOthers ==
    ASSUME NEW S, NEW s \in Seq(S), NEW x, Elems(s) \cap x = {}
    PROVE  Without(s, x) = s
  <1> DEFINE T == {t \in Seq(S) : Elems(t) \cap x = {} => Without(t, x) = t}
  <1>1. <<>> \in T
    BY WithoutNone, EmptySeq
  <1>2. ASSUME NEW t \in Seq(S), NEW e \in S, t \in T PROVE Append(t, e) \in T
    <2>1. Append(t, e) \in Seq(S) /\ Elems(Append(t, e)) = Elems(t) \cup {e}
      BY AppendProperties, ElemsAppend
    <2>2. Without(Append(t, e), x) = IF e \in x THEN Without(t, x) ELSE Append(Without(t, x), e)
      BY WithoutLast
    <2>. QED  BY <1>2, <2>1, <2>2
  <1> HIDE DEF T
  <1>3. s \in T
    BY <1>1, <1>2, SequenceInduction
  <1>. QED  BY <1>3 DEF T

LEMMA WithoutAll ==
    ASSUME NEW S, NEW s \in Seq(S), NEW x, Elems(s) \subseteq x
    PROVE  Without(s, x) = <<>>
  <1> DEFINE T == {t \in Seq(S) : Elems(t) \subseteq x => Without(t, x) = <<>>}
  <1>1. <<>> \in T
    BY WithoutNone, EmptySeq
  <1>2. ASSUME NEW t \in Seq(S), NEW e \in S, t \in T PROVE Append(t, e) \in T
    <2>1. Append(t, e) \in Seq(S) /\ Elems(Append(t, e)) = Elems(t) \cup {e}
      BY AppendProperties, ElemsAppend
    <2>2. Without(Append(t, e), x) = IF e \in x THEN Without(t, x) ELSE Append(Without(t, x), e)
      BY WithoutLast
    <2>. QED  BY <1>2, <2>1, <2>2
  <1> HIDE DEF T
  <1>3. s \in T
    BY <1>1, <1>2, SequenceInduction
  <1>. QED  BY <1>3 DEF T

LEMMA JoinAppend ==
    ASSUME NEW S, NEW p \in Seq(S), NEW q \in Seq(S), NEW e \in S
    PROVE  p \o Append(q, e) = Append(p \o q, e)
  OBVIOUS

LEMMA WithoutJoined ==
    ASSUME NEW S, NEW s \in Seq(S), NEW t \in Seq(S), NEW x
    PROVE  Without(s \o t, x) = Without(s, x) \o Without(t, x)
  <1> DEFINE T == {q \in Seq(S) : Without(s \o q, x) = Without(s, x) \o Without(q, x)}
  <1>1. <<>> \in T
    BY WithoutNone, WithoutSome, EmptySeq, ConcatEmptySeq
  <1>2. ASSUME NEW q \in Seq(S), NEW e \in S, q \in T PROVE Append(q, e) \in T
    <2>1. /\ Append(q, e) \in Seq(S) /\ Without(s, x) \in Seq(S) /\ Without(q, x) \in Seq(S)
          /\ s \o q \in Seq(S)
      BY AppendProperties, WithoutSome, ConcatProperties
    <2>2. s \o Append(q, e) = Append(s \o q, e)
      BY JoinAppend
    <2>3. Without(Append(s \o q, e), x) = IF e \in x THEN Without(s \o q, x) ELSE Append(Without(s \o q, x), e)
      <3>1. PICK r \in Seq(S) : r = s \o q
        BY <2>1
      <3>2. Without(Append(r, e), x) = IF e \in x THEN Without(r, x) ELSE Append(Without(r, x), e)
        BY ONLY WithoutLast
      <3>. QED  BY <3>1, <3>2
    <2>4. Without(Append(q, e), x) = IF e \in x THEN Without(q, x) ELSE Append(Without(q, x), e)
      BY WithoutLast
    <2>5. Without(s, x) \o Append(Without(q, x), e) = Append(Without(s, x) \o Without(q, x), e)
      BY <2>1, JoinAppend
    <2>6. Without(s \o q, x) = Without(s, x) \o Without(q, x)
      BY <1>2
    <2>. QED  BY <2>1, <2>2, <2>3, <2>4, <2>5, <2>6
  <1> HIDE DEF T
  <1>3. t \in T
    BY <1>1, <1>2, SequenceInduction
  <1>. QED  BY <1>3 DEF T

Distinct(s) == \A i, j \in 1..Len(s) : s[i] = s[j] => i = j

LEMMA ElemsJoined ==
    ASSUME NEW S, NEW s \in Seq(S), NEW t \in Seq(S)
    PROVE  Elems(s \o t) = Elems(s) \cup Elems(t)
  <1>1. /\ Len(s) \in Nat /\ Len(t) \in Nat /\ Len(s \o t) = Len(s) + Len(t)
        /\ \A i \in 1..(Len(s) + Len(t)) : (s \o t)[i] = IF i <= Len(s) THEN s[i] ELSE t[i - Len(s)]
    BY LenProperties, ConcatProperties
  <1>2. PICK r, m, n : r = s \o t /\ m = Len(s) /\ n = Len(t)
    OBVIOUS
  <1>3. /\ m \in Nat /\ n \in Nat /\ Len(r) = m + n
        /\ \A i \in 1..(m + n) : r[i] = IF i <= m THEN s[i] ELSE t[i - m]
    BY <1>1, <1>2
  <1>4. \A i \in 1..(m + n) : i <= m => i \in 1..m
    BY <1>3
  <1>5. \A i \in 1..(m + n) : ~ (i <= m) => i - m \in 1..n
    BY <1>3
  <1>6. \A i \in 1..m : i \in 1..(m + n) /\ i <= m
    BY <1>3
  <1>7. \A i \in 1..n : i + m \in 1..(m + n) /\ ~ (i + m <= m) /\ (i + m) - m = i
    BY <1>3
  <1>8. ASSUME NEW x PROVE (\E i \in 1..(m + n) : r[i] = x) <=> (\E i \in 1..m : s[i] = x) \/ (\E i \in 1..n : t[i] = x)
    <2>1. ASSUME NEW i \in 1..(m + n), r[i] = x
          PROVE  (\E k \in 1..m : s[k] = x) \/ (\E k \in 1..n : t[k] = x)
      <3>1. CASE i <= m
        BY <1>3, <1>4, <2>1, <3>1
      <3>2. CASE ~ (i <= m)
        BY <1>3, <1>5, <2>1, <3>2
      <3>. QED  BY <3>1, <3>2
    <2>2. ASSUME NEW i \in 1..m, s[i] = x PROVE \E k \in 1..(m + n) : r[k] = x
      BY <1>3, <1>6, <2>2
    <2>3. ASSUME NEW i \in 1..n, t[i] = x PROVE \E k \in 1..(m + n) : r[k] = x
      <3>1. r[i + m] = t[i]
        BY <1>3, <1>7
      <3>. QED  BY <1>7, <2>3, <3>1
    <2>. QED  BY <2>1, <2>2, <2>3
  <1>9. \A x : x \in Elems(r) <=> \E i \in 1..(m + n) : r[i] = x
    BY <1>3 DEF Elems
  <1>10. \A x : /\ x \in Elems(s) <=> \E i \in 1..m : s[i] = x
                /\ x \in Elems(t) <=> \E i \in 1..n : t[i] = x
    BY <1>2 DEF Elems
  <1>11. Elems(r) = Elems(s) \cup Elems(t)
    BY ONLY <1>8, <1>9, <1>10
  <1>. QED  BY <1>2, <1>11

LEMMA DistinctJoined ==
    ASSUME NEW S, NEW s \in Seq(S), NEW t \in Seq(S)
    PROVE  Distinct(s \o t) <=> Distinct(s) /\ Distinct(t) /\ Elems(s) \cap Elems(t) = {}
  <1>1. /\ Len(s) \in Nat /\ Len(t) \in Nat /\ Len(s \o t) = Len(s) + Len(t)
        /\ \A i \in 1..(Len(s) + Len(t)) : (s \o t)[i] = IF i <= Len(s) THEN s[i] ELSE t[i - Len(s)]
    BY LenProperties, ConcatProperties
  <1>2. PICK r, m, n : r = s \o t /\ m = Len(s) /\ n = Len(t)
    OBVIOUS
  <1>3. /\ m \in Nat /\ n \in Nat /\ Len(r) = m + n
        /\ \A i \in 1..(m + n) : r[i] = IF i <= m THEN s[i] ELSE t[i - m]
    BY <1>1, <1>2
  <1>4. \A i \in 1..m : i \in 1..(m + n) /\ r[i] = s[i]
    BY <1>3
  <1>5. \A i \in 1..n : i + m \in 1..(m + n) /\ r[i + m] = t[i]
    <2> SUFFICES ASSUME NEW i \in 1..n PROVE i + m \in 1..(m + n) /\ r[i + m] = t[i]
      OBVIOUS
    <2>1. i + m \in 1..(m + n) /\ ~ (i + m <= m) /\ (i + m) - m = i
      BY <1>3
    <2>. QED  BY <1>3, <2>1
  <1>6. \A i \in 1..(m + n) : i \in 1..m \/ (i - m \in 1..n /\ (i - m) + m = i)
    BY <1>3
  <1>7. Distinct(r) <=> \A i, j \in 1..(m + n) : r[i] = r[j] => i = j
    BY <1>3 DEF Distinct
  <1>8. /\ Distinct(s) <=> \A i, j \in 1..m : s[i] = s[j] => i = j
        /\ Distinct(t) <=> \A i, j \in 1..n : t[i] = t[j] => i = j
        /\ \A x : x \in Elems(s) <=> \E i \in 1..m : s[i] = x
        /\ \A x : x \in Elems(t) <=> \E i \in 1..n : t[i] = x
    BY <1>2 DEF Distinct, Elems
  <1>9. ASSUME Distinct(r) PROVE Distinct(s) /\ Distinct(t) /\ Elems(s) \cap Elems(t) = {}
    <2>1. Distinct(s)
      BY <1>4, <1>7, <1>8, <1>9
    <2>2. Distinct(t)
      <3> SUFFICES ASSUME NEW i \in 1..n, NEW j \in 1..n, t[i] = t[j] PROVE i = j
        BY <1>8
      <3>1. i + m = j + m
        BY <1>5, <1>7, <1>9
      <3>. QED  BY <1>3, <3>1
    <2>3. \A i \in 1..m, j \in 1..n : s[i] # t[j]
      <3> SUFFICES ASSUME NEW i \in 1..m, NEW j \in 1..n, s[i] = t[j] PROVE FALSE
        OBVIOUS
      <3>1. i = j + m
        BY <1>4, <1>5, <1>7, <1>9
      <3>. QED  BY <1>3, <3>1
    <2>. QED  BY <1>8, <2>1, <2>2, <2>3
  <1>10. ASSUME Distinct(s), Distinct(t), Elems(s) \cap Elems(t) = {} PROVE Distinct(r)
    <2> SUFFICES ASSUME NEW i \in 1..(m + n), NEW j \in 1..(m + n), r[i] = r[j] PROVE i = j
      BY <1>7
    <2>0. \A k \in 1..m, l \in 1..n : s[k] # t[l]
      BY <1>8, <1>10
    <2>1. CASE i \in 1..m /\ j \in 1..m
      BY <1>4, <1>8, <1>10, <2>1
    <2>2. CASE i \in 1..m /\ j \notin 1..m
      <3>1. j - m \in 1..n /\ (j - m) + m = j
        BY <1>6, <2>2
      <3>2. r[j] = t[j - m] /\ r[i] = s[i]
        BY <1>4, <1>5, <2>2, <3>1
      <3>. QED  BY <2>0, <2>2, <3>1, <3>2
    <2>3. CASE i \notin 1..m /\ j \in 1..m
      <3>1. i - m \in 1..n /\ (i - m) + m = i
        BY <1>6, <2>3
      <3>2. r[i] = t[i - m] /\ r[j] = s[j]
        BY <1>4, <1>5, <2>3, <3>1
      <3>. QED  BY <2>0, <2>3, <3>1, <3>2
    <2>4. CASE i \notin 1..m /\ j \notin 1..m
      <3>1. i - m \in 1..n /\ (i - m) + m = i /\ j - m \in 1..n /\ (j - m) + m = j
        BY <1>6, <2>4
      <3>2. r[i] = t[i - m] /\ r[j] = t[j - m]
        BY <1>5, <3>1
      <3>3. i - m = j - m
        BY <1>8, <1>10, <3>1, <3>2
      <3>. QED  BY <1>3, <3>1, <3>3
    <2>. QED  BY <2>1, <2>2, <2>3, <2>4
  <1>11. Distinct(r) <=> Distinct(s) /\ Distinct(t) /\ Elems(s) \cap Elems(t) = {}
    BY <1>9, <1>10
  <1>. QED  BY <1>2, <1>11

LEMMA DistinctAppend ==
    ASSUME NEW S, NEW s \in Seq(S), NEW e \in S, Distinct(s), e \notin Elems(s)
    PROVE  Distinct(Append(s, e))
  <1>1. <<e>> \in Seq(S) /\ Len(<<e>>) = 1 /\ <<e>>[1] = e
    OBVIOUS
  <1>2. Distinct(<<e>>)
    BY <1>1 DEF Distinct
  <1>3. Elems(<<e>>) = {e}
    BY <1>1 DEF Elems
  <1>4. Distinct(s \o <<e>>)
    <2>1. PICK t \in Seq(S) : t = <<e>>
      BY <1>1
    <2>2. Distinct(t) /\ Elems(s) \cap Elems(t) = {}
      BY <1>2, <1>3, <2>1
    <2>3. Distinct(s \o t)
      BY ONLY <2>2, DistinctJoined, Distinct(s)
    <2>. QED  BY <2>1, <2>3
  <1>. QED  BY <1>4, AppendIsConcat

-----------------------------------------------------------------------------
(* The order of the logs in a buffer.                                      *)

LEMMA JoinedTwice ==
    ASSUME NEW S, NEW p \in Seq(S), NEW q \in Seq(S), NEW r \in Seq(S)
    PROVE  (p \o q) \o r = p \o (q \o r)
  OBVIOUS

LEMMA DropsNoneOfFirst ==
    ASSUME NEW S, NEW s \in Seq(S), NEW t \in Seq(S), NEW x, Elems(s) \cap x = {}
    PROVE  Without(s \o t, x) = s \o Without(t, x)
  <1>1. Without(s, x) = s
    BY WithoutOthers
  <1>2. Without(s \o t, x) = Without(s, x) \o Without(t, x)
    BY ONLY WithoutJoined
  <1>. QED  BY ONLY <1>1, <1>2

LEMMA DropsAllOfFirst ==
    ASSUME NEW S, NEW s \in Seq(S), NEW t \in Seq(S), NEW x, Elems(s) \subseteq x
    PROVE  Without(s \o t, x) = Without(t, x)
  <1>1. Without(s, x) = <<>>
    BY WithoutAll
  <1>2. Without(s \o t, x) = Without(s, x) \o Without(t, x)
    BY ONLY WithoutJoined
  <1>3. Without(t, x) \in Seq(S)
    BY WithoutSome
  <1>. QED  BY <1>1, <1>2, <1>3, ConcatEmptySeq

PushedBehind(f, p, q, g, e, x, w, d) ==
    /\ w = p \o q /\ Without(g, x) = f \o w /\ Distinct(f \o w)
    /\ e \notin Elems(g) /\ e \notin x /\ d = Elems(w) \ Elems(q)
IsPushed(f, p, q, g, e, x, d) ==
    /\ Without(Append(g, e), x \cup d) = f \o Append(q, e)
    /\ Distinct(f \o Append(q, e)) /\ d = Elems(p)

(* A log e is put behind q, what is left of p \o q; the rest of it goes.   *)
LEMMA PushKeepsOrder ==
    ASSUME NEW S, NEW f \in Seq(S), NEW p \in Seq(S), NEW q \in Seq(S), NEW g \in Seq(S), NEW e \in S,
           NEW x, NEW w, NEW d, PushedBehind(f, p, q, g, e, x, w, d)
    PROVE  IsPushed(f, p, q, g, e, x, d)
  <1>0. /\ w = p \o q /\ Without(g, x) = f \o w /\ Distinct(f \o w)
        /\ e \notin Elems(g) /\ e \notin x /\ d = Elems(w) \ Elems(q)
    BY DEF PushedBehind
  <1>1. w \in Seq(S) /\ Elems(w) = Elems(p) \cup Elems(q)
    BY <1>0, ConcatProperties, ElemsJoined
  <1>2. /\ Distinct(f) /\ Distinct(w) /\ Elems(f) \cap Elems(w) = {}
        /\ Distinct(p) /\ Distinct(q) /\ Elems(p) \cap Elems(q) = {}
    BY <1>0, <1>1, DistinctJoined
  <1>3. d = Elems(p)
    BY <1>0, <1>1, <1>2
  <1>4. Without(g, x) \in Seq(S) /\ Elems(Without(g, x)) = Elems(g) \ x
    BY WithoutSome
  <1>5. Elems(f \o w) = Elems(f) \cup Elems(w) /\ f \o w \in Seq(S)
    BY ONLY <1>1, ElemsJoined, ConcatProperties
  <1>6. e \notin Elems(f) /\ e \notin Elems(p) /\ e \notin Elems(q)
    BY <1>0, <1>1, <1>4, <1>5
  <1>7. Without(w, d) = q
    <2>1. Without(q, d) = q
      BY <1>2, <1>3, WithoutOthers
    <2>2. Elems(p) \subseteq d
      BY <1>3
    <2>3. Without(p \o q, d) = Without(q, d)
      BY ONLY <2>2, DropsAllOfFirst
    <2>. QED  BY <1>0, <2>1, <2>3
  <1>8. Without(f \o w, d) = f \o q
    <2>1. Elems(f) \cap d = {}
      BY <1>1, <1>2, <1>3
    <2>2. PICK h \in Seq(S) : h = w
      BY <1>1
    <2>3. Without(f \o h, d) = f \o Without(h, d)
      BY ONLY <2>1, DropsNoneOfFirst
    <2>. QED  BY <1>7, <2>2, <2>3
  <1>9. Without(g, x \cup d) = f \o q
    <2>1. Without(g, x \cup d) = Without(Without(g, x), d)
      BY ONLY WithoutBoth
    <2>. QED  BY <1>0, <1>8, <2>1
  <1>10. Without(Append(g, e), x \cup d) = Append(f \o q, e)
    <2>1. e \notin x \cup d
      BY <1>0, <1>3, <1>6
    <2>2. Without(Append(g, e), x \cup d) = Append(Without(g, x \cup d), e)
      <3>1. PICK y : y = x \cup d
        OBVIOUS
      <3>2. Without(Append(g, e), y) = IF e \in y THEN Without(g, y) ELSE Append(Without(g, y), e)
        BY ONLY WithoutLast
      <3>. QED  BY <2>1, <3>1, <3>2
    <2>. QED  BY <1>9, <2>2
  <1>11. f \o Append(q, e) = Append(f \o q, e)
    BY JoinAppend
  <1>12. Distinct(Append(f \o q, e))
    <2>1. PICK r \in Seq(S) : r = f \o q
      BY ConcatProperties
    <2>2. Elems(f) \cap Elems(q) = {}
      BY <1>1, <1>2
    <2>3. Distinct(f \o q) /\ Elems(f \o q) = Elems(f) \cup Elems(q)
      BY <1>2, <2>2, DistinctJoined, ElemsJoined
    <2>4. Distinct(r) /\ e \notin Elems(r)
      BY <1>6, <2>1, <2>3
    <2>5. Distinct(Append(r, e))
      BY <2>4, DistinctAppend
    <2>. QED  BY <2>1, <2>5
  <1>. QED  BY <1>3, <1>10, <1>11, <1>12 DEF IsPushed

(* What is kept of a buffer is its end.                                    *)
LEMMA TrimmedIsEnd ==
    ASSUME NEW s \in Seq(Log), Len(s) >= Capacity
    PROVE  \E p \in Seq(Log) : s = p \o Trimmed(s)
  <1> DEFINE n == Len(s)
             h == n \div 2 + 1
  <1>1. n \in Nat /\ n >= 1
    BY LenProperties, LoggerAssumption
  <1>2. h \in 0..n /\ 1 \in 1..(n + 1) /\ n \in h..n /\ h + 1 = n \div 2 + 2
    BY <1>1
  <1> HIDE DEF h, n
  <1>3. SubSeq(s, 1, h) \o SubSeq(s, h + 1, n) = SubSeq(s, 1, n)
    <2>1. h \in (1 - 1)..n
      BY <1>2
    <2>. QED  BY <1>2, <2>1, ConcatAdjacentSubSeq DEF n
  <1>4. SubSeq(s, 1, n) = s
    BY SubSeqFull DEF n
  <1>5. SubSeq(s, 1, h) \in Seq(Log)
    <2>1. \A i \in 1..h : i \in 1..n
      BY <1>1, <1>2
    <2>2. \A i \in 1..h : s[i] \in Log
      BY <2>1, ElementOfSeq DEF n
    <2>3. h \in Int /\ 1 \in Int
      BY <1>1, <1>2
    <2>. QED  BY <2>2, <2>3, SubSeqProperties
  <1>6. Trimmed(s) = SubSeq(s, h + 1, n)
    BY <1>2 DEF Trimmed, n
  <1>. QED  BY <1>3, <1>4, <1>5, <1>6

(* No log is in two buffers or twice in one, and the next one is new.      *)
Stored(k) == file[k] \o out[k] \o buf[k]
StoredOnce == \A k \in Buffer : Distinct(Stored(k))
OneBufferEach ==
    \A k, q \in Buffer : k # q => Elems(accepted[k]) \cap Elems(accepted[q]) = {}
Numbered ==
    /\ \A k \in Buffer : \A l \in Elems(accepted[k]) : l[2] <= pushed[l[1]]
    /\ \A l \in trimmed : l[2] <= pushed[l[1]]

LogsOK == LogsInOrder /\ StoredOnce /\ OneBufferEach /\ Numbered

LEMMA LogsInitOK == Init => LogsOK
  <1> SUFFICES ASSUME Init PROVE LogsOK
    OBVIOUS
  <1>1. \A k \in Buffer : file[k] = <<>> /\ out[k] = <<>> /\ buf[k] = <<>> /\ accepted[k] = <<>>
    BY DEF Init
  <1>2. trimmed = {}
    BY DEF Init
  <1>3. <<>> \o <<>> \o <<>> = <<>> /\ Elems(<<>>) = {} /\ Distinct(<<>>)
    BY EmptySeq, ConcatEmptySeq DEF Elems, Distinct
  <1>4. LogsInOrder
    BY <1>1, <1>3, WithoutNone DEF LogsInOrder
  <1>5. StoredOnce
    BY <1>1, <1>3 DEF StoredOnce, Stored
  <1>6. OneBufferEach /\ Numbered
    BY <1>1, <1>2, <1>3 DEF OneBufferEach, Numbered
  <1>. QED  BY <1>4, <1>5, <1>6 DEF LogsOK

(* Logs that go from one place to the next.                                *)
LEMMA LogsMoved ==
    ASSUME LogsOK, UNCHANGED <<accepted, trimmed, pushed>>,
           \A k \in Buffer : Stored(k)' = Stored(k)
    PROVE  LogsOK'
  <1>1. LogsInOrder'
    BY DEF LogsOK, LogsInOrder, Stored
  <1>2. StoredOnce'
    BY DEF LogsOK, StoredOnce
  <1>3. OneBufferEach' /\ Numbered'
    BY DEF LogsOK, OneBufferEach, Numbered
  <1>. QED  BY <1>1, <1>2, <1>3 DEF LogsOK

(* A log that finds the logger stopped.                                    *)
LEMMA LogsRefused ==
    ASSUME LogsOK, TypeOK, UNCHANGED <<buf, out, file, accepted, trimmed>>,
           NEW t \in Thread, pushed' = [pushed EXCEPT ![t] = @ + 1]
    PROVE  LogsOK'
  <1>1. \A q \in Thread : pushed[q] \in Nat /\ pushed'[q] \in Nat /\ pushed[q] <= pushed'[q]
    BY LoggerAssumption DEF TypeOK
  <1>2. \A l \in Log : l[1] \in Thread /\ l[2] \in Nat
    BY DEF Log
  <1>3. \A k \in Buffer : Elems(accepted[k]) \subseteq Log
    BY ElementOfSeq DEF TypeOK, Elems
  <1>4. \A l \in Log : l[2] <= pushed[l[1]] => l[2] <= pushed'[l[1]]
    <2> SUFFICES ASSUME NEW l \in Log, l[2] <= pushed[l[1]] PROVE l[2] <= pushed'[l[1]]
      OBVIOUS
    <2>1. l[1] \in Thread /\ l[2] \in Nat
      BY <1>2
    <2>2. PICK m, n : m = pushed[l[1]] /\ n = pushed'[l[1]]
      OBVIOUS
    <2>3. m \in Nat /\ n \in Nat /\ m <= n /\ l[2] <= m
      BY <1>1, <2>1, <2>2
    <2>4. l[2] <= n
      BY ONLY <2>1, <2>3
    <2>. QED  BY <2>2, <2>4
  <1>5. Numbered'
    BY <1>3, <1>4 DEF LogsOK, Numbered, TypeOK
  <1>6. LogsInOrder' /\ StoredOnce' /\ OneBufferEach'
    BY DEF LogsOK, LogsInOrder, StoredOnce, Stored, OneBufferEach
  <1>. QED  BY <1>5, <1>6 DEF LogsOK

LEMMA LogsPushed ==
    ASSUME LogsOK, TypeOK, NEW t \in Thread, NEW k \in Buffer, Push(t, k), state = 0
    PROVE  LogsOK'
  <1> DEFINE kept == IF Len(buf[k]) >= Capacity THEN Trimmed(buf[k]) ELSE buf[k]
             log  == <<t, pushed[t] + 1>>
             gon  == ToSet(buf[k]) \ ToSet(kept)
             front == file[k] \o out[k]
  <1>1. /\ buf' = [buf EXCEPT ![k] = Append(kept, log)]
        /\ accepted' = [accepted EXCEPT ![k] = Append(@, log)]
        /\ trimmed' = trimmed \cup gon
        /\ pushed' = [pushed EXCEPT ![t] = @ + 1]
        /\ UNCHANGED <<out, file>>
        /\ pushed[t] < Logs
    BY DEF Push
  <1>2. /\ buf[k] \in Seq(Log) /\ out[k] \in Seq(Log) /\ file[k] \in Seq(Log)
        /\ accepted[k] \in Seq(Log) /\ front \in Seq(Log) /\ pushed[t] \in 0..Logs
    BY ConcatProperties DEF TypeOK
  <1>3. log \in Log
    <2>1. pushed[t] + 1 \in 1..Logs
      BY <1>1, <1>2, LoggerAssumption
    <2>. QED  BY <2>1 DEF Log
  <1>4. PICK p \in Seq(Log) : kept \in Seq(Log) /\ buf[k] = p \o kept
    <2>1. CASE Len(buf[k]) >= Capacity
      BY <1>2, <2>1, TrimmedIsEnd, TrimmedType
    <2>2. CASE ~ (Len(buf[k]) >= Capacity)
      <3>1. <<>> \in Seq(Log) /\ <<>> \o buf[k] = buf[k]
        BY <1>2, EmptySeq, ConcatEmptySeq
      <3>2. kept = buf[k]
        BY <2>2
      <3>. QED  BY <1>2, <3>1, <3>2
    <2>. QED  BY <2>1, <2>2
  <1> HIDE DEF kept
  <1>5. gon = Elems(buf[k]) \ Elems(kept)
    <2>1. \A s \in Seq(Log) : ToSet(s) = Elems(s)
      BY LenProperties DEF ToSet, Elems
    <2>. QED  BY <1>2, <1>4, <2>1
  <1>6. log \notin trimmed /\ \A q \in Buffer : log \notin Elems(accepted[q])
    <2>1. log[1] = t /\ log[2] = pushed[t] + 1 /\ pushed[t] \in Nat
      BY <1>2
    <2>2. ~ (log[2] <= pushed[log[1]])
      BY <2>1
    <2> HIDE DEF log
    <2>. QED  BY <2>2 DEF LogsOK, Numbered
  <1> HIDE DEF log, gon
  <1>7. Without(accepted[k], trimmed) = front \o buf[k] /\ Distinct(front \o buf[k])
    BY DEF LogsOK, LogsInOrder, StoredOnce, Stored
  <1> HIDE DEF front
  <1>8. /\ Without(Append(accepted[k], log), trimmed \cup gon) = front \o Append(kept, log)
        /\ Distinct(front \o Append(kept, log)) /\ gon = Elems(p)
    <2>1. PushedBehind(front, p, kept, accepted[k], log, trimmed, buf[k], gon)
      BY <1>4, <1>5, <1>6, <1>7 DEF PushedBehind
    <2>2. IsPushed(front, p, kept, accepted[k], log, trimmed, gon)
      BY <1>2, <1>3, <1>4, <2>1, PushKeepsOrder
    <2>. QED  BY <2>2 DEF IsPushed
  <1>9. Elems(p) \subseteq Elems(accepted[k])
    <2>1. Elems(Without(accepted[k], trimmed)) = Elems(accepted[k]) \ trimmed
      BY <1>2, WithoutSome
    <2>2. Elems(front \o buf[k]) = Elems(front) \cup Elems(buf[k])
      <3>1. PICK f \in Seq(Log), w \in Seq(Log) : f = front /\ w = buf[k]
        BY <1>2
      <3>2. Elems(f \o w) = Elems(f) \cup Elems(w)
        BY ONLY ElemsJoined
      <3>. QED  BY <3>1, <3>2
    <2>3. Elems(p \o kept) = Elems(p) \cup Elems(kept)
      BY <1>4, ElemsJoined
    <2>. QED  BY <1>4, <1>7, <2>1, <2>2, <2>3
  <1>10. \A q \in Buffer : q # k => Stored(q)' = Stored(q) /\ accepted'[q] = accepted[q]
    BY <1>1 DEF Stored, TypeOK
  <1>11. Stored(k)' = front \o Append(kept, log) /\ accepted'[k] = Append(accepted[k], log)
    BY <1>1 DEF Stored, front, TypeOK
  <1>12. LogsInOrder'
    <2> SUFFICES ASSUME NEW q \in Buffer PROVE Stored(q)' = Without(accepted'[q], trimmed')
      BY DEF LogsInOrder, Stored
    <2>1. CASE q = k
      BY <1>1, <1>8, <1>11, <2>1
    <2>2. CASE q # k
      <3>1. accepted[q] \in Seq(Log) /\ Without(accepted[q], trimmed) = Stored(q)
        BY DEF TypeOK, LogsOK, LogsInOrder, Stored
      <3>2. Elems(Stored(q)) \cap gon = {} /\ Stored(q) \in Seq(Log)
        <4>1. /\ Elems(Without(accepted[q], trimmed)) = Elems(accepted[q]) \ trimmed
              /\ Without(accepted[q], trimmed) \in Seq(Log)
          BY <3>1, WithoutSome
        <4>2. Elems(accepted[q]) \cap Elems(accepted[k]) = {}
          BY <2>2 DEF LogsOK, OneBufferEach
        <4>. QED  BY <1>8, <1>9, <3>1, <4>1, <4>2
      <3>3. Without(Stored(q), gon) = Stored(q)
        BY <3>2, WithoutOthers
      <3>4. Without(accepted[q], trimmed \cup gon) = Without(Without(accepted[q], trimmed), gon)
        BY <3>1, WithoutBoth
      <3>. QED  BY <1>1, <1>10, <2>2, <3>1, <3>3, <3>4
    <2>. QED  BY <2>1, <2>2
  <1>13. StoredOnce'
    BY <1>8, <1>10, <1>11 DEF LogsOK, StoredOnce
  <1>14. Elems(accepted'[k]) = Elems(accepted[k]) \cup {log}
    BY <1>2, <1>3, <1>11, ElemsAppend
  <1>15. OneBufferEach'
    <2> SUFFICES ASSUME NEW q \in Buffer, NEW r \in Buffer, q # r
                 PROVE  Elems(accepted'[q]) \cap Elems(accepted'[r]) = {}
      BY DEF OneBufferEach
    <2>1. Elems(accepted[q]) \cap Elems(accepted[r]) = {}
      BY DEF LogsOK, OneBufferEach
    <2>. QED  BY <1>6, <1>10, <1>14, <2>1
  <1>16. Numbered'
    <2>1. \A q \in Thread : pushed[q] \in Nat /\ pushed'[q] \in Nat /\ pushed[q] <= pushed'[q]
      BY <1>1, LoggerAssumption DEF TypeOK
    <2>2. \A q \in Buffer : Elems(accepted[q]) \subseteq Log
      BY ElementOfSeq DEF TypeOK, Elems
    <2>3. \A l \in Log : l[2] <= pushed[l[1]] => l[2] <= pushed'[l[1]]
      <3> SUFFICES ASSUME NEW l \in Log, l[2] <= pushed[l[1]] PROVE l[2] <= pushed'[l[1]]
        OBVIOUS
      <3>1. l[1] \in Thread /\ l[2] \in Nat
        BY DEF Log
      <3>2. PICK m, n : m = pushed[l[1]] /\ n = pushed'[l[1]]
        OBVIOUS
      <3>3. m \in Nat /\ n \in Nat /\ m <= n /\ l[2] <= m
        BY <2>1, <3>1, <3>2
      <3>4. l[2] <= n
        BY ONLY <3>1, <3>3
      <3>. QED  BY <3>2, <3>4
    <2>4. log[2] <= pushed'[log[1]]
      BY <1>1, <1>2 DEF log, TypeOK
    <2>5. \A q \in Buffer : \A l \in Elems(accepted'[q]) : l[2] <= pushed'[l[1]]
      <3> SUFFICES ASSUME NEW q \in Buffer, NEW l \in Elems(accepted'[q]) PROVE l[2] <= pushed'[l[1]]
        OBVIOUS
      <3>1. l = log \/ l \in Elems(accepted[q])
        BY <1>10, <1>14
      <3>2. l \in Elems(accepted[q]) => l[2] <= pushed[l[1]] /\ l \in Log
        BY <2>2 DEF LogsOK, Numbered
      <3>. QED  BY <2>3, <2>4, <3>1, <3>2
    <2>6. \A l \in trimmed' : l[2] <= pushed'[l[1]]
      <3> SUFFICES ASSUME NEW l \in trimmed' PROVE l[2] <= pushed'[l[1]]
        OBVIOUS
      <3>1. l \in trimmed \/ l \in Elems(accepted[k])
        BY <1>1, <1>8, <1>9
      <3>2. l \in Log /\ l[2] <= pushed[l[1]]
        BY <2>2, <3>1 DEF LogsOK, Numbered, TypeOK
      <3>. QED  BY <2>3, <3>2
    <2>. QED  BY <2>5, <2>6 DEF Numbered
  <1>. QED  BY <1>12, <1>13, <1>15, <1>16 DEF LogsOK

LEMMA LogsStepOK == LoggerInv /\ LogsOK /\ [Next]_vars => LogsOK'
  <1> SUFFICES ASSUME LoggerInv, LogsOK, [Next]_vars PROVE LogsOK'
    OBVIOUS
  <1>0. TypeOK /\ WriterFollows /\ StopperIsUnique
    BY DEF LoggerInv
  <1>a. \A s \in Seq(Log) : s \o <<>> = s /\ <<>> \o s = s
    BY ConcatEmptySeq
  <1>b. \A k \in Buffer : /\ file[k] \in Seq(Log) /\ out[k] \in Seq(Log) /\ buf[k] \in Seq(Log)
                          /\ file[k] \o out[k] \in Seq(Log)
    BY <1>0, ConcatProperties DEF TypeOK
  <1>1. ASSUME UNCHANGED <<buffers, history>> PROVE LogsOK'
    <2>1. UNCHANGED <<accepted, trimmed, pushed>> /\ \A k \in Buffer : Stored(k)' = Stored(k)
      BY <1>1 DEF buffers, history, Stored
    <2>. QED  BY <2>1, LogsMoved
  <1>2. ASSUME NEW t \in Thread, NEW k \in Buffer, Push(t, k) PROVE LogsOK'
    <2>1. CASE state = 0
      BY <1>0, <1>2, <2>1, LogsPushed
    <2>2. CASE state # 0
      BY <1>0, <1>2, <2>2, LogsRefused DEF Push
    <2>. QED  BY <2>1, <2>2
  <1>3. ASSUME NEW t \in Thread, NEW k \in Buffer, StopFlushes(t, k) PROVE LogsOK'
    <2>1. \A q \in Buffer : out[q] = <<>>
      <3>1. state = 2 /\ writer # "write"
        BY <1>0, <1>3 DEF StopFlushes, At, StopperIsUnique, Where, WriterFollows
      <3>. QED  BY <1>0, <3>1 DEF WriterFollows
    <2>2. /\ file' = [file EXCEPT ![k] = @ \o buf[k]] /\ buf' = [buf EXCEPT ![k] = <<>>]
          /\ out' = out /\ UNCHANGED <<accepted, trimmed, pushed>>
      BY <1>3 DEF StopFlushes, history
    <2>3. ASSUME NEW q \in Buffer PROVE Stored(q)' = Stored(q)
      <3>1. CASE q = k
        <4>1. file'[q] = file[q] \o buf[q] /\ buf'[q] = <<>> /\ out'[q] = <<>> /\ out[q] = <<>>
          BY <1>0, <2>1, <2>2, <3>1 DEF TypeOK
        <4>2. file[q] \o buf[q] \in Seq(Log)
          BY <1>b, ConcatProperties
        <4>. QED  BY <1>a, <1>b, <4>1, <4>2 DEF Stored
      <3>2. CASE q # k
        BY <1>0, <2>2, <3>2 DEF Stored, TypeOK
      <3>. QED  BY <3>1, <3>2
    <2>. QED  BY <2>2, <2>3, LogsMoved
  <1>4. CASE Swap
    <2>1. next \in Buffer /\ \A q \in Buffer : out[q] = <<>>
      BY <1>0, <1>4 DEF Swap, Writer, WriterFollows
    <2>2. /\ out' = [out EXCEPT ![next] = buf[next]] /\ buf' = [buf EXCEPT ![next] = <<>>]
          /\ file' = file /\ UNCHANGED <<accepted, trimmed, pushed>>
      BY <1>4 DEF Swap, history
    <2>3. ASSUME NEW q \in Buffer PROVE Stored(q)' = Stored(q)
      <3>1. CASE q = next
        <4>1. out'[q] = buf[q] /\ buf'[q] = <<>> /\ file'[q] = file[q] /\ out[q] = <<>>
          BY <1>0, <2>1, <2>2, <3>1 DEF TypeOK
        <4>2. file[q] \o buf[q] \in Seq(Log)
          BY <1>b, ConcatProperties
        <4>. QED  BY <1>a, <1>b, <4>1, <4>2 DEF Stored
      <3>2. CASE q # next
        BY <1>0, <2>2, <3>2 DEF Stored, TypeOK
      <3>. QED  BY <3>1, <3>2
    <2>. QED  BY <2>2, <2>3, LogsMoved
  <1>5. CASE Write
    <2>1. /\ file' = [k \in Buffer |-> file[k] \o out[k]] /\ out' = [k \in Buffer |-> <<>>]
          /\ buf' = buf /\ UNCHANGED <<accepted, trimmed, pushed>>
      BY <1>5 DEF Write, history
    <2>2. ASSUME NEW q \in Buffer PROVE Stored(q)' = Stored(q)
      <3>1. file'[q] = file[q] \o out[q] /\ out'[q] = <<>> /\ buf'[q] = buf[q]
        BY <2>1
      <3>. QED  BY <1>a, <1>b, <3>1 DEF Stored
    <2>. QED  BY <2>1, <2>2, LogsMoved
  <1>6. UNCHANGED <<buffers, history>> \/ Swap \/ Write
        \/ (\E t \in Thread, k \in Buffer : Push(t, k) \/ StopFlushes(t, k))
    BY DEF Next, WriterStep, InCall, User, InitDone, WriterInit, WriterWakes, StartBegins, StartEnds,
           Stop, StopWaited, StopEnds, OtherStopEnds, vars
  <1>. QED  BY <1>1, <1>2, <1>3, <1>4, <1>5, <1>6

(* For any number of threads, buffers and logs: what a buffer accepted is  *)
(* in the file, in the buffer swapped out or in the buffer, once each and  *)
(* in the order it was pushed, but for what was dropped from a full one.   *)
THEOREM LogsStayInOrder == Spec => []LogsInOrder
  <1>1. LogsOK => LogsInOrder
    BY DEF LogsOK
  <1>. QED  BY <1>1, LoggerInitInv, LoggerStepInv, LogsInitOK, LogsStepOK, PTL DEF Spec
=============================================================================
