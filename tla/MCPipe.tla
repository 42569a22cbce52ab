------------------------------- MODULE MCPipe -------------------------------
(***************************************************************************)
(* The two channels for TLC: one on a ring buffer (Pipe) and one on a list *)
(* (PipeCap), which share the state of those that wait.  Both implement    *)
(* the same abstract Channel.                                              *)
(***************************************************************************)
EXTENDS Pipe

CONSTANTS ListCaps,   \* capacities of the channel on a list
          c1, t1

ASSUME MCPipeAssumption == ListCaps \subseteq Nat

VARIABLES list, size,
          part   \* which of the two this behaviour is about

OnList == INSTANCE PipeCap WITH Caps <- ListCaps

(* A channel without a buffer has one reader and one writer; a buffered    *)
(* one is read from and written to by all.                                 *)
MCReaderOf == [n \in Caps |-> IF n = 0 THEN {c1} ELSE Proc]
MCWriterOf == [n \in Caps |-> IF n = 0 THEN {t1} ELSE Proc]

(* Several readers of a channel without a buffer.                          *)
MCManyReaders == [n \in Caps |-> Coroutine]

allVars == <<vars, list, size, part>>

RingSpec ==
    /\ Init /\ list = <<>> /\ size = 0 /\ part = "ring"
    /\ [][Next /\ UNCHANGED <<list, size, part>>]_allVars

BothInit ==
    \/ part = "ring" /\ Init /\ list = <<>> /\ size = 0
    \/ part = "list" /\ OnList!Init /\ ring = <<>> /\ rx = 0 /\ wx = 0 /\ full = FALSE

BothNext ==
    /\ UNCHANGED part
    /\ \/ part = "ring" /\ Next /\ UNCHANGED <<list, size>>
       \/ part = "list" /\ OnList!Next /\ UNCHANGED <<ring, rx, wx, full>>

(* A call that has begun goes on, a scheduler resumes its ready coroutines *)
(* and its timers fire; nobody has to begin a call.  A thread waits anew,  *)
(* with a whole timeout, after a spurious wake-up: at some time they end.  *)
Continue(p) ==
    /\ UNCHANGED part
    /\ \/ part = "ring" /\ Close(p) /\ UNCHANGED <<list, size>>
       \/ part = "list" /\ OnList!Close(p) /\ UNCHANGED <<ring, rx, wx, full>>
       \/ Proceed(p) /\ UNCHANGED <<buffer, list, size>>

Late(p) == Expire(p) /\ UNCHANGED <<buffer, list, size, part>>

BothSpec ==
    /\ BothInit /\ [][BothNext]_allVars
    /\ \A p \in Proc : WF_allVars(Continue(p)) /\ WF_allVars(Late(p))
    /\ \A t \in Thread : <>[][~ SpuriousWakeup(t)]_allVars

-----------------------------------------------------------------------------
(* No element is lost, delivered twice or made up, whoever times out.      *)
NothingLost == IF part = "ring" THEN ElementInOnePlace ELSE OnList!ElementInOnePlace

(* Nobody waits who could go on: see Pipe and PipeCap.                     *)
WaitsNeeded == IF part = "ring" THEN NoNeedlessWait ELSE OnList!NoNeedlessWait

(* Whoever waits is told once, and each waitx is freed by its last user.   *)
WaitersServed == WakeupComing /\ HeapSafe

(* With a timeout every call returns, and once close() has returned no     *)
(* reader of a channel with a buffer waits on.                             *)
ChanCallsReturn ==
    /\ \A p \in Proc : timed /\ Waiting(p) ~> pc[p] = "idle"
    /\ \A p \in Proc : (part = "list" \/ cap > 0) /\ op[p] = "read" /\ closed = 2 ~> op[p] # "read"

(* The channel is a line: elements are read in the order they were         *)
(* written, also when the writers had to wait.                             *)
Abstract ==
    INSTANCE Channel WITH
       Unlimited <- None,
       line <- IF part = "ring" THEN Line ELSE OnList!Line,
       handed <- {heap[mine[p]].buf : p \in {q \in Proc : op[q] = "read" /\ heap[mine[q]].done = 1}},
       fresh <- out,
       taken <- got,
       shut <- closed # 0,
       limit <- IF part = "ring" THEN cap ELSE OnList!Limit

FirstInFirstOut == Abstract!Spec
=============================================================================
