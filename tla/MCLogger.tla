------------------------------ MODULE MCLogger ------------------------------
(***************************************************************************)
(* The threads the library runs for itself, for TLC: a behaviour is one of *)
(* the logger's, of the file it writes to, or of the task scheduler's; the *)
(* other two parts stay as they are when nobody uses them.                 *)
(***************************************************************************)
EXTENDS Logger, Tasked

CONSTANTS MaxSize, MaxNum, Daily, DayLength, EndOfTime, Chunks, NoFile,
          t1, t2, a, b, u, v

VARIABLES now, cur, rotated, oldLog, oldPaths, day, isOpen, checked, step,
          written, gone, unlisted, forgotten,
          part   \* the part this behaviour is about

fileVars == <<now, cur, rotated, oldLog, oldPaths, day, isOpen, checked, step,
              written, gone, unlisted, forgotten>>

File == INSTANCE LogFile

(* At least one file is kept, and no file is not one without chunks.       *)
ASSUME FileAssumption ==
    /\ MaxNum \in Nat \ {0} /\ EndOfTime \in Nat
    /\ NoFile \notin Seq(Nat)

LibInit ==
    /\ part \in {"logger", "file", "tasked"}
    /\ Init \/ part # "logger"
    /\ part # "logger" =>
          /\ state = -2 /\ started = FALSE /\ initDone = TRUE
          /\ buf = [x \in Buffer |-> <<>>] /\ out = buf /\ file = buf
          /\ event = FALSE /\ signaled = FALSE /\ next = 1 /\ writer = "none"
          /\ pc = [t \in Thread |-> <<"run", "none">>]
          /\ pushed = [t \in Thread |-> 0]
          /\ accepted = buf /\ trimmed = {}
    /\ TaskedInit \/ part # "tasked"
    /\ part # "tasked" =>
          /\ ticks = 0 /\ stopFlag = 2
          /\ count = [t \in Task |-> 0] /\ period = count
          /\ list = [t \in Task |-> "none"]
          /\ at = "end" /\ ms = 0 /\ sec = 0 /\ elapsed = 0 /\ wake = FALSE
          /\ stopper = [x \in Stopper |-> "out"]
          /\ dueAt = count /\ ran = {}
    /\ File!Init

LibNext ==
    /\ UNCHANGED part
    /\ \/ part = "logger" /\ Next /\ UNCHANGED <<tdVars, fileVars>>
       \/ part = "tasked" /\ TaskedNext /\ UNCHANGED <<vars, fileVars>>
       \/ part = "file" /\ File!Next /\ UNCHANGED <<vars, tdVars>>

(* The parts that are not used have no step their fairness asks for.       *)
LibSpec ==
    LibInit /\ [][LibNext]_<<vars, tdVars, fileVars, part>> /\ Fairness /\ TaskedFairness

(* The files of the logger are bounded in size and number and hold what    *)
(* they should, over restarts as well: see LogFile.                        *)
FilesKept == File!LogsKept /\ File!FilesBounded

(* The callers of the logger and of the task scheduler, and those that     *)
(* stop them, get back: see Logger and Tasked.                             *)
ThreadsReturn == CallsReturn /\ TaskedStops
=============================================================================
