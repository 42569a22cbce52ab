------------------------------ MODULE LogFile -------------------------------
(***************************************************************************)
(* class LogFile of src/log/log.cc: the logs go to xx.log; when it is too  *)
(* large, or its day is over, it gets the name that was made up when it    *)
(* was created, and a new one is created.  The names are kept in memory    *)
(* and in xx_old.log, and the oldest files are removed.  The process may   *)
(* end, and be started again, between any two changes of the file system.  *)
(* The logger writes a chunk at a time; a chunk is its number.             *)
(***************************************************************************)
EXTENDS Naturals, Sequences, SequencesExt, FiniteSets

CONSTANTS MaxSize,   \* FLG_log_max_file_size, in chunks, not 0
          MaxNum,    \* FLG_log_max_file_num, not 0
          Daily,     \* FLG_log_daily
          DayLength, \* units of time of a day
          EndOfTime, \* bound on the clock
          Chunks,    \* bound on the chunks written
          NoFile

Time == 0..EndOfTime                   \* a file is named by when it was created
Day(t) == t \div DayLength + 1         \* 0: _day before the first open

VARIABLES now,       \* log_time
          cur,       \* xx.log: its chunks
          rotated,   \* the files it was renamed to
          oldLog,    \* xx_old.log
          oldPaths,  \* _old_paths
          day,       \* _day
          isOpen,    \* _file
          checked,   \* _checked
          step,      \* how far open() is
          written,   \* chunks written
          gone,      \* history: chunks in files that were removed
          unlisted,  \* history: the process ended between creating xx.log and saving its name
          forgotten  \* history: it ended between emptying xx_old.log and writing it

disk == <<cur, rotated, oldLog>>
memory == <<oldPaths, day, isOpen, checked, step>>
history == <<written, gone, unlisted, forgotten>>
vars == <<now, disk, memory, history>>

Chunk == 1..Chunks

TypeOK ==
    /\ now \in Time
    /\ cur \in Seq(Chunk) \cup {NoFile}
    /\ rotated \in [Time -> Seq(Chunk) \cup {NoFile}]
    /\ oldLog \in Seq(Time) /\ oldPaths \in Seq(Time)
    /\ day \in {0} \cup {Day(t) : t \in Time}
    /\ isOpen \in BOOLEAN /\ checked \in BOOLEAN
    /\ step \in {"idle", "create", "name", "truncate", "save", "write"}
    /\ written \in 0..Chunks /\ gone \subseteq Chunk
    /\ unlisted \in BOOLEAN /\ forgotten \in BOOLEAN

Init ==
    /\ now = 0
    /\ cur = NoFile /\ rotated = [t \in Time |-> NoFile] /\ oldLog = <<>>
    /\ oldPaths = <<>> /\ day = 0 /\ isOpen = FALSE /\ checked = FALSE /\ step = "idle"
    /\ written = 0 /\ gone = {} /\ unlisted = FALSE /\ forgotten = FALSE

In(f) == IF f = NoFile THEN {} ELSE ToSet(f)

(* The logging thread updates the clock between two writes.                *)
Tick ==
    /\ step = "idle" /\ now < EndOfTime
    /\ now' = now + 1
    /\ UNCHANGED <<disk, memory, history>>

-----------------------------------------------------------------------------
(* LogFile::open, as write() calls it                                      *)

DayOver == Daily /\ day # Day(now)
TooOld(paths) == Len(cur) >= MaxSize \/ (Daily /\ Day(Last(paths)) # Day(now))

(* The clock has moved on since a file was named.                          *)
Open ==
    /\ step = "idle" /\ (~ isOpen \/ DayOver) /\ written < Chunks
    /\ now \notin ToSet(oldPaths) \cup ToSet(oldLog) /\ rotated[now] = NoFile
    /\ day' = IF Daily \/ ~ checked THEN Day(now) ELSE day
    /\ checked' = TRUE
    /\ LET paths == IF checked THEN oldPaths ELSE oldLog
       IN  /\ oldPaths' = paths
           /\ IF cur # NoFile /\ paths # <<>> /\ ~ TooOld(paths)
              THEN /\ isOpen' = TRUE /\ step' = "write"
                   /\ UNCHANGED <<cur, rotated>>
              ELSE /\ isOpen' = FALSE /\ step' = "create"
                   /\ IF cur # NoFile /\ paths # <<>>
                      THEN rotated' = [rotated EXCEPT ![Last(paths)] = cur] /\ cur' = NoFile
                      ELSE UNCHANGED <<cur, rotated>>
    /\ UNCHANGED <<now, oldLog, history>>

Create ==
    /\ step = "create"
    /\ cur' = IF cur = NoFile THEN <<>> ELSE cur
    /\ isOpen' = TRUE /\ step' = "name"
    /\ UNCHANGED <<now, rotated, oldLog, oldPaths, day, checked, history>>

(* The name of the new file is noted, and the oldest files are removed.    *)
Name ==
    /\ step = "name"
    /\ LET paths  == Append(oldPaths, now)
           excess == IF Len(paths) > MaxNum THEN Len(paths) - MaxNum ELSE 0
           oldest == {paths[i] : i \in 1..excess}
       IN  /\ oldPaths' = SubSeq(paths, excess + 1, Len(paths))
           /\ rotated' = [t \in Time |-> IF t \in oldest THEN NoFile ELSE rotated[t]]
           /\ gone' = gone \cup UNION {In(rotated[t]) : t \in oldest}
    /\ step' = "truncate"
    /\ UNCHANGED <<now, cur, oldLog, day, isOpen, checked, written, unlisted, forgotten>>

Truncate ==
    /\ step = "truncate"
    /\ oldLog' = <<>> /\ step' = "save"
    /\ UNCHANGED <<now, cur, rotated, oldPaths, day, isOpen, checked, history>>

(* Slip: the names are saved as they were before the new file.             *)
SaveWithoutNew ==
    /\ step = "save"
    /\ oldLog' = Front(oldPaths) /\ step' = "write"
    /\ UNCHANGED <<now, cur, rotated, oldPaths, day, isOpen, checked, history>>

Save ==
    /\ step = "save"
    /\ oldLog' = oldPaths /\ step' = "write"
    /\ UNCHANGED <<now, cur, rotated, oldPaths, day, isOpen, checked, history>>

(* LogFile::write: the file may have been removed, and its size is -1.     *)
Write ==
    /\ step = "write" \/ (step = "idle" /\ isOpen /\ ~ DayOver)
    /\ written < Chunks
    /\ written' = written + 1
    /\ IF cur = NoFile
       THEN gone' = gone \cup {written'} /\ isOpen' = FALSE /\ UNCHANGED cur
       ELSE cur' = Append(cur, written') /\ isOpen' = (Len(cur') < MaxSize) /\ UNCHANGED gone
    /\ step' = "idle"
    /\ UNCHANGED <<now, rotated, oldLog, oldPaths, day, checked, unlisted, forgotten>>

-----------------------------------------------------------------------------
(* Somebody removes xx.log.                                                *)
Removed ==
    /\ step = "idle" /\ cur # NoFile
    /\ cur' = NoFile /\ gone' = gone \cup In(cur)
    /\ UNCHANGED <<now, rotated, oldLog, memory, written, unlisted, forgotten>>

(* The process ends and is started again.                                  *)
Restart ==
    /\ oldPaths' = <<>> /\ day' = 0 /\ isOpen' = FALSE /\ checked' = FALSE /\ step' = "idle"
    /\ unlisted' = (unlisted \/ step \in {"name", "truncate"})
    /\ forgotten' = (forgotten \/ step = "save")
    /\ UNCHANGED <<now, disk, written, gone>>

Next == Tick \/ Open \/ Create \/ Name \/ Truncate \/ Save \/ Write \/ Removed \/ Restart

Spec == Init /\ [][Next]_vars

-----------------------------------------------------------------------------
Files == {t \in Time : rotated[t] # NoFile}

(* A chunk that was written, and whose file nobody removed, is in a file,  *)
(* also after restarts; only if the process ended after it had created     *)
(* xx.log and before the name for it was saved may the next rotation       *)
(* overwrite a file.                                                       *)
LogsKept ==
    unlisted \/ 1..written = gone \cup In(cur) \cup UNION {In(rotated[t]) : t \in Files}

(* There are at most MaxNum files, each of them on the list the oldest are *)
(* removed from; only if the process ended while xx_old.log was empty are  *)
(* files forgotten, and one too many kept if it ended before.              *)
FilesBounded ==
    unlisted \/ forgotten \/
       /\ step # "name" => Cardinality(Files) + (IF cur = NoFile THEN 0 ELSE 1) <= MaxNum
       /\ Files \subseteq ToSet(oldPaths) \cup ToSet(oldLog)
=============================================================================
