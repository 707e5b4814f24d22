--------------------------------- MODULE LogFile --------------------------------
(***************************************************************************)
(* Logger and FileLogger of QtWebApp: messages of several threads on their *)
(* way into a file with backups, the timers of the main thread that flush, *)
(* rotate and reopen it, and crashes between any two steps.                *)
(*                                                                         *)
(* Logger::msgHandler serialises its callers by a recursive mutex, and     *)
(* log() by another, which the timers take as well.  What happens under    *)
(* that one is a single step, except for the rotation, where a crash may   *)
(* leave the backups half moved, and for opening the file, which may warn. *)
(***************************************************************************)
EXTENDS Integers, Sequences, SequencesExt, FiniteSets

CONSTANTS
    Writer,             \* threads that log
    main,               \* the thread of the timers
    Name,               \* file names the settings may have
    Level,              \* levels of messages
    minLevel, bufferSize, maxFileSize, maxBackups,
    MayFail,            \* can writing and opening fail?
    MaxMessages, MaxCrashes, MaxRenames,    \* bounds
    Nobody

ASSUME LogAssumption ==
    /\ {minLevel, bufferSize, maxFileSize, maxBackups} \subseteq Nat
    /\ {MaxMessages, MaxCrashes, MaxRenames} \subseteq Nat
    /\ Level \subseteq Nat
    /\ main \notin Writer /\ MayFail \in BOOLEAN
    /\ Nobody \notin Writer \cup {main}

Logging == Writer \cup {main}

VARIABLES
    handlerMutex,   \* owner of recursiveMutex, or Nobody
    logMutex,       \* owner of Logger::mutex, or Nobody
    where,          \* what a thread does
    message,        \* the message it logs
    buffers,        \* its buffered messages
    fileName,
    file,           \* is the log file open?
    unflushed,      \* messages written to it, but not to the disk
    disk,           \* name |-> number of the file |-> its messages; 0 is the log
    console,        \* messages on stderr
    moving,         \* the backup that rotate() moves next
    logged,         \* a ghost: messages whose log() has returned
    removed,        \* a ghost: messages in backups that were removed
    crashes, renames

locks == <<handlerMutex, logMutex>>
ghosts == <<logged, removed>>
bounds == <<crashes, renames>>
logVars == <<locks, where, message, buffers, fileName, file, unflushed, disk, console,
             moving, ghosts, bounds>>

Critical == 2
Fatal == 3
NoMessage == [by |-> Nobody, number |-> 0, level |-> 0]
Warning == [by |-> main, number |-> 0, level |-> 1]

Goes(t, to) == where' = [where EXCEPT ![t] = to]

(***************************************************************************)
(* msgHandler and log.                                                     *)
(***************************************************************************)
NumberOf(t) == 1 + Cardinality({m \in logged : m.by = t})

(* qDebug() and the like: msgHandler, up to the lock of log().             *)
msgHandler(t) ==
    /\ where[t] = "idle" /\ handlerMutex = Nobody
    /\ Cardinality(logged) < MaxMessages
    /\ \E l \in Level :
        message' = [message EXCEPT ![t] = [by |-> t, number |-> NumberOf(t), level |-> l]]
    /\ handlerMutex' = t
    /\ Goes(t, "logs")
    /\ UNCHANGED <<logMutex, buffers, fileName, file, unflushed, disk, console, moving,
                   ghosts, bounds>>

BufferWith(t) ==
    LET b == Append(buffers[t], message[t])
    IN  IF Len(b) > bufferSize THEN Tail(b) ELSE b

(* The messages that log() writes.                                         *)
Due(t) ==
    IF message[t].level < minLevel THEN <<>>
    ELSE IF bufferSize > 0 THEN BufferWith(t) ELSE <<message[t]>>

(* faulty variant: nothing is flushed at once                              *)
FlushesNothing(s) == FALSE

(* FileLogger::write of the messages of s, the last of them flushed if it  *)
(* is critical; if an error shows, the file is closed and they go to       *)
(* stderr.                                                                 *)
Flushes(s) == \E i \in 1 .. Len(s) : s[i].level >= Critical

OnDisk(s) == [disk EXCEPT ![fileName][0] = @ \o s]

WritesOut(s) ==
    \/ /\ file
       /\ IF Flushes(s)
          THEN disk' = OnDisk(unflushed \o s) /\ unflushed' = <<>>
          ELSE unflushed' = unflushed \o s /\ UNCHANGED disk
       /\ UNCHANGED <<file, console>>
    \/ /\ ~ file \/ (MayFail /\ s # <<>>)
       /\ file' = FALSE
       /\ unflushed' = <<>>
       /\ console' = console \cup Range(s)
       /\ UNCHANGED disk

log(t) ==
    /\ where[t] = "logs" /\ logMutex = Nobody
    /\ WritesOut(Due(t))
    /\ buffers' = [buffers EXCEPT ![t] =
            IF bufferSize = 0 \/ message[t].level >= minLevel THEN <<>> ELSE BufferWith(t)]
    /\ logged' = logged \cup {message[t]}
    /\ handlerMutex' = IF message[t].level = Fatal THEN t ELSE Nobody
    /\ message' = [message EXCEPT ![t] = NoMessage]
    /\ Goes(t, IF message[t].level = Fatal THEN "aborts" ELSE "idle")
    /\ UNCHANGED <<logMutex, fileName, moving, removed, bounds>>

(***************************************************************************)
(* FileLogger: open, close, rotate.                                        *)
(***************************************************************************)
WithLog(f) == [k \in DOMAIN f \cup {0} |-> IF k \in DOMAIN f THEN f[k] ELSE <<>>]
Opened(n, d) == [d EXCEPT ![n] = WithLog(@)]

(* A failure is reported by qWarning, with Logger::mutex held.             *)
open ==
    /\ where[main] = "opens"
    /\ \/ /\ disk' = Opened(fileName, disk)
          /\ file' = TRUE
          /\ logMutex' = Nobody
          /\ Goes(main, "idle")
       \/ /\ MayFail
          /\ Goes(main, "warns")
          /\ UNCHANGED <<disk, file, logMutex>>
    /\ UNCHANGED <<handlerMutex, message, buffers, fileName, unflushed, console, moving,
                   ghosts, bounds>>

qWarning ==
    /\ where[main] = "warns" /\ handlerMutex = Nobody
    /\ handlerMutex' = main
    /\ message' = [message EXCEPT ![main] = Warning]
    /\ Goes(main, "logs")
    /\ UNCHANGED <<logMutex, buffers, fileName, file, unflushed, disk, console, moving,
                   ghosts, bounds>>

Backups == DOMAIN disk[fileName] \ {0}
Count == CHOOSE c \in 0 .. Cardinality(Backups) :
            1 .. c \subseteq Backups /\ c + 1 \notin Backups

(* QFile::rename fails if the new name exists.                             *)
Renamed(d, i, j) ==
    IF i \notin DOMAIN d \/ j \in DOMAIN d THEN d
    ELSE [k \in (DOMAIN d \ {i}) \cup {j} |-> IF k = j THEN d[i] ELSE d[k]]

(* faulty variant: one backup too many is kept                             *)
TooManyBackupsButOne == maxBackups > 0 /\ moving > maxBackups

TooManyBackups == maxBackups > 0 /\ moving >= maxBackups

RemoveBackup ==
    /\ where[main] = "removes" /\ TooManyBackups
    /\ disk' = [disk EXCEPT ![fileName] =
                    [k \in DOMAIN @ \ {moving} |-> @[k]]]
    /\ removed' = removed \cup Range(disk[fileName][moving])
    /\ moving' = moving - 1
    /\ UNCHANGED <<locks, where, message, buffers, fileName, file, unflushed, console,
                   logged, bounds>>

BeginMoving ==
    /\ where[main] = "removes" /\ ~ TooManyBackups
    /\ Goes(main, "moves")
    /\ UNCHANGED <<locks, message, buffers, fileName, file, unflushed, disk, console,
                   moving, ghosts, bounds>>

(* One rename; the last one is that of the log itself.                     *)
MoveFile ==
    /\ where[main] = "moves"
    /\ disk' = [disk EXCEPT ![fileName] = Renamed(@, moving, moving + 1)]
    /\ moving' = IF moving = 0 THEN 0 ELSE moving - 1
    /\ Goes(main, IF moving = 0 THEN "opens" ELSE "moves")
    /\ UNCHANGED <<locks, message, buffers, fileName, file, unflushed, console, ghosts,
                   bounds>>

(***************************************************************************)
(* timerEvent: the flush timer looks at `file` before it takes the mutex.  *)
(***************************************************************************)
flushTimer ==
    /\ where[main] = "idle" /\ file
    /\ Goes(main, "flushes")
    /\ UNCHANGED <<locks, message, buffers, fileName, file, unflushed, disk, console,
                   moving, ghosts, bounds>>

Flush ==
    /\ where[main] = "flushes" /\ logMutex = Nobody /\ file
    /\ disk' = OnDisk(unflushed)
    /\ unflushed' = <<>>
    /\ IF maxFileSize > 0 /\ Len(disk'[fileName][0]) >= maxFileSize
       THEN /\ logMutex' = main
            /\ file' = FALSE
            /\ moving' = Count
            /\ Goes(main, "removes")
       ELSE Goes(main, "idle") /\ UNCHANGED <<logMutex, file, moving>>
    /\ UNCHANGED <<handlerMutex, message, buffers, fileName, console, ghosts, bounds>>

(* refreshSettings: closing the file flushes it.                           *)
refreshSettings ==
    /\ where[main] = "idle" /\ logMutex = Nobody
    /\ renames < MaxRenames
    /\ renames' = renames + 1
    /\ \E n \in Name \ {fileName} : fileName' = n
    /\ disk' = IF file THEN OnDisk(unflushed) ELSE disk
    /\ unflushed' = <<>>
    /\ file' = FALSE
    /\ logMutex' = main
    /\ Goes(main, "opens")
    /\ UNCHANGED <<handlerMutex, message, buffers, console, moving, ghosts, crashes>>

(***************************************************************************)
(* The end of the process at any moment, by abort() after a fatal message, *)
(* or when a flush finds the file closed by another thread meanwhile; and  *)
(* its restart: the constructor of FileLogger opens the file before the    *)
(* logger is installed as the message handler.                             *)
(***************************************************************************)
Crash ==
    /\ crashes < MaxCrashes
    /\ crashes' = crashes + 1
    /\ handlerMutex' = Nobody /\ logMutex' = Nobody
    /\ where' = [t \in Logging |-> "idle"]
    /\ message' = [t \in Logging |-> NoMessage]
    /\ buffers' = [t \in Logging |-> <<>>]
    /\ unflushed' = <<>>
    /\ moving' = 0
    /\ \/ file' = TRUE /\ disk' = Opened(fileName, disk)
       \/ MayFail /\ file' = FALSE /\ UNCHANGED disk
    /\ UNCHANGED <<fileName, console, ghosts, renames>>

LogInit ==
    /\ handlerMutex = Nobody /\ logMutex = Nobody
    /\ where = [t \in Logging |-> "idle"]
    /\ message = [t \in Logging |-> NoMessage]
    /\ buffers = [t \in Logging |-> <<>>]
    /\ fileName \in Name
    /\ file = TRUE
    /\ unflushed = <<>>
    /\ disk = Opened(fileName, [n \in Name |-> <<>>])
    /\ console = {}
    /\ moving = 0
    /\ logged = {} /\ removed = {}
    /\ crashes = 0 /\ renames = 0

LogNext ==
    \/ \E t \in Writer : msgHandler(t)
    \/ \E t \in Logging : log(t)
    \/ open \/ qWarning
    \/ RemoveBackup \/ BeginMoving \/ MoveFile
    \/ flushTimer \/ Flush \/ refreshSettings
    \/ Crash

LogSpec == LogInit /\ [][LogNext]_logVars

--------------------------------------------------------------------------------

(* In a log, the messages of every thread come in the order of their       *)
(* numbers and none comes twice.                                           *)
InOrder(s) ==
    \A i, j \in DOMAIN s : i < j /\ s[i].by = s[j].by => s[i].number < s[j].number

Precedes(s, r) ==
    \A i \in DOMAIN s, j \in DOMAIN r : s[i].by = r[j].by => s[i].number < r[j].number

(* f is the log and its backups, which are the older the higher they count.*)
IsHistory(f) ==
    /\ \A k \in DOMAIN f : InOrder(f[k])
    /\ \A k, l \in DOMAIN f : l < k => Precedes(f[k], f[l])

(* The backups, the log and what is not flushed are a history: read from   *)
(* the oldest backup on, the messages of every thread come in the order in *)
(* which it logged them and none comes twice, and there are no more backups*)
(* than configured, whatever step of a rotation a crash interrupted        *)
(* (rotate).                                                               *)
LogIsInOrder ==
    /\ \A n \in Name :
        /\ IsHistory(disk[n])
        /\ maxBackups > 0 => Cardinality(DOMAIN disk[n] \ {0}) <= maxBackups
    /\ InOrder(unflushed)
    /\ \A k \in DOMAIN disk[fileName] : Precedes(disk[fileName][k], unflushed)

(* A critical message of a level that is printed, once log() has returned, *)
(* survives a crash: it is in the log, in a backup or on stderr, unless it *)
(* went with a backup that exceeded maxBackups ("to ensure that no         *)
(* important message gets lost", filelogger.cpp:87).                       *)
CriticalAreKept ==
    \A m \in logged : m.level >= Critical /\ m.level >= minLevel =>
        \/ m \in console \cup removed
        \/ \E n \in Name : \E k \in DOMAIN disk[n] : m \in Range(disk[n][k])

================================================================================
