---------------------------- MODULE DurableStore ----------------------------
(***************************************************************************)
(* One backend server's table, its log file and its checkpoint file, under *)
(* the threads that change them and under crashes                          *)
(* (src/backend/kvs.cc: constructor, write_log, dump_checkpoint,           *)
(* replay_log, load_checkpoint; src/backend/backend_server.cc:             *)
(* client_handler_backend_server, execute_command_in_buffer).              *)
(*                                                                         *)
(* A thread takes a timestamp, changes the table, and then calls           *)
(* write_log: three steps between which other threads run.  LOG_MUTEX is   *)
(* held inside write_log only.  write_log appends a record, flushing its   *)
(* size before its text, or, when the log has CheckpointInterval records,  *)
(* truncates the log and dumps the table row by row.  A crash leaves the   *)
(* two files as they are and loses everything else.                        *)
(*                                                                         *)
(* Each access to the unordered_map is one step: the code has no lock for  *)
(* it, and what a torn access does to the process is covered by Crash.     *)
(***************************************************************************)
EXTENDS KvStore

CONSTANTS
    Worker,              \* the threads that serve connections
    Main,                \* the thread that runs the constructor
    NoThread,            \* nobody holds LOG_MUTEX
    Admin,               \* the row "admin@penncloud"
    CheckpointInterval,  \* CHECKPOINT_INTERVAL, 5 in the code
    MaxCrashes           \* bound on the number of crashes

ASSUME DurableAssumption ==
    /\ Main \notin Worker
    /\ NoThread \notin Worker \cup {Main}
    /\ Admin \in User
    /\ CheckpointInterval \in Nat \ {0}
    /\ MaxCrashes \in Nat

Thread == Worker \cup {Main}

(* A log record whose size line was flushed and whose text was not.         *)
NoOp == Command("none", Admin, 0)
Torn == NoOp
LogEntry == Op

VARIABLES
    table,      \* KeyValueStore_obj::table
    logCount,   \* KeyValueStore_obj::log_count
    version,    \* KeyValueStore_obj::version_num
    proc,       \* the process: down, replaying, starting, up, aborted
    cursor,     \* the next record replay_log reads
    thr,        \* per thread: where it is and the command it serves
    mutex,      \* the holder of LOG_MUTEX
    dumped,     \* the rows dump_checkpoint has written so far
    logFile,    \* the records of the log file
    ckpt,       \* the checkpoint file
    now,        \* the clock
    crashes,    \* how often the process has crashed
    \* history: what the properties speak about
    logged,     \* commands whose write_log has returned
    damaged,    \* a crash has interrupted the writing of a file
    dropped,    \* a dump has left out a row whose columns were all erased
    clean,      \* at the last crash no command was between apply and write_log
    before      \* the table at the last crash of a server that was up

memory == <<table, logCount, version, cursor, thr, mutex, dumped>>
files  == <<logFile, ckpt>>
ghosts == <<logged, damaged, dropped, clean, before>>
vars   == <<memory, proc, files, now, crashes, ghosts>>

Idle     == [pc |-> "idle", op |-> NoOp]
Appending == "appending"
Dumping  == {"truncated", "opened", "dumping"}
Writing  == {Appending} \cup Dumping
PC       == {"idle", "stamped", "applied"} \cup Writing
NoFile   == [state |-> "none", version |-> 0, table |-> EmptyTable]

CheckpointFile == [state : {"none", "empty", "partial", "whole"},
                   version : Nat, table : Table]

TypeOK ==
    /\ table \in Table
    /\ logCount \in Nat
    /\ version \in Nat
    /\ proc \in {"down", "replaying", "starting", "up", "aborted"}
    /\ cursor \in Nat \ {0}
    /\ thr \in [Thread -> [pc : PC, op : Op]]
    /\ mutex \in Thread \cup {NoThread}
    /\ dumped \in SUBSET User
    /\ logFile \in Seq(LogEntry)
    /\ ckpt \in CheckpointFile
    /\ now \in Time
    /\ crashes \in 0..MaxCrashes
    /\ logged \in SUBSET Op
    /\ damaged \in BOOLEAN
    /\ dropped \in BOOLEAN
    /\ clean \in BOOLEAN
    /\ before \in Table

Init ==
    /\ table = EmptyTable
    /\ logCount = 0
    /\ version = 0
    /\ proc = "down"
    /\ cursor = 1
    /\ thr = [t \in Thread |-> Idle]
    /\ mutex = NoThread
    /\ dumped = {}
    /\ logFile = <<>>
    /\ ckpt = NoFile
    /\ now = 0
    /\ crashes = 0
    /\ logged = {}
    /\ damaged = FALSE
    /\ dropped = FALSE
    /\ clean = TRUE
    /\ before = EmptyTable

-----------------------------------------------------------------------------
(* Serving a command.                                                       *)

At(t, pc) == thr[t].pc = pc
Step(t, pc) == thr' = [thr EXCEPT ![t].pc = pc]
Running(t) == IF t = Main THEN proc = "starting" ELSE proc = "up"

(* get_timestamp_sep, before the command is looked at.                      *)
Request(t) ==
    /\ proc = "up"
    /\ At(t, "idle")
    /\ now < MaxTime
    /\ \E op \in Requests(now + 1) :
          thr' = [thr EXCEPT ![t] = [pc |-> "stamped", op |-> op]]
    /\ now' = now + 1
    /\ UNCHANGED <<table, logCount, version, cursor, mutex, dumped, proc, files,
                   crashes, ghosts>>

(* The table operation of the command; a failed one is not logged.          *)
Apply(t) ==
    /\ proc = "up"
    /\ At(t, "stamped")
    /\ table' = Effect(table, thr[t].op)
    /\ IF Recorded(table, thr[t].op)
       THEN Step(t, "applied")
       ELSE thr' = [thr EXCEPT ![t] = Idle]
    /\ UNCHANGED <<logCount, version, cursor, mutex, dumped, proc, files, now,
                   crashes, ghosts>>

(* Mutation of Finish: a return without the unlock.                         *)
FinishLocked(t) ==
    /\ thr' = [thr EXCEPT ![t] = Idle]
    /\ mutex' = mutex
    /\ logged' = logged \cup {thr[t].op}

(* write_log returns: the mutex is released and the reply is sent.          *)
Finish(t) ==
    /\ thr' = [thr EXCEPT ![t] = Idle]
    /\ mutex' = NoThread
    /\ logged' = logged \cup {thr[t].op}

(* Mutation of BeginAppend: no lock.                                        *)
BeginAppendUnlocked(t) ==
    /\ Running(t)
    /\ At(t, "applied")
    /\ logCount < CheckpointInterval
    /\ mutex' = t
    /\ logFile' = Append(logFile, Torn)
    /\ Step(t, Appending)
    /\ UNCHANGED <<table, logCount, version, cursor, dumped, proc, ckpt, now,
                   crashes, ghosts>>

(* write_log, short log: the size line is flushed by endl ...               *)
BeginAppend(t) ==
    /\ Running(t)
    /\ At(t, "applied")
    /\ mutex = NoThread
    /\ logCount < CheckpointInterval
    /\ mutex' = t
    /\ logFile' = Append(logFile, Torn)
    /\ Step(t, Appending)
    /\ UNCHANGED <<table, logCount, version, cursor, dumped, proc, ckpt, now,
                   crashes, ghosts>>

(* ... and the text by close.                                               *)
EndAppend(t) ==
    /\ At(t, Appending)
    /\ logFile' = [logFile EXCEPT ![Len(logFile)] = thr[t].op]
    /\ logCount' = logCount + 1
    /\ Finish(t)
    /\ UNCHANGED <<table, version, cursor, dumped, proc, ckpt, now, crashes,
                   damaged, dropped, clean, before>>

(* write_log, full log: the log is truncated; the command that got here is  *)
(* not appended to it.                                                      *)
TruncateLog(t) ==
    /\ Running(t)
    /\ At(t, "applied")
    /\ mutex = NoThread
    /\ logCount >= CheckpointInterval
    /\ mutex' = t
    /\ logFile' = <<>>
    /\ logCount' = 0
    /\ version' = version + 1
    /\ Step(t, "truncated")
    /\ UNCHANGED <<table, cursor, dumped, proc, ckpt, now, crashes, ghosts>>

(* dump_checkpoint opens the file, which empties it.                        *)
OpenCheckpoint(t) ==
    /\ At(t, "truncated")
    /\ ckpt' = [NoFile EXCEPT !.state = "empty"]
    /\ Step(t, "opened")
    /\ UNCHANGED <<table, logCount, version, cursor, mutex, dumped, proc, logFile,
                   now, crashes, ghosts>>

DumpVersion(t) ==
    /\ At(t, "opened")
    /\ ckpt' = [NoFile EXCEPT !.state = "partial", !.version = version]
    /\ dumped' = {}
    /\ Step(t, "dumping")
    /\ UNCHANGED <<table, logCount, version, cursor, mutex, proc, logFile, now,
                   crashes, ghosts>>

RowCopied(u) ==
    [c \in Place |-> IF c[1] = u THEN Saved(table)[c] ELSE ckpt.table[c]]

DumpRow(t) ==
    /\ At(t, "dumping")
    /\ \E u \in User \ dumped :
          /\ ckpt' = [ckpt EXCEPT !.table = RowCopied(u)]
          /\ dumped' = dumped \cup {u}
          /\ dropped' = (dropped \/ Emptied(table, u))
    /\ UNCHANGED <<table, logCount, version, cursor, thr, mutex, proc, logFile, now,
                   crashes, logged, damaged, clean, before>>

(* Mutations of CloseCheckpoint: a dump that stops before the last row; one *)
(* that returns before the file is closed.                                  *)
CloseCheckpointEarly(t) ==
    /\ At(t, "dumping")
    /\ ckpt' = [ckpt EXCEPT !.state = "whole"]
    /\ dumped' = {}
    /\ Finish(t)
    /\ UNCHANGED <<table, logCount, version, cursor, proc, logFile, now, crashes,
                   damaged, dropped, clean, before>>

CloseCheckpointUnflushed(t) ==
    /\ At(t, "dumping")
    /\ dumped = User
    /\ dumped' = {}
    /\ Finish(t)
    /\ UNCHANGED <<table, logCount, version, cursor, proc, logFile, ckpt, now, crashes,
                   damaged, dropped, clean, before>>

CloseCheckpoint(t) ==
    /\ At(t, "dumping")
    /\ dumped = User
    /\ ckpt' = [ckpt EXCEPT !.state = "whole"]
    /\ dumped' = {}
    /\ Finish(t)
    /\ UNCHANGED <<table, logCount, version, cursor, proc, logFile, now, crashes,
                   damaged, dropped, clean, before>>

-----------------------------------------------------------------------------
(* A crash and the constructor that runs when the process is started again. *)

Crash ==
    /\ proc \in {"replaying", "starting", "up"}
    /\ crashes < MaxCrashes
    /\ crashes' = crashes + 1
    /\ proc' = "down"
    /\ table' = EmptyTable
    /\ logCount' = 0
    /\ version' = 0
    /\ cursor' = 1
    /\ thr' = [t \in Thread |-> Idle]
    /\ mutex' = NoThread
    /\ dumped' = {}
    /\ damaged' = (damaged \/ \E t \in Thread : thr[t].pc \in Writing)
    /\ before' = IF proc = "replaying" THEN before ELSE table
    /\ clean' = IF proc = "replaying" THEN clean
                ELSE \A t \in Thread : thr[t].pc \in {"idle", "stamped"}
    /\ UNCHANGED <<files, now, logged, dropped>>

(* Mutation of LoadCheckpoint: a missing file is not a fresh start.         *)
LoadCheckpointMissing ==
    /\ proc = "down"
    /\ ckpt.state = "whole"
    /\ proc' = "replaying"
    /\ table' = ckpt.table
    /\ version' = ckpt.version
    /\ UNCHANGED <<logCount, cursor, thr, mutex, dumped, files, now, crashes, ghosts>>

(* load_checkpoint.  An empty file makes stoul throw, and so may one that   *)
(* ends in the middle of a row.                                             *)
LoadCheckpoint ==
    /\ proc = "down"
    /\ \/ /\ ckpt.state \in {"empty", "partial"}
          /\ proc' = "aborted"
          /\ UNCHANGED <<table, version>>
       \/ /\ ckpt.state # "empty"
          /\ proc' = "replaying"
          /\ table' = ckpt.table
          /\ version' = ckpt.version
    /\ UNCHANGED <<logCount, cursor, thr, mutex, dumped, files, now, crashes, ghosts>>

Replaying == proc = "replaying" /\ cursor <= Len(logFile)
Replayed  == proc = "replaying" /\ cursor > Len(logFile)

(* Mutation of ReplayRecord: replayed records are not counted.              *)
ReplayRecordUncounted ==
    /\ Replaying
    /\ logFile[cursor] # Torn
    /\ table' = ReplayEffect(table, logFile[cursor])
    /\ cursor' = cursor + 1
    /\ UNCHANGED <<logCount, version, thr, mutex, dumped, proc, files, now, crashes,
                   ghosts>>

(* replay_log, one record.                                                  *)
ReplayRecord ==
    /\ Replaying
    /\ logFile[cursor] # Torn
    /\ table' = ReplayEffect(table, logFile[cursor])
    /\ logCount' = logCount + 1
    /\ cursor' = cursor + 1
    /\ UNCHANGED <<version, thr, mutex, dumped, proc, files, now, crashes, ghosts>>

(* A size line without its text.  At the end of the file the buffer is left *)
(* uninitialised: it holds nothing that is a command, or still the previous *)
(* record.  Before other records the read takes their bytes: the rest of    *)
(* the file is swallowed, or the remainder is no number and stoul throws.   *)
ReplayTorn ==
    /\ Replaying
    /\ logFile[cursor] = Torn
    /\ \/ /\ table' = table
          /\ cursor' = Len(logFile) + 1
          /\ logCount' = logCount + 1
          /\ UNCHANGED proc
       \/ /\ cursor = Len(logFile)
          /\ cursor > 1
          /\ table' = ReplayEffect(table, logFile[cursor - 1])
          /\ cursor' = cursor + 1
          /\ logCount' = logCount + 1
          /\ UNCHANGED proc
       \/ /\ cursor < Len(logFile)
          /\ proc' = "aborted"
          /\ UNCHANGED <<table, cursor, logCount>>
    /\ UNCHANGED <<version, thr, mutex, dumped, files, now, crashes, ghosts>>

(* The constructor registers the administrator with time 0 when the row is  *)
(* missing, and logs it.                                                    *)
AdminOp == RegisterOp(Admin, Root, 0)

SignUpAdmin ==
    /\ Replayed
    /\ proc' = "starting"
    /\ IF HasUser(table, Admin)
       THEN UNCHANGED <<table, thr>>
       ELSE /\ table' = Effect(table, AdminOp)
            /\ thr' = [thr EXCEPT ![Main] = [pc |-> "applied", op |-> AdminOp]]
    /\ UNCHANGED <<logCount, version, cursor, mutex, dumped, files, now, crashes,
                   ghosts>>

(* run_backend_server starts to accept connections.                         *)
Listen ==
    /\ proc = "starting"
    /\ At(Main, "idle")
    /\ proc' = "up"
    /\ UNCHANGED <<memory, files, now, crashes, ghosts>>

-----------------------------------------------------------------------------
WriteLog(t) ==
    \/ BeginAppend(t)
    \/ EndAppend(t)
    \/ TruncateLog(t)
    \/ OpenCheckpoint(t)
    \/ DumpVersion(t)
    \/ DumpRow(t)
    \/ CloseCheckpoint(t)

Start == LoadCheckpoint \/ ReplayRecord \/ ReplayTorn \/ SignUpAdmin \/ Listen

Next ==
    \/ \E t \in Worker : Request(t) \/ Apply(t)
    \/ \E t \in Thread : WriteLog(t)
    \/ Crash
    \/ Start

Spec == Init /\ [][Next]_vars

(* The scheduler runs every thread; whoever supervises the process starts   *)
(* it again.  Nothing obliges clients to send or the process to crash.      *)
FairSpec ==
    /\ Spec
    /\ WF_vars(Start)
    /\ \A t \in Worker : WF_vars(Apply(t))
    /\ \A t \in Thread : WF_vars(WriteLog(t))
-----------------------------------------------------------------------------
(* Properties.                                                              *)

(* A put that was acknowledged is never lost: in every later life of the    *)
(* server its cell holds it or a later write, whatever the threads were     *)
(* doing when the server crashed, unless a crash cut a file in the middle   *)
(* of its writing (write_log, dump_checkpoint, replay_log).                 *)
Durable ==
    proc = "up" /\ ~damaged =>
        \A op \in logged : Lasting(op) => Reflects(table, op)

(* The same without the exception: a server that starts from its log and its *)
(* checkpoint has every acknowledged put, whenever it crashed               *)
(* (run_backend_server, write_log).                                         *)
DurableAtAnyCrash ==
    proc = "up" => \A op \in logged : Lasting(op) => Reflects(table, op)

(* The inductive strengthening of Durable.                                  *)
Serving   == proc \in {"up", "starting"}
InLog(op) == \E i \in DOMAIN logFile : logFile[i] = op

\* Only the holder of LOG_MUTEX is inside write_log; nobody is anywhere
\* while the process is down or in its constructor.
ThreadInv ==
    /\ \A t \in Thread : thr[t].pc \in Writing <=> mutex = t
    /\ ~Serving => \A t \in Thread : thr[t] = Idle
    /\ \A t \in Thread : Sane(thr[t].op)
    /\ \A t \in Thread : thr[t].pc # "idle" => thr[t].op.kind # "none"

\* The log holds sane commands, and a torn record only where one is being
\* appended.
LogInv ==
    /\ \A i \in DOMAIN logFile : Sane(logFile[i])
    /\ \A t \in Thread : At(t, Appending) => Len(logFile) > 0 /\ logFile[Len(logFile)] = Torn
    /\ ~damaged => \A i \in DOMAIN logFile : logFile[i] = Torn =>
          i = Len(logFile) /\ \E t \in Thread : At(t, Appending)

\* What is acknowledged, and what a thread has applied, is in memory ...
MemoryInv ==
    /\ Serving /\ ~damaged => \A op \in logged : Lasting(op) => Reflects(table, op)
    /\ \A t \in Thread : thr[t].pc \notin {"idle", "stamped"} /\ Lasting(thr[t].op) =>
          Reflects(table, thr[t].op)

\* ... and on disk, but for the time it takes to replace the log by a
\* checkpoint; then it is in the rows dumped so far.
DiskInv ==
    /\ ~damaged /\ (\A t \in Thread : thr[t].pc \notin Dumping) =>
          \A op \in logged : Lasting(op) => Reflects(ckpt.table, op) \/ InLog(op)
    /\ \A t \in Thread : At(t, "dumping") /\ ~damaged =>
          \A op \in logged \cup {thr[t].op} :
             Lasting(op) /\ op.user \in dumped => Reflects(ckpt.table, op)

\* While the log is replayed, what is not yet in memory is still to come.
ReplayInv ==
    /\ proc = "down" => cursor = 1
    /\ proc = "replaying" /\ ~damaged =>
       \A op \in logged : Lasting(op) =>
          \/ Reflects(table, op)
          \/ \E i \in DOMAIN logFile : i >= cursor /\ logFile[i] = op

\* A checkpoint file is unfinished while it is written, or a crash left it so.
FileInv ==
    /\ proc = "aborted" => damaged
    /\ ckpt.state \in {"empty", "partial"} /\ ~damaged =>
          \E t \in Thread : thr[t].pc \in Dumping

\* log_count is the number of records, and the log never outgrows a
\* checkpoint; but what stands behind the text that a crash cut off is lost to
\* replay_log, which counts all of it as one record.
Appended == Len(logFile) - (IF \E t \in Thread : At(t, Appending) THEN 1 ELSE 0)

CounterInv ==
    /\ logCount <= CheckpointInterval
    /\ \A t \in Thread : At(t, Appending) => logCount < CheckpointInterval
    /\ \A i \in DOMAIN logFile : i > CheckpointInterval =>
          \E j \in 1..CheckpointInterval : logFile[j] = Torn
    /\ proc = "down" => logCount = 0
    /\ Replaying => logCount = cursor - 1 /\ \A j \in 1..logCount : logFile[j] # Torn
    /\ Serving \/ Replayed =>
          \/ logCount = Appended
          \/ \E j \in 1..logCount : j <= Appended /\ logFile[j] = Torn

DurableInv ==
    /\ TypeOK
    /\ ThreadInv
    /\ LogInv
    /\ MemoryInv
    /\ DiskInv
    /\ ReplayInv
    /\ FileInv
    /\ CounterInv

(* Nothing was lost on the way to the files: no crash cut one of them, and   *)
(* no dump left out an emptied row.                                         *)
Intact == ~damaged /\ ~dropped

(* After the log is replayed the table is the one the server had when it    *)
(* crashed, the rows without columns included, provided that no command was *)
(* between its table operation and the end of its write_log at that moment  *)
(* and that the files are intact.                                           *)
RecoveryExact == Replayed /\ clean /\ Intact => table = before

(* A mail whose sender was told that it is stored is in the recipient's     *)
(* mailbox in every later life of the server, unless its deletion was       *)
(* logged or is under way (kvs_send_mail, kvs_delete_mail), while the files *)
(* are intact.                                                              *)
Unmailed(op) ==
    \E d \in logged \cup {thr[t].op : t \in Worker} :
        d.kind = "deleteemail" /\ d.user = op.user /\ d.id = op.time

MailDurable ==
    proc = "up" /\ Intact =>
        \A op \in logged :
            op.kind = "putemail" /\ ~Unmailed(op) => HasMail(table, op.user, op.time)

(* Why both hold for one thread and without "logout".  What a restart makes *)
(* of the two files ...                                                     *)
Rebuild(base, log) ==
    LET run[i \in 0..Len(log)] ==
            IF i = 0 THEN base ELSE ReplayEffect(run[i - 1], log[i])
    IN  run[Len(log)]

OnDisk == Rebuild(ckpt.table, logFile)

\* ... is the table but for the command that is not logged yet, and one whose
\* times do not lie ahead and whose mails are all in their mailboxes: a command
\* that fails, and is not logged, changes no such table.
Coherent(tab, n) ==
    /\ \A c \in Cell : tab[c].time <= n
    /\ \A u \in User, id \in Time : Present(tab, <<u, MailCol(id)>>) => HasMail(tab, u, id)

Simple(op) == op.kind # "logout" /\ Harmless(op)

SoleInv ==
    /\ \A s, t \in Thread : thr[s].pc # "idle" /\ thr[t].pc # "idle" => s = t
    /\ proc = "up" => At(Main, "idle")
    /\ proc # "up" => \A t \in Worker : At(t, "idle")
    /\ \A t \in Thread : Simple(thr[t].op) /\ thr[t].op.time <= now
    /\ \A t \in Thread : At(t, "stamped") => thr[t].op.time = now
    /\ \A t \in Thread : At(t, "idle") => thr[t] = Idle

TableInv ==
    Intact =>
        /\ Serving => Coherent(table, now)
        /\ Serving /\ (\A t \in Thread : thr[t].pc \in {"idle", "stamped"}) => table = OnDisk
        /\ \A t \in Thread : thr[t].pc \in {"applied", Appending} =>
              table = Effect(OnDisk, thr[t].op)
        /\ (\A t \in Thread : thr[t].pc \notin Dumping) => Coherent(OnDisk, now)
        /\ \A t \in Thread : thr[t].pc \in Dumping => logFile = <<>>
        /\ \A t \in Thread : At(t, "dumping") =>
              \A c \in Place : c[1] \in dumped => ckpt.table[c] = table[c]

RecoveryInv ==
    Intact =>
        /\ proc \in {"down", "replaying"} /\ clean => OnDisk = before
        /\ proc = "replaying" =>
              /\ cursor <= Len(logFile) + 1
              /\ table = Rebuild(ckpt.table, SubSeq(logFile, 1, cursor - 1))

Deletes(d, op) == d.kind = "deleteemail" /\ d.user = op.user /\ d.id = op.time

\* The mails among the commands L that no command of D deletes.
Mails(L, D) == {op \in L : op.kind = "putemail" /\ \A d \in D : ~Deletes(d, op)}

UnderWay == {thr[t].op : t \in Thread}

MailInv ==
    Intact =>
        /\ (\A t \in Thread : thr[t].pc \notin Dumping) =>
              \A op \in Mails(logged, logged) : HasMail(OnDisk, op.user, op.time)
        /\ Serving =>
              \A op \in Mails(logged, logged \cup UnderWay) :
                 HasMail(table, op.user, op.time)
        /\ \A t \in Thread :
              thr[t].pc \notin {"idle", "stamped"} /\ thr[t].op.kind = "putemail" =>
                 HasMail(table, thr[t].op.user, thr[t].op.time)

ExactInv == DurableInv /\ SoleInv /\ TableInv /\ RecoveryInv /\ MailInv

(* A restart fails only when a crash cut a file while it was written.       *)
StartsAgain == proc = "aborted" => damaged

(* Between two write_logs log_count, which decides about checkpoints and    *)
(* which a replica compares with its own, is the number of records in the   *)
(* log file, at most CHECKPOINT_INTERVAL; also right after a recovery.      *)
CounterMatchesLog ==
    proc = "up" /\ mutex = NoThread =>
        /\ logCount = Len(logFile) \/ damaged
        /\ logCount <= CheckpointInterval

(* A command that changed the table gets through write_log: no thread waits *)
(* for LOG_MUTEX for ever (a crash ends the thread).                        *)
LogProgress == \A t \in Worker : At(t, "applied") ~> At(t, "idle")

(* A server that is started again comes up, or gives up at once.            *)
ComesUp == proc = "down" ~> proc \in {"up", "aborted"}
=============================================================================
