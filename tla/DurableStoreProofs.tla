------------------------- MODULE DurableStoreProofs -------------------------
(* Durability of acknowledged puts, the files a restart finds, the counter  *)
(* of the log's records and what recovery rebuilds, for any number of rows, *)
(* threads, commands and crashes.                                           *)
EXTENDS DurableStore, KvStoreProofs

-----------------------------------------------------------------------------
(* Type correctness.                                                        *)

LEMMA NoOpType == NoOp \in Op /\ Sane(NoOp) /\ NoOp.kind = "none"
BY ColumnTypes, KvAssumption, DurableAssumption
   DEF NoOp, Command, Op, Kind, Sane, Time

LEMMA AdminOpType == AdminOp \in Op /\ Sane(AdminOp) /\ AdminOp.kind = "register"
BY ColumnTypes, KvAssumption, DurableAssumption
   DEF AdminOp, RegisterOp, Command, Op, Kind, Sane, Time

LEMMA NoFileType == NoFile \in CheckpointFile
BY EmptyTableType DEF NoFile, CheckpointFile

LEMMA RowCopiedType ==
    ASSUME TypeOK, NEW u \in User
    PROVE  RowCopied(u) \in Table
BY SavedFacts DEF RowCopied, TypeOK, Table, CheckpointFile

LEMMA IdleType == Idle \in [pc : PC, op : Op]
BY NoOpType DEF Idle, PC

LEMMA InitType == Init => TypeOK
<1> SUFFICES ASSUME Init PROVE TypeOK
  OBVIOUS
<1>1. thr \in [Thread -> [pc : PC, op : Op]] /\ mutex \in Thread \cup {NoThread}
  BY IdleType DEF Init
<1>2. table \in Table /\ before \in Table /\ ckpt \in CheckpointFile
  BY EmptyTableType, NoFileType DEF Init
<1>3. now \in Time /\ crashes \in 0..MaxCrashes
  BY KvAssumption, DurableAssumption DEF Init, Time
<1>4. logFile \in Seq(LogEntry) /\ dumped \in SUBSET User /\ logged \in SUBSET Op
  BY DEF Init
<1>5. logCount \in Nat /\ version \in Nat /\ cursor \in Nat \ {0}
  BY DEF Init
<1>6. damaged \in BOOLEAN /\ dropped \in BOOLEAN /\ clean \in BOOLEAN /\ proc \in {"down"}
  BY Zenon DEF Init
<1> QED BY <1>1, <1>2, <1>3, <1>4, <1>5, <1>6 DEF TypeOK

LEMMA StepType ==
    ASSUME TypeOK, ThreadInv, LogInv, [Next]_vars
    PROVE  TypeOK'
<1> USE DEF TypeOK
<1>1. ASSUME NEW t \in Worker, Request(t) PROVE TypeOK'
  <2>1. now + 1 \in Time
    BY <1>1, KvAssumption DEF Request, Time
  <2>2. PICK op \in Requests(now + 1) : thr' = [thr EXCEPT ![t] = [pc |-> "stamped", op |-> op]]
    BY <1>1 DEF Request
  <2>3. op \in Op
    BY <2>1, RequestType
  <2> QED BY <1>1, <2>1, <2>2, <2>3 DEF Request, files, ghosts, PC
<1>2. ASSUME NEW t \in Worker, Apply(t) PROVE TypeOK'
  <2>1. thr[t].op \in Op /\ Sane(thr[t].op)
    BY DEF Thread, ThreadInv
  <2>2. Effect(table, thr[t].op) \in Table
    BY <2>1, EffectAsRecent
  <2> QED BY <1>2, <2>2, NoOpType DEF Apply, Step, Idle, PC, files, ghosts
<1>3. ASSUME NEW t \in Thread, BeginAppend(t) PROVE TypeOK'
  <2>1. Append(logFile, Torn) \in Seq(LogEntry)
    BY NoOpType, AppendProperties DEF Torn, LogEntry
  <2> QED BY <1>3, <2>1 DEF BeginAppend, Step, PC, Writing, ghosts
<1>4. ASSUME NEW t \in Thread, EndAppend(t) PROVE TypeOK'
  <2>1. logFile' \in Seq(LogEntry)
    BY <1>4 DEF EndAppend, LogInv, LogEntry
  <2> QED BY <1>4, <2>1, NoOpType DEF EndAppend, Finish, Idle, PC
<1>5. ASSUME NEW t \in Thread, TruncateLog(t) PROVE TypeOK'
  BY <1>5 DEF TruncateLog, Step, PC, Writing, Dumping, ghosts
<1>6. ASSUME NEW t \in Thread, OpenCheckpoint(t) PROVE TypeOK'
  BY <1>6, NoFileType
     DEF OpenCheckpoint, Step, PC, Writing, Dumping, ghosts, CheckpointFile
<1>7. ASSUME NEW t \in Thread, DumpVersion(t) PROVE TypeOK'
  BY <1>7, NoFileType
     DEF DumpVersion, Step, PC, Writing, Dumping, ghosts, CheckpointFile
<1>8. ASSUME NEW t \in Thread, DumpRow(t) PROVE TypeOK'
  <2>1. PICK u \in User : /\ ckpt' = [ckpt EXCEPT !.table = RowCopied(u)]
                          /\ dumped' = dumped \cup {u}
    BY <1>8 DEF DumpRow
  <2>2. ckpt' \in CheckpointFile
    BY <2>1, RowCopiedType DEF CheckpointFile
  <2>3. dropped' \in BOOLEAN
    BY <1>8, Zenon DEF DumpRow
  <2> QED BY <1>8, <2>1, <2>2, <2>3 DEF DumpRow, ghosts
<1>9. ASSUME NEW t \in Thread, CloseCheckpoint(t) PROVE TypeOK'
  BY <1>9, NoOpType DEF CloseCheckpoint, Finish, Idle, PC, CheckpointFile
<1>10. ASSUME Crash PROVE TypeOK'
  <2>1. thr' \in [Thread -> [pc : PC, op : Op]]
    BY <1>10, IdleType DEF Crash
  <2>2. table' \in Table /\ before' \in Table
    BY <1>10, EmptyTableType DEF Crash
  <2>3. crashes' \in 0..MaxCrashes
    BY <1>10, DurableAssumption DEF Crash
  <2>4. damaged' \in BOOLEAN /\ dropped' \in BOOLEAN
    BY <1>10, Zenon DEF Crash
  <2>5. clean' \in BOOLEAN
    <3>1. CASE proc = "replaying"
      BY <1>10, <3>1 DEF Crash
    <3>2. CASE proc # "replaying"
      <4> DEFINE quiet == \A t \in Thread : thr[t].pc \in {"idle", "stamped"}
      <4>1. clean' = quiet
        BY <1>10, <3>2, Zenon DEF Crash
      <4>2. quiet \in BOOLEAN
        OBVIOUS
      <4> HIDE DEF quiet
      <4> QED BY <4>1, <4>2
    <3> QED BY <3>1, <3>2
  <2>6. /\ logCount' \in Nat /\ version' \in Nat /\ cursor' \in Nat \ {0}
        /\ mutex' \in Thread \cup {NoThread} /\ dumped' \in SUBSET User
        /\ logFile' \in Seq(LogEntry) /\ ckpt' \in CheckpointFile /\ now' \in Time
        /\ logged' \in SUBSET Op /\ proc' \in {"down"}
    BY <1>10 DEF Crash, files
  <2> QED BY <2>1, <2>2, <2>3, <2>4, <2>5, <2>6
<1>11. ASSUME LoadCheckpoint PROVE TypeOK'
  BY <1>11 DEF LoadCheckpoint, files, ghosts, CheckpointFile
<1>12. ASSUME ReplayRecord PROVE TypeOK'
  <2>1. logFile[cursor] \in Op /\ Sane(logFile[cursor])
    BY <1>12 DEF ReplayRecord, Replaying, LogEntry, LogInv
  <2>2. ReplayEffect(table, logFile[cursor]) \in Table
    BY <2>1, ReplayAsRecent
  <2> QED BY <1>12, <2>2 DEF ReplayRecord, files, ghosts
<1>13. ASSUME ReplayTorn PROVE TypeOK'
  <2>1. cursor > 1 => ReplayEffect(table, logFile[cursor - 1]) \in Table
    <3>1. cursor > 1 => logFile[cursor - 1] \in Op /\ Sane(logFile[cursor - 1])
      BY <1>13 DEF ReplayTorn, Replaying, LogEntry, LogInv
    <3> QED BY <3>1, ReplayAsRecent
  <2> QED BY <1>13, <2>1 DEF ReplayTorn, files, ghosts
<1>14. ASSUME SignUpAdmin PROVE TypeOK'
  <2>1. Effect(table, AdminOp) \in Table
    BY AdminOpType, EffectAsRecent
  <2> QED BY <1>14, <2>1, AdminOpType DEF SignUpAdmin, PC, files, ghosts
<1>15. ASSUME Listen PROVE TypeOK'
  BY <1>15 DEF Listen, memory, files, ghosts
<1>16. CASE UNCHANGED vars
  BY <1>16 DEF vars, memory, files, ghosts
<1> QED
  BY <1>1, <1>2, <1>3, <1>4, <1>5, <1>6, <1>7, <1>8, <1>9, <1>10, <1>11, <1>12, <1>13,
     <1>14, <1>15, <1>16 DEF Next, WriteLog, Start
-----------------------------------------------------------------------------
(* ThreadInv: mutual exclusion on LOG_MUTEX.                                *)

LEMMA ThreadStops ==
    ASSUME TypeOK, NEW t \in Thread, thr' = [thr EXCEPT ![t] = Idle]
    PROVE  /\ thr'[t] = Idle
           /\ \A s \in Thread \ {t} : thr'[s] = thr[s]
BY DEF TypeOK

LEMMA IdleFacts == Idle.pc = "idle" /\ Idle.op = NoOp /\ Sane(Idle.op)
BY NoOpType DEF Idle

LEMMA Busy ==
    ASSUME TypeOK, ThreadInv, NEW t \in Thread, thr[t].pc # "idle"
    PROVE  Serving
BY IdleFacts DEF ThreadInv

\* A thread goes on with its command and the mutex follows it ...
LEMMA MovedInv ==
    ASSUME TypeOK, ThreadInv, NEW t \in Thread, NEW pc \in PC, Step(t, pc),
           thr[t].pc # "idle", proc' = proc,
           pc \in Writing <=> mutex' = t,
           \A s \in Thread \ {t} : mutex' = s <=> mutex = s
    PROVE  ThreadInv'
<1>1. Serving'
  BY Busy DEF Serving
<1>2. /\ thr'[t].pc = pc /\ thr'[t].op = thr[t].op
      /\ \A s \in Thread \ {t} : thr'[s] = thr[s]
  BY DEF Step, TypeOK
<1>3. \A s \in Thread : thr'[s].pc \in Writing <=> mutex' = s
  BY <1>2 DEF ThreadInv
<1>4. \A s \in Thread : Sane(thr'[s].op)
  BY <1>2 DEF ThreadInv
<1>5. \A s \in Thread : thr'[s].pc # "idle" => thr'[s].op.kind # "none"
  BY <1>2 DEF ThreadInv
<1> QED BY <1>1, <1>3, <1>4, <1>5 DEF ThreadInv

\* ... or ends it.
LEMMA StoppedInv ==
    ASSUME TypeOK, ThreadInv, NEW t \in Thread, thr' = [thr EXCEPT ![t] = Idle],
           thr[t].pc # "idle", proc' = proc, mutex' # t,
           \A s \in Thread \ {t} : mutex' = s <=> mutex = s
    PROVE  ThreadInv'
<1>1. Serving'
  BY Busy DEF Serving
<1>2. thr'[t] = Idle /\ \A s \in Thread \ {t} : thr'[s] = thr[s]
  BY ThreadStops
<1>3. Idle.pc \notin Writing
  BY IdleFacts DEF Writing, Dumping, Appending
<1>4. \A s \in Thread : thr'[s].pc \in Writing <=> mutex' = s
  BY <1>2, <1>3 DEF ThreadInv
<1> QED BY <1>1, <1>2, <1>4, IdleFacts DEF ThreadInv

\* Who is inside write_log holds the mutex; nobody else does.
LEMMA Holder ==
    ASSUME TypeOK, ThreadInv, NEW t \in Thread, thr[t].pc \in Writing
    PROVE  /\ mutex = t /\ t # NoThread /\ thr[t].pc # "idle"
           /\ \A s \in Thread \ {t} : thr[s].pc \notin Writing
BY DurableAssumption DEF ThreadInv, Thread, Writing, Dumping, Appending

LEMMA ThreadInvStep ==
    ASSUME TypeOK, ThreadInv, [Next]_vars
    PROVE  ThreadInv'
<1> USE DEF ThreadInv, Serving
<1>1. ASSUME NEW t \in Worker, Request(t) PROVE ThreadInv'
  <2>1. now + 1 \in Time
    BY <1>1, KvAssumption DEF Request, Time, TypeOK
  <2>2. PICK op \in Requests(now + 1) : thr' = [thr EXCEPT ![t] = [pc |-> "stamped", op |-> op]]
    BY <1>1 DEF Request
  <2>3. op \in Op /\ Sane(op) /\ op.kind # "none"
    BY <2>1, RequestType
  <2>4. /\ thr'[t] = [pc |-> "stamped", op |-> op] /\ t \in Thread
        /\ \A s \in Thread \ {t} : thr'[s] = thr[s]
    BY <2>2 DEF Thread, TypeOK
  <2>5. thr[t].pc \notin Writing /\ thr'[t].pc \notin Writing
    BY <1>1, <2>4 DEF Request, At, Writing, Dumping, Appending
  <2>6. Serving' /\ mutex' = mutex
    BY <1>1 DEF Request
  <2>7. \A s \in Thread : thr'[s].pc \in Writing <=> mutex' = s
    BY <2>4, <2>5, <2>6
  <2> QED BY <2>3, <2>4, <2>6, <2>7
<1>2. ASSUME NEW t \in Worker, Apply(t) PROVE ThreadInv'
  <2>1. t \in Thread /\ thr[t].pc # "idle" /\ thr[t].pc \notin Writing /\ mutex # t
    BY <1>2 DEF Apply, At, Thread, Writing, Dumping, Appending
  <2>2. CASE Recorded(table, thr[t].op)
    <3>1. "applied" \in PC /\ "applied" \notin Writing
      BY DEF PC, Writing, Dumping, Appending
    <3> QED BY <1>2, <2>1, <2>2, <3>1, MovedInv DEF Apply
  <2>3. CASE ~Recorded(table, thr[t].op)
    BY <1>2, <2>1, <2>3, StoppedInv DEF Apply
  <2> QED BY <2>2, <2>3
<1>3. ASSUME NEW t \in Thread, BeginAppend(t) PROVE ThreadInv'
  <2>1. /\ thr[t].pc # "idle" /\ mutex = NoThread /\ mutex' = t /\ proc' = proc
        /\ Appending \in PC /\ Appending \in Writing /\ Step(t, Appending)
    BY <1>3 DEF BeginAppend, At, PC, Writing, Dumping, Appending
  <2> QED BY <2>1, MovedInv, DurableAssumption DEF Thread
<1>4. ASSUME NEW t \in Thread, EndAppend(t) PROVE ThreadInv'
  <2>1. thr[t].pc \in Writing /\ mutex' = NoThread /\ proc' = proc
    BY <1>4 DEF EndAppend, Finish, At, Writing, Dumping, Appending
  <2>2. thr' = [thr EXCEPT ![t] = Idle]
    BY <1>4 DEF EndAppend, Finish
  <2> QED BY <2>1, <2>2, Holder, StoppedInv, DurableAssumption DEF Thread
<1>5. ASSUME NEW t \in Thread, TruncateLog(t) PROVE ThreadInv'
  <2>1. /\ thr[t].pc # "idle" /\ mutex = NoThread /\ mutex' = t /\ proc' = proc
        /\ "truncated" \in PC /\ "truncated" \in Writing /\ Step(t, "truncated")
    BY <1>5 DEF TruncateLog, At, PC, Writing, Dumping, Appending
  <2> QED BY <2>1, MovedInv, DurableAssumption DEF Thread
<1>6. ASSUME NEW t \in Thread, OpenCheckpoint(t) PROVE ThreadInv'
  <2>1. /\ thr[t].pc \in Writing /\ mutex' = mutex /\ proc' = proc
        /\ "opened" \in PC /\ "opened" \in Writing /\ Step(t, "opened")
    BY <1>6 DEF OpenCheckpoint, At, PC, Writing, Dumping, Appending
  <2> QED BY <2>1, Holder, MovedInv
<1>7. ASSUME NEW t \in Thread, DumpVersion(t) PROVE ThreadInv'
  <2>1. /\ thr[t].pc \in Writing /\ mutex' = mutex /\ proc' = proc
        /\ "dumping" \in PC /\ "dumping" \in Writing /\ Step(t, "dumping")
    BY <1>7 DEF DumpVersion, At, PC, Writing, Dumping, Appending
  <2> QED BY <2>1, Holder, MovedInv
<1>8. ASSUME NEW t \in Thread, DumpRow(t) PROVE ThreadInv'
  BY <1>8 DEF DumpRow, At
<1>9. ASSUME NEW t \in Thread, CloseCheckpoint(t) PROVE ThreadInv'
  <2>1. thr[t].pc \in Writing /\ mutex' = NoThread /\ proc' = proc
    BY <1>9 DEF CloseCheckpoint, Finish, At, Writing, Dumping, Appending
  <2>2. thr' = [thr EXCEPT ![t] = Idle]
    BY <1>9 DEF CloseCheckpoint, Finish
  <2> QED BY <2>1, <2>2, Holder, StoppedInv, DurableAssumption DEF Thread
<1>10. ASSUME Crash PROVE ThreadInv'
  <2>1. \A s \in Thread : thr'[s] = Idle /\ mutex' # s
    BY <1>10, DurableAssumption DEF Crash, Thread
  <2>2. Idle.pc \notin Writing
    BY IdleFacts DEF Writing, Dumping, Appending
  <2> QED BY <2>1, <2>2, IdleFacts
<1>11. ASSUME LoadCheckpoint PROVE ThreadInv'
  BY <1>11 DEF LoadCheckpoint
<1>12. ASSUME ReplayRecord PROVE ThreadInv'
  BY <1>12 DEF ReplayRecord, Replaying
<1>13. ASSUME ReplayTorn PROVE ThreadInv'
  BY <1>13 DEF ReplayTorn, Replaying
<1>14. ASSUME SignUpAdmin PROVE ThreadInv'
  <2>1. CASE HasUser(table, Admin)
    BY <1>14, <2>1 DEF SignUpAdmin, Replayed
  <2>2. CASE ~HasUser(table, Admin)
    <3>1. thr' = [thr EXCEPT ![Main] = [pc |-> "applied", op |-> AdminOp]] /\ Main \in Thread
      BY <1>14, <2>2 DEF SignUpAdmin, Thread
    <3>2. \A s \in Thread : thr[s] = Idle /\ Idle.pc \notin Writing
      BY <1>14, IdleFacts DEF SignUpAdmin, Replayed, Writing, Dumping, Appending
    <3>3. /\ thr'[Main].pc = "applied" /\ thr'[Main].op = AdminOp
          /\ \A s \in Thread \ {Main} : thr'[s] = thr[s]
      BY <3>1 DEF TypeOK
    <3>4. "applied" \notin Writing
      BY DEF Writing, Dumping, Appending
    <3>5. Serving' /\ mutex' = mutex
      BY <1>14 DEF SignUpAdmin
    <3>6. \A s \in Thread : thr'[s].pc \in Writing <=> mutex' = s
      BY <3>2, <3>3, <3>4, <3>5
    <3>7. Sane(AdminOp) /\ AdminOp.kind # "none"
      BY AdminOpType
    <3> QED BY <3>3, <3>5, <3>6, <3>7
  <2> QED BY <2>1, <2>2
<1>15. ASSUME Listen PROVE ThreadInv'
  BY <1>15 DEF Listen, memory
<1>16. CASE UNCHANGED vars
  BY <1>16 DEF vars, memory
<1> QED
  BY <1>1, <1>2, <1>3, <1>4, <1>5, <1>6, <1>7, <1>8, <1>9, <1>10, <1>11, <1>12, <1>13,
     <1>14, <1>15, <1>16 DEF Next, WriteLog, Start
-----------------------------------------------------------------------------
(* LogInv: what the log file holds.                                         *)

LEMMA Nobody ==
    ASSUME TypeOK, ThreadInv, mutex = NoThread
    PROVE  \A t \in Thread : thr[t].pc \notin Writing
BY DurableAssumption DEF ThreadInv, Thread

LEMMA WritingPCs ==
    /\ Writing \subseteq PC /\ Appending \in Writing /\ Dumping \subseteq Writing
    /\ Appending \notin Dumping /\ "idle" \notin Writing
    /\ "stamped" \notin Writing /\ "applied" \notin Writing
BY DEF PC, Writing, Dumping, Appending

LEMMA LogKept ==
    ASSUME LogInv, logFile' = logFile, damaged' = damaged,
           \A t \in Thread : thr'[t].pc = Appending <=> thr[t].pc = Appending
    PROVE  LogInv'
BY DEF LogInv, At

LEMMA LogInvStep ==
    ASSUME TypeOK, ThreadInv, LogInv, [Next]_vars
    PROVE  LogInv'
<1>1. ASSUME NEW t \in Worker, Request(t) PROVE LogInv'
  <2>1. \A s \in Thread : thr'[s].pc = Appending <=> thr[s].pc = Appending
    BY <1>1 DEF Request, At, Appending, TypeOK
  <2> QED BY <1>1, <2>1, LogKept DEF Request, files, ghosts
<1>2. ASSUME NEW t \in Worker, Apply(t) PROVE LogInv'
  <2>1. \A s \in Thread : thr'[s].pc = Appending <=> thr[s].pc = Appending
    BY <1>2 DEF Apply, Step, At, Appending, Idle, TypeOK
  <2> QED BY <1>2, <2>1, LogKept DEF Apply, files, ghosts
<1>3. ASSUME NEW t \in Thread, BeginAppend(t) PROVE LogInv'
  <2>1. /\ \A s \in Thread : thr[s].pc # Appending
        /\ thr'[t].pc = Appending
        /\ \A s \in Thread \ {t} : thr'[s] = thr[s]
    BY <1>3, Nobody, WritingPCs DEF BeginAppend, Step, TypeOK
  <2>2. /\ logFile \in Seq(LogEntry) /\ logFile' = Append(logFile, Torn)
        /\ damaged' = damaged
    BY <1>3 DEF BeginAppend, TypeOK, ghosts
  <2>3. /\ Len(logFile') = Len(logFile) + 1 /\ logFile'[Len(logFile) + 1] = Torn
        /\ DOMAIN logFile' = 1..Len(logFile')
        /\ \A i \in 1..Len(logFile) : logFile'[i] = logFile[i]
    BY <2>2, NoOpType DEF Torn, LogEntry
  <2>4. Len(logFile) \in Nat /\ DOMAIN logFile = 1..Len(logFile)
    BY <2>2
  <2>5. \A i \in DOMAIN logFile' : Sane(logFile'[i])
    BY <2>3, <2>4, NoOpType DEF LogInv, Torn
  <2>6. \A s \in Thread : thr'[s].pc = Appending =>
           Len(logFile') > 0 /\ logFile'[Len(logFile')] = Torn
    BY <2>3, <2>4
  <2>7. ~damaged => \A i \in DOMAIN logFile : logFile[i] # Torn
    BY <2>1 DEF LogInv, At
  <2>8. ~damaged' => \A i \in DOMAIN logFile' : logFile'[i] = Torn =>
           i = Len(logFile') /\ \E s \in Thread : thr'[s].pc = Appending
    BY <2>1, <2>2, <2>3, <2>4, <2>7
  <2> QED BY <2>5, <2>6, <2>8 DEF LogInv, At
<1>4. ASSUME NEW t \in Thread, EndAppend(t) PROVE LogInv'
  <2>1. /\ thr[t].pc = Appending /\ logFile \in Seq(LogEntry)
        /\ logFile' = [logFile EXCEPT ![Len(logFile)] = thr[t].op]
        /\ damaged' = damaged
        /\ thr' = [thr EXCEPT ![t] = Idle]
    BY <1>4 DEF EndAppend, Finish, At, TypeOK
  <2>2. Len(logFile) > 0 /\ thr[t].op \in Op /\ Sane(thr[t].op) /\ thr[t].op # Torn
    BY <2>1, NoOpType, WritingPCs DEF LogInv, ThreadInv, At, Torn, TypeOK
  <2>3. /\ Len(logFile) \in Nat /\ DOMAIN logFile = 1..Len(logFile)
        /\ Len(logFile') = Len(logFile) /\ DOMAIN logFile' = DOMAIN logFile
        /\ logFile'[Len(logFile)] = thr[t].op
        /\ \A i \in DOMAIN logFile : i # Len(logFile) => logFile'[i] = logFile[i]
    BY <2>1, <2>2 DEF LogEntry
  <2>4. \A s \in Thread : thr'[s].pc # Appending
    BY <2>1, Holder, IdleFacts, WritingPCs, ThreadStops
  <2>5. \A i \in DOMAIN logFile' : Sane(logFile'[i])
    BY <2>2, <2>3 DEF LogInv
  <2>6. ~damaged' => \A i \in DOMAIN logFile' : logFile'[i] # Torn
    BY <2>1, <2>2, <2>3 DEF LogInv
  <2> QED BY <2>4, <2>5, <2>6 DEF LogInv, At
<1>5. ASSUME NEW t \in Thread, TruncateLog(t) PROVE LogInv'
  <2>1. \A s \in Thread : thr'[s].pc # Appending
    BY <1>5, Nobody, WritingPCs DEF TruncateLog, Step, TypeOK, Appending
  <2> QED BY <1>5, <2>1 DEF TruncateLog, LogInv, At
<1>6. ASSUME NEW t \in Thread, OpenCheckpoint(t) PROVE LogInv'
  <2>1. \A s \in Thread : thr'[s].pc = Appending <=> thr[s].pc = Appending
    BY <1>6 DEF OpenCheckpoint, Step, At, Appending, TypeOK
  <2> QED BY <1>6, <2>1, LogKept DEF OpenCheckpoint, ghosts
<1>7. ASSUME NEW t \in Thread, DumpVersion(t) PROVE LogInv'
  <2>1. \A s \in Thread : thr'[s].pc = Appending <=> thr[s].pc = Appending
    BY <1>7 DEF DumpVersion, Step, At, Appending, TypeOK
  <2> QED BY <1>7, <2>1, LogKept DEF DumpVersion, ghosts
<1>8. ASSUME NEW t \in Thread, DumpRow(t) PROVE LogInv'
  BY <1>8, LogKept DEF DumpRow, ghosts
<1>9. ASSUME NEW t \in Thread, CloseCheckpoint(t) PROVE LogInv'
  <2>1. \A s \in Thread : thr'[s].pc = Appending <=> thr[s].pc = Appending
    BY <1>9, IdleFacts DEF CloseCheckpoint, Finish, At, Appending, TypeOK
  <2> QED BY <1>9, <2>1, LogKept DEF CloseCheckpoint
<1>10. ASSUME Crash PROVE LogInv'
  <2>1. logFile' = logFile /\ \A s \in Thread : thr'[s].pc # Appending
    BY <1>10, IdleFacts, WritingPCs DEF Crash, files
  <2>2. ~damaged' => ~damaged /\ \A s \in Thread : thr[s].pc # Appending
    BY <1>10, WritingPCs DEF Crash
  <2> QED BY <2>1, <2>2 DEF LogInv, At
<1>11. ASSUME LoadCheckpoint PROVE LogInv'
  BY <1>11, LogKept DEF LoadCheckpoint, files, ghosts
<1>12. ASSUME ReplayRecord PROVE LogInv'
  BY <1>12, LogKept DEF ReplayRecord, files, ghosts
<1>13. ASSUME ReplayTorn PROVE LogInv'
  BY <1>13, LogKept DEF ReplayTorn, files, ghosts
<1>14. ASSUME SignUpAdmin PROVE LogInv'
  <2>1. \A s \in Thread : thr'[s].pc = Appending <=> thr[s].pc = Appending
    BY <1>14, IdleFacts DEF SignUpAdmin, Replayed, Appending, TypeOK, ThreadInv, Serving
  <2> QED BY <1>14, <2>1, LogKept DEF SignUpAdmin, files, ghosts
<1>15. ASSUME Listen PROVE LogInv'
  BY <1>15, LogKept DEF Listen, memory, files, ghosts
<1>16. CASE UNCHANGED vars
  BY <1>16, LogKept DEF vars, memory, files, ghosts
<1> QED
  BY <1>1, <1>2, <1>3, <1>4, <1>5, <1>6, <1>7, <1>8, <1>9, <1>10, <1>11, <1>12, <1>13,
     <1>14, <1>15, <1>16 DEF Next, WriteLog, Start
-----------------------------------------------------------------------------
(* MemoryInv: acknowledged puts are in memory.                              *)

InService(t) == thr[t].pc \notin {"idle", "stamped"}

LEMMA MemoryKept ==
    ASSUME TypeOK, TypeOK', MemoryInv, AsRecent(table', table),
           Serving' => Serving, damaged' = damaged, logged' = logged,
           \A t \in Thread : InService(t)' => InService(t) /\ thr'[t].op = thr[t].op
    PROVE  MemoryInv'
<1>1. table \in Table /\ table' \in Table /\ logged \subseteq Op
  BY DEF TypeOK
<1>2. \A t \in Thread : thr[t].op \in Op
  BY DEF TypeOK
<1>3. Serving' /\ ~damaged' => \A op \in logged' : Lasting(op) => Reflects(table', op)
  BY <1>1, ReflectsStays DEF MemoryInv
<1>4. \A t \in Thread : InService(t)' /\ Lasting(thr'[t].op) => Reflects(table', thr'[t].op)
  BY <1>1, <1>2, ReflectsStays DEF MemoryInv, InService
<1> QED BY <1>3, <1>4 DEF MemoryInv, InService

\* write_log returns for a command whose effect is in memory.
LEMMA MemoryAcknowledged ==
    ASSUME TypeOK, MemoryInv, NEW t \in Thread, InService(t), Finish(t),
           table' = table, proc' = proc, damaged' = damaged
    PROVE  MemoryInv'
<1>1. \A s \in Thread : InService(s)' => InService(s) /\ thr'[s].op = thr[s].op
  BY IdleFacts DEF Finish, TypeOK, InService
<1>2. \A s \in Thread : InService(s)' /\ Lasting(thr'[s].op) => Reflects(table', thr'[s].op)
  BY <1>1 DEF MemoryInv, InService
<1>3. Serving' /\ ~damaged' => \A op \in logged' : Lasting(op) => Reflects(table', op)
  BY DEF MemoryInv, Finish, Serving, InService
<1> QED BY <1>2, <1>3 DEF MemoryInv, InService

LEMMA MemoryInvStep ==
    ASSUME DurableInv, TypeOK', [Next]_vars
    PROVE  MemoryInv'
<1> USE DEF DurableInv
<1>0. AsRecent(table, table)
  BY AsRecentReflexive DEF TypeOK
<1>1. ASSUME NEW t \in Worker, Request(t) PROVE MemoryInv'
  <2>1. \A s \in Thread : InService(s)' => InService(s) /\ thr'[s].op = thr[s].op
    BY <1>1 DEF Request, InService, TypeOK
  <2> QED BY <1>0, <1>1, <2>1, MemoryKept DEF Request, ghosts, Serving
<1>2. ASSUME NEW t \in Worker, Apply(t) PROVE MemoryInv'
  <2>1. /\ t \in Thread /\ thr[t].op \in Op /\ Sane(thr[t].op) /\ table \in Table
        /\ table' = Effect(table, thr[t].op)
    BY <1>2 DEF Apply, Thread, ThreadInv, TypeOK
  <2>2. table' \in Table /\ AsRecent(table', table)
    BY <2>1, EffectAsRecent
  <2>3. \A s \in Thread : InService(s)' =>
           (s = t \/ InService(s)) /\ thr'[s].op = thr[s].op
    BY <1>2, <2>1, IdleFacts DEF Apply, Step, InService, TypeOK
  <2>4. Lasting(thr[t].op) => Reflects(table', thr[t].op)
    BY <2>1, PutReflects
  <2>5. \A s \in Thread : InService(s) /\ Lasting(thr[s].op) => Reflects(table', thr[s].op)
    BY <2>1, <2>2, ReflectsStays DEF MemoryInv, InService, TypeOK
  <2>6. \A s \in Thread : InService(s)' /\ Lasting(thr'[s].op) => Reflects(table', thr'[s].op)
    BY <2>3, <2>4, <2>5
  <2>7. Serving' /\ ~damaged' => \A op \in logged' : Lasting(op) => Reflects(table', op)
    BY <1>2, <2>1, <2>2, ReflectsStays DEF MemoryInv, Apply, ghosts, Serving, TypeOK
  <2> QED BY <2>6, <2>7 DEF MemoryInv, InService
<1>3. ASSUME NEW t \in Thread, BeginAppend(t) PROVE MemoryInv'
  <2>1. \A s \in Thread : InService(s)' => InService(s) /\ thr'[s].op = thr[s].op
    BY <1>3 DEF BeginAppend, Step, At, InService, TypeOK
  <2> QED BY <1>0, <1>3, <2>1, MemoryKept DEF BeginAppend, ghosts, Serving
<1>4. ASSUME NEW t \in Thread, EndAppend(t) PROVE MemoryInv'
  BY <1>4, MemoryAcknowledged DEF EndAppend, At, InService, Appending
<1>5. ASSUME NEW t \in Thread, TruncateLog(t) PROVE MemoryInv'
  <2>1. \A s \in Thread : InService(s)' => InService(s) /\ thr'[s].op = thr[s].op
    BY <1>5 DEF TruncateLog, Step, At, InService, TypeOK
  <2> QED BY <1>0, <1>5, <2>1, MemoryKept DEF TruncateLog, ghosts, Serving
<1>6. ASSUME NEW t \in Thread, OpenCheckpoint(t) PROVE MemoryInv'
  <2>1. \A s \in Thread : InService(s)' => InService(s) /\ thr'[s].op = thr[s].op
    BY <1>6 DEF OpenCheckpoint, Step, At, InService, TypeOK
  <2> QED BY <1>0, <1>6, <2>1, MemoryKept DEF OpenCheckpoint, ghosts, Serving
<1>7. ASSUME NEW t \in Thread, DumpVersion(t) PROVE MemoryInv'
  <2>1. \A s \in Thread : InService(s)' => InService(s) /\ thr'[s].op = thr[s].op
    BY <1>7 DEF DumpVersion, Step, At, InService, TypeOK
  <2> QED BY <1>0, <1>7, <2>1, MemoryKept DEF DumpVersion, ghosts, Serving
<1>8. ASSUME NEW t \in Thread, DumpRow(t) PROVE MemoryInv'
  BY <1>0, <1>8, MemoryKept DEF DumpRow, ghosts, Serving, InService
<1>9. ASSUME NEW t \in Thread, CloseCheckpoint(t) PROVE MemoryInv'
  BY <1>9, MemoryAcknowledged DEF CloseCheckpoint, At, InService
<1>10. ASSUME Crash PROVE MemoryInv'
  BY <1>10, IdleFacts DEF Crash, MemoryInv, Serving
<1>11. ASSUME LoadCheckpoint PROVE MemoryInv'
  BY <1>11, IdleFacts DEF LoadCheckpoint, MemoryInv, Serving, ThreadInv
<1>12. ASSUME ReplayRecord PROVE MemoryInv'
  BY <1>12, IdleFacts DEF ReplayRecord, Replaying, MemoryInv, Serving, ThreadInv
<1>13. ASSUME ReplayTorn PROVE MemoryInv'
  BY <1>13, IdleFacts DEF ReplayTorn, Replaying, MemoryInv, Serving, ThreadInv
<1>14. ASSUME SignUpAdmin PROVE MemoryInv'
  <2>1. \A s \in Thread : thr[s] = Idle
    BY <1>14 DEF SignUpAdmin, Replayed, ThreadInv, Serving
  <2>2. ~Lasting(AdminOp)
    BY AdminOpType DEF Lasting
  <2>3. \A s \in Thread : InService(s)' => ~Lasting(thr'[s].op)
    BY <1>14, <2>1, <2>2, IdleFacts DEF SignUpAdmin, InService, TypeOK
  <2>4. ~damaged => \A op \in logged : Lasting(op) => Reflects(table, op)
    BY <1>14 DEF SignUpAdmin, Replayed, ReplayInv, TypeOK
  <2>5. AsRecent(table', table)
    BY <1>0, <1>14, AdminOpType, EffectAsRecent DEF SignUpAdmin, TypeOK
  <2>6. ~damaged' => \A op \in logged' : Lasting(op) => Reflects(table', op)
    BY <1>14, <2>4, <2>5, ReflectsStays DEF SignUpAdmin, TypeOK, ghosts
  <2> QED BY <2>3, <2>6 DEF MemoryInv, InService
<1>15. ASSUME Listen PROVE MemoryInv'
  BY <1>0, <1>15, MemoryKept DEF Listen, memory, ghosts, Serving, InService
<1>16. CASE UNCHANGED vars
  BY <1>0, <1>16, MemoryKept DEF vars, memory, ghosts, Serving, InService
<1> QED
  BY <1>1, <1>2, <1>3, <1>4, <1>5, <1>6, <1>7, <1>8, <1>9, <1>10, <1>11, <1>12, <1>13,
     <1>14, <1>15, <1>16 DEF Next, WriteLog, Start
-----------------------------------------------------------------------------
(* DiskInv: acknowledged puts are in the log or in the checkpoint.          *)

Quiet == \A t \in Thread : thr[t].pc \notin Dumping

LEMMA DiskKept ==
    ASSUME TypeOK, DiskInv, logFile' = logFile, ckpt' = ckpt, dumped' = dumped,
           damaged' = damaged, logged' = logged,
           \A t \in Thread : thr'[t].pc \in Dumping <=> thr[t].pc \in Dumping,
           \A t \in Thread : thr'[t].pc = "dumping" => thr'[t] = thr[t]
    PROVE  DiskInv'
BY DEF DiskInv, InLog, At

\* While the log is being replaced only the rows already dumped count.
LEMMA DiskReplaced ==
    ASSUME NEW t \in Thread, thr'[t].pc \in Dumping,
           \A s \in Thread \ {t} : thr'[s].pc # "dumping",
           thr'[t].pc = "dumping" /\ ~damaged' =>
              \A op \in logged' \cup {thr'[t].op} :
                 Lasting(op) /\ op.user \in dumped' => Reflects(ckpt'.table, op)
    PROVE  DiskInv'
BY DEF DiskInv, At

LEMMA RowReflects ==
    ASSUME TypeOK, NEW u \in User, NEW op \in Op,
           op.user = u => Reflects(table, op),
           op.user # u => Reflects(ckpt.table, op)
    PROVE  Reflects(RowCopied(u), op)
<1>1. <<op.user, op.col>> \in Cell
  BY DEF Op, Cell
<1>2. CASE op.user = u
  BY <1>1, <1>2, SavedFacts, Places DEF RowCopied, Reflects, Present, TypeOK
<1>3. CASE op.user # u
  BY <1>1, <1>3, Places DEF RowCopied, Reflects, Present
<1> QED BY <1>2, <1>3

LEMMA DiskInvStep ==
    ASSUME DurableInv, TypeOK', [Next]_vars
    PROVE  DiskInv'
<1> USE DEF DurableInv
<1>1. ASSUME NEW t \in Worker, Request(t) PROVE DiskInv'
  <2>1. \A s \in Thread : /\ thr'[s].pc \in Dumping <=> thr[s].pc \in Dumping
                          /\ thr'[s].pc = "dumping" => thr'[s] = thr[s]
    BY <1>1 DEF Request, At, Dumping, TypeOK
  <2> QED BY <1>1, <2>1, DiskKept DEF Request, files, ghosts
<1>2. ASSUME NEW t \in Worker, Apply(t) PROVE DiskInv'
  <2>1. \A s \in Thread : /\ thr'[s].pc \in Dumping <=> thr[s].pc \in Dumping
                          /\ thr'[s].pc = "dumping" => thr'[s] = thr[s]
    BY <1>2, IdleFacts DEF Apply, Step, At, Dumping, TypeOK
  <2> QED BY <1>2, <2>1, DiskKept DEF Apply, files, ghosts
<1>3. ASSUME NEW t \in Thread, BeginAppend(t) PROVE DiskInv'
  <2>1. Quiet
    BY <1>3, Nobody, WritingPCs DEF BeginAppend, Quiet
  <2>2. \A s \in Thread : thr'[s].pc # "dumping"
    BY <1>3, <2>1 DEF BeginAppend, Step, TypeOK, Quiet, Dumping, Appending
  <2>3. \A op \in Op : InLog(op) => InLog(op)'
    BY <1>3, NoOpType DEF BeginAppend, InLog, TypeOK, LogEntry, Torn
  <2>4. \A op \in logged : Lasting(op) /\ ~damaged => Reflects(ckpt.table, op) \/ InLog(op)'
    BY <2>1, <2>3 DEF DiskInv, TypeOK, Quiet
  <2> QED BY <1>3, <2>2, <2>4 DEF DiskInv, BeginAppend, ghosts, InLog, At
<1>4. ASSUME NEW t \in Thread, EndAppend(t) PROVE DiskInv'
  <2>1. /\ thr[t].pc = Appending /\ logFile \in Seq(LogEntry)
        /\ logFile' = [logFile EXCEPT ![Len(logFile)] = thr[t].op]
        /\ logged' = logged \cup {thr[t].op} /\ ckpt' = ckpt /\ damaged' = damaged
        /\ thr' = [thr EXCEPT ![t] = Idle]
    BY <1>4 DEF EndAppend, Finish, At, TypeOK
  <2>2. Quiet
    BY <2>1, Holder, WritingPCs DEF Quiet
  <2>3. \A s \in Thread : thr'[s].pc # "dumping"
    BY <2>1, <2>2, IdleFacts, ThreadStops DEF Quiet, Dumping
  <2>4. Len(logFile) > 0 /\ logFile[Len(logFile)] = Torn
    BY <2>1 DEF LogInv, At
  <2>5. thr[t].op \in Op
    BY DEF TypeOK
  <2>6. \E i \in DOMAIN logFile' : logFile'[i] = thr[t].op
    BY <2>1, <2>4, <2>5 DEF InLog, LogEntry
  <2>7. ASSUME NEW op \in logged, Lasting(op), InLog(op) PROVE InLog(op)'
    <3>1. op # Torn
      BY <2>7, NoOpType DEF Torn, Lasting
    <3> QED BY <2>1, <2>4, <2>5, <2>7, <3>1 DEF InLog, LogEntry
  <2>8. \A op \in logged' : Lasting(op) /\ ~damaged => Reflects(ckpt.table, op) \/ InLog(op)'
    BY <2>1, <2>2, <2>6, <2>7 DEF DiskInv, Quiet, InLog
  <2> QED BY <2>1, <2>3, <2>8 DEF DiskInv, InLog, At
<1>5. ASSUME NEW t \in Thread, TruncateLog(t) PROVE DiskInv'
  <2>1. \A s \in Thread \ {t} : thr'[s].pc # "dumping"
    BY <1>5, Nobody, WritingPCs DEF TruncateLog, Step, TypeOK, Dumping
  <2>2. thr'[t].pc = "truncated"
    BY <1>5 DEF TruncateLog, Step, TypeOK
  <2> QED BY <2>1, <2>2, DiskReplaced DEF Dumping
<1>6. ASSUME NEW t \in Thread, OpenCheckpoint(t) PROVE DiskInv'
  <2>1. \A s \in Thread \ {t} : thr'[s].pc # "dumping"
    BY <1>6, Holder, WritingPCs DEF OpenCheckpoint, Step, TypeOK, At, Dumping
  <2>2. thr'[t].pc = "opened"
    BY <1>6 DEF OpenCheckpoint, Step, TypeOK
  <2> QED BY <2>1, <2>2, DiskReplaced DEF Dumping
<1>7. ASSUME NEW t \in Thread, DumpVersion(t) PROVE DiskInv'
  <2>1. \A s \in Thread \ {t} : thr'[s].pc # "dumping"
    BY <1>7, Holder, WritingPCs DEF DumpVersion, Step, TypeOK, At, Dumping
  <2>2. thr'[t].pc = "dumping"
    BY <1>7 DEF DumpVersion, Step, TypeOK
  <2>3. dumped' = {}
    BY <1>7 DEF DumpVersion
  <2> QED BY <2>1, <2>2, <2>3, DiskReplaced DEF Dumping
<1>8. ASSUME NEW t \in Thread, DumpRow(t) PROVE DiskInv'
  <2>1. PICK u \in User : /\ ckpt' = [ckpt EXCEPT !.table = RowCopied(u)]
                          /\ dumped' = dumped \cup {u}
    BY <1>8 DEF DumpRow
  <2>2. /\ thr[t].pc = "dumping" /\ thr' = thr /\ logged' = logged /\ damaged' = damaged
        /\ ckpt'.table = RowCopied(u)
    BY <1>8, <2>1 DEF DumpRow, At, ghosts, TypeOK, CheckpointFile
  <2>3. \A s \in Thread \ {t} : thr'[s].pc # "dumping"
    BY <2>2, Holder, WritingPCs DEF Dumping
  <2>4. Serving
    BY <2>2, Busy
  <2>5. ASSUME ~damaged, NEW op \in logged \cup {thr[t].op}, Lasting(op),
               op.user \in dumped \cup {u}
        PROVE  Reflects(RowCopied(u), op)
    <3>1. op \in Op
      BY DEF TypeOK
    <3>2. Reflects(table, op)
      BY <2>2, <2>4, <2>5 DEF MemoryInv
    <3>3. op.user # u => Reflects(ckpt.table, op)
      BY <2>2, <2>5 DEF DiskInv, At
    <3> QED BY <3>1, <3>2, <3>3, RowReflects
  <2> QED BY <2>1, <2>2, <2>3, <2>5, DiskReplaced DEF Dumping
<1>9. ASSUME NEW t \in Thread, CloseCheckpoint(t) PROVE DiskInv'
  <2>1. /\ thr[t].pc = "dumping" /\ dumped = User /\ ckpt'.table = ckpt.table
        /\ logged' = logged \cup {thr[t].op} /\ damaged' = damaged
        /\ thr' = [thr EXCEPT ![t] = Idle]
    BY <1>9 DEF CloseCheckpoint, Finish, At, TypeOK, CheckpointFile
  <2>2. \A s \in Thread : thr'[s].pc # "dumping"
    BY <2>1, Holder, IdleFacts, ThreadStops, WritingPCs DEF Dumping
  <2>3. \A op \in logged' : op \in Op /\ op.user \in dumped
    BY <2>1 DEF TypeOK, Op
  <2>4. \A op \in logged' : Lasting(op) /\ ~damaged => Reflects(ckpt'.table, op)
    BY <2>1, <2>3 DEF DiskInv, At
  <2> QED BY <2>1, <2>2, <2>4 DEF DiskInv, InLog, At
<1>10. ASSUME Crash PROVE DiskInv'
  <2>1. \A s \in Thread : thr'[s].pc # "dumping"
    BY <1>10, IdleFacts DEF Crash
  <2>2. ~damaged' => ~damaged /\ Quiet
    BY <1>10, WritingPCs DEF Crash, Quiet
  <2>3. logFile' = logFile /\ ckpt' = ckpt /\ logged' = logged
    BY <1>10 DEF Crash, files
  <2> QED BY <2>1, <2>2, <2>3 DEF DiskInv, InLog, At, Quiet
<1>11. ASSUME LoadCheckpoint PROVE DiskInv'
  BY <1>11, DiskKept DEF LoadCheckpoint, files, ghosts
<1>12. ASSUME ReplayRecord PROVE DiskInv'
  BY <1>12, DiskKept DEF ReplayRecord, files, ghosts
<1>13. ASSUME ReplayTorn PROVE DiskInv'
  BY <1>13, DiskKept DEF ReplayTorn, files, ghosts
<1>14. ASSUME SignUpAdmin PROVE DiskInv'
  <2>1. \A s \in Thread : thr[s] = Idle
    BY <1>14 DEF SignUpAdmin, Replayed, ThreadInv, Serving
  <2>2. \A s \in Thread : thr[s].pc \notin Dumping /\ thr'[s].pc \notin Dumping
    BY <1>14, <2>1, IdleFacts DEF SignUpAdmin, TypeOK, Dumping
  <2> QED BY <1>14, <2>2, DiskKept DEF SignUpAdmin, files, ghosts, Dumping
<1>15. ASSUME Listen PROVE DiskInv'
  BY <1>15, DiskKept DEF Listen, memory, files, ghosts
<1>16. CASE UNCHANGED vars
  BY <1>16, DiskKept DEF vars, memory, files, ghosts
<1> QED
  BY <1>1, <1>2, <1>3, <1>4, <1>5, <1>6, <1>7, <1>8, <1>9, <1>10, <1>11, <1>12, <1>13,
     <1>14, <1>15, <1>16 DEF Next, WriteLog, Start

-----------------------------------------------------------------------------
(* ReplayInv: what is not yet in memory is still to be replayed.            *)

\* A torn record that replay_log meets is what a crash left.
LEMMA TornMeansDamaged ==
    ASSUME DurableInv, ReplayTorn
    PROVE  damaged
<1> USE DEF DurableInv
<1>1. cursor \in DOMAIN logFile /\ logFile[cursor] = Torn
  BY DEF ReplayTorn, Replaying, TypeOK
<1>2. \A s \in Thread : thr[s].pc # Appending
  BY IdleFacts DEF ReplayTorn, Replaying, ThreadInv, Serving, Appending
<1> QED BY <1>1, <1>2 DEF LogInv, At

LEMMA ReplayInvStep ==
    ASSUME DurableInv, [Next]_vars
    PROVE  ReplayInv'
<1> USE DEF DurableInv
<1>1. ASSUME Serving', proc' # "down" PROVE ReplayInv'
  BY <1>1 DEF ReplayInv, Serving
<1>2. ASSUME NEW t \in Thread, thr[t].pc # "idle", proc' = proc PROVE ReplayInv'
  BY <1>1, <1>2, Busy DEF Serving
<1>3. ASSUME NEW t \in Worker, Request(t) \/ Apply(t) PROVE ReplayInv'
  BY <1>1, <1>3 DEF Request, Apply, Serving
<1>4. ASSUME NEW t \in Thread, WriteLog(t) PROVE ReplayInv'
  BY <1>2, <1>4 DEF WriteLog, BeginAppend, EndAppend, TruncateLog, OpenCheckpoint,
                    DumpVersion, DumpRow, CloseCheckpoint, At, Appending
<1>5. ASSUME Crash PROVE ReplayInv'
  BY <1>5 DEF Crash, ReplayInv
<1>6. ASSUME LoadCheckpoint PROVE ReplayInv'
  <2>1. Quiet
    BY <1>6, IdleFacts DEF LoadCheckpoint, ThreadInv, Serving, Quiet, Dumping
  <2>2. ~damaged => \A op \in logged : Lasting(op) => Reflects(ckpt.table, op) \/ InLog(op)
    BY <2>1 DEF DiskInv, Quiet
  <2>3. /\ cursor' = cursor /\ cursor = 1 /\ logged' = logged /\ damaged' = damaged
        /\ logFile' = logFile /\ proc' # "down"
        /\ proc' = "replaying" => table' = ckpt.table
    BY <1>6 DEF LoadCheckpoint, ReplayInv, files, ghosts
  <2>4. \A i \in DOMAIN logFile : i >= 1
    BY DEF TypeOK
  <2> QED BY <2>2, <2>3, <2>4 DEF ReplayInv, InLog
<1>7. ASSUME ReplayRecord PROVE ReplayInv'
  <2>1. /\ proc = "replaying" /\ proc' = proc /\ cursor \in DOMAIN logFile
        /\ cursor' = cursor + 1 /\ logFile' = logFile /\ logged' = logged
        /\ damaged' = damaged /\ table' = ReplayEffect(table, logFile[cursor])
    BY <1>7 DEF ReplayRecord, Replaying, TypeOK, files, ghosts
  <2>2. /\ logFile[cursor] \in Op /\ Sane(logFile[cursor]) /\ table \in Table
        /\ logged \subseteq Op
    BY <2>1 DEF LogInv, TypeOK, LogEntry
  <2>3. table' \in Table /\ AsRecent(table', table)
    BY <2>1, <2>2, ReplayAsRecent
  <2>4. ASSUME NEW op \in logged, Lasting(op), Reflects(table, op)
        PROVE  Reflects(table', op)
    BY <2>2, <2>3, <2>4, ReflectsStays
  <2>5. ASSUME NEW op \in logged, Lasting(op),
               NEW i \in DOMAIN logFile, i >= cursor, logFile[i] = op
        PROVE  Reflects(table', op) \/ i >= cursor + 1
    <3>1. CASE i = cursor
      BY <2>1, <2>2, <2>5, <3>1, PutReflects
    <3>2. CASE i # cursor
      BY <2>5, <3>2 DEF TypeOK
    <3> QED BY <3>1, <3>2
  <2> QED BY <2>1, <2>4, <2>5 DEF ReplayInv
<1>8. ASSUME ReplayTorn PROVE ReplayInv'
  <2>1. damaged
    BY <1>8, TornMeansDamaged
  <2> QED BY <1>8, <2>1 DEF ReplayTorn, Replaying, ReplayInv, ghosts
<1>9. ASSUME SignUpAdmin \/ Listen PROVE ReplayInv'
  BY <1>1, <1>9 DEF SignUpAdmin, Listen, Serving
<1>10. CASE UNCHANGED vars
  BY <1>10 DEF vars, memory, files, ghosts, ReplayInv
<1> QED
  BY <1>3, <1>4, <1>5, <1>6, <1>7, <1>8, <1>9, <1>10 DEF Next, Start

-----------------------------------------------------------------------------
(* FileInv: only a crash leaves an unfinished checkpoint file.              *)

LEMMA FileKept ==
    ASSUME FileInv, ckpt' = ckpt, damaged' = damaged,
           proc' = "aborted" => proc = "aborted",
           \A t \in Thread : thr[t].pc \in Dumping => thr'[t].pc \in Dumping
    PROVE  FileInv'
BY DEF FileInv

LEMMA FileInvStep ==
    ASSUME DurableInv, [Next]_vars
    PROVE  FileInv'
<1> USE DEF DurableInv
<1>1. ASSUME NEW t \in Worker, Request(t) PROVE FileInv'
  <2>1. \A s \in Thread : thr[s].pc \in Dumping => thr'[s].pc \in Dumping
    BY <1>1 DEF Request, At, Dumping, TypeOK
  <2> QED BY <1>1, <2>1, FileKept DEF Request, files, ghosts
<1>2. ASSUME NEW t \in Worker, Apply(t) PROVE FileInv'
  <2>1. \A s \in Thread : thr[s].pc \in Dumping => thr'[s].pc \in Dumping
    BY <1>2 DEF Apply, Step, At, Dumping, TypeOK
  <2> QED BY <1>2, <2>1, FileKept DEF Apply, files, ghosts
<1>3. ASSUME NEW t \in Thread, BeginAppend(t) PROVE FileInv'
  <2>1. \A s \in Thread : thr[s].pc \in Dumping => thr'[s].pc \in Dumping
    BY <1>3 DEF BeginAppend, Step, At, Dumping, TypeOK
  <2> QED BY <1>3, <2>1, FileKept DEF BeginAppend, ghosts
<1>4. ASSUME NEW t \in Thread, EndAppend(t) PROVE FileInv'
  <2>1. \A s \in Thread : thr[s].pc \in Dumping => thr'[s].pc \in Dumping
    BY <1>4, WritingPCs DEF EndAppend, Finish, At, TypeOK
  <2> QED BY <1>4, <2>1, FileKept DEF EndAppend
<1>5. ASSUME NEW t \in Thread, TruncateLog(t) PROVE FileInv'
  <2>1. \A s \in Thread : thr[s].pc \in Dumping => thr'[s].pc \in Dumping
    BY <1>5 DEF TruncateLog, Step, At, Dumping, TypeOK
  <2> QED BY <1>5, <2>1, FileKept DEF TruncateLog, ghosts
<1>6. ASSUME NEW t \in Thread, OpenCheckpoint(t) PROVE FileInv'
  <2>1. thr'[t].pc \in Dumping /\ proc' = proc /\ damaged' = damaged
    BY <1>6 DEF OpenCheckpoint, Step, Dumping, TypeOK, ghosts
  <2> QED BY <2>1 DEF FileInv
<1>7. ASSUME NEW t \in Thread, DumpVersion(t) PROVE FileInv'
  <2>1. thr'[t].pc \in Dumping /\ proc' = proc /\ damaged' = damaged
    BY <1>7 DEF DumpVersion, Step, Dumping, TypeOK, ghosts
  <2> QED BY <2>1 DEF FileInv
<1>8. ASSUME NEW t \in Thread, DumpRow(t) PROVE FileInv'
  <2>1. thr'[t].pc \in Dumping /\ proc' = proc /\ damaged' = damaged
    BY <1>8 DEF DumpRow, At, Dumping, ghosts
  <2> QED BY <2>1 DEF FileInv
<1>9. ASSUME NEW t \in Thread, CloseCheckpoint(t) PROVE FileInv'
  <2>1. ckpt'.state = "whole" /\ proc' = proc /\ damaged' = damaged
    BY <1>9 DEF CloseCheckpoint, TypeOK, CheckpointFile
  <2> QED BY <2>1 DEF FileInv
<1>10. ASSUME Crash PROVE FileInv'
  <2>1. ~damaged' => ~damaged /\ Quiet
    BY <1>10, WritingPCs DEF Crash, Quiet
  <2>2. ckpt' = ckpt /\ proc' = "down"
    BY <1>10 DEF Crash, files
  <2> QED BY <2>1, <2>2 DEF FileInv, Quiet
<1>11. ASSUME LoadCheckpoint PROVE FileInv'
  <2>1. Quiet
    BY <1>11, IdleFacts DEF LoadCheckpoint, ThreadInv, Serving, Quiet, Dumping
  <2>2. ckpt' = ckpt /\ damaged' = damaged
    BY <1>11 DEF LoadCheckpoint, files, ghosts
  <2>3. proc' = "aborted" => ckpt.state \in {"empty", "partial"}
    BY <1>11 DEF LoadCheckpoint
  <2> QED BY <2>1, <2>2, <2>3 DEF FileInv, Quiet
<1>12. ASSUME ReplayRecord PROVE FileInv'
  BY <1>12, FileKept DEF ReplayRecord, files, ghosts
<1>13. ASSUME ReplayTorn PROVE FileInv'
  <2>1. damaged /\ damaged' = damaged
    BY <1>13, TornMeansDamaged DEF ReplayTorn, ghosts
  <2> QED BY <2>1 DEF FileInv
<1>14. ASSUME SignUpAdmin PROVE FileInv'
  <2>1. \A s \in Thread : thr[s].pc \notin Dumping
    BY <1>14, IdleFacts DEF SignUpAdmin, Replayed, ThreadInv, Serving, Dumping
  <2> QED BY <1>14, <2>1, FileKept DEF SignUpAdmin, files, ghosts
<1>15. ASSUME Listen PROVE FileInv'
  BY <1>15, FileKept DEF Listen, memory, files, ghosts
<1>16. CASE UNCHANGED vars
  BY <1>16, FileKept DEF vars, memory, files, ghosts
<1> QED
  BY <1>1, <1>2, <1>3, <1>4, <1>5, <1>6, <1>7, <1>8, <1>9, <1>10, <1>11, <1>12, <1>13,
     <1>14, <1>15, <1>16 DEF Next, WriteLog, Start

-----------------------------------------------------------------------------
(* CounterInv: log_count and the length of the log.                         *)

LEMMA AppendedIs ==
    ASSUME logFile \in Seq(LogEntry)
    PROVE  /\ Len(logFile) \in Nat
           /\ (\A t \in Thread : ~At(t, Appending)) => Appended = Len(logFile)
           /\ (\E t \in Thread : At(t, Appending)) => Appended = Len(logFile) - 1
BY DEF Appended

LEMMA AppendedThen ==
    ASSUME logFile' \in Seq(LogEntry), \A t \in Thread : ~At(t, Appending)'
    PROVE  Appended' = Len(logFile')
<1>1. Len(logFile') \in Nat
  OBVIOUS
<1>2. ~\E t \in Thread : At(t, Appending)'
  OBVIOUS
<1> QED BY <1>1, <1>2 DEF Appended

LEMMA CounterKept ==
    ASSUME CounterInv, logFile' = logFile, logCount' = logCount, cursor' = cursor,
           proc' = proc \/ (Serving /\ Serving'),
           \A t \in Thread : At(t, Appending)' <=> At(t, Appending)
    PROVE  CounterInv'
<1>1. Appended' = Appended
  BY DEF Appended
<1>2. proc' = "down" => proc = "down"
  BY DEF Serving
<1>3. (Serving \/ Replayed)' => Serving \/ Replayed
  BY DEF Serving, Replayed
<1>4. Replaying' => Replaying
  BY DEF Serving, Replaying
<1> QED BY <1>1, <1>2, <1>3, <1>4 DEF CounterInv

LEMMA CounterInvStep ==
    ASSUME DurableInv, TypeOK', [Next]_vars
    PROVE  CounterInv'
<1> USE DEF DurableInv
<1>0. /\ logFile \in Seq(LogEntry) /\ Len(logFile) \in Nat
      /\ DOMAIN logFile = 1..Len(logFile)
      /\ logCount \in Nat /\ cursor \in Nat \ {0} /\ CheckpointInterval \in Nat \ {0}
      /\ logFile' \in Seq(LogEntry)
  BY DurableAssumption DEF TypeOK
<1>1. ASSUME NEW t \in Worker, Request(t) PROVE CounterInv'
  <2>1. \A s \in Thread : At(s, Appending)' <=> At(s, Appending)
    BY <1>1 DEF Request, At, Appending, TypeOK
  <2> QED BY <1>1, <2>1, CounterKept DEF Request, files
<1>2. ASSUME NEW t \in Worker, Apply(t) PROVE CounterInv'
  <2>1. \A s \in Thread : At(s, Appending)' <=> At(s, Appending)
    BY <1>2, IdleFacts DEF Apply, Step, At, Appending, TypeOK
  <2> QED BY <1>2, <2>1, CounterKept DEF Apply, files
<1>3. ASSUME NEW t \in Thread, BeginAppend(t) PROVE CounterInv'
  <2> DEFINE n == Len(logFile)
  <2>1. /\ Serving /\ proc' = proc /\ logCount' = logCount /\ logCount < CheckpointInterval
        /\ logFile' = Append(logFile, Torn)
    BY <1>3 DEF BeginAppend, Running, Serving
  <2>2. \A s \in Thread : ~At(s, Appending)
    BY <1>3, Nobody, WritingPCs DEF BeginAppend, At
  <2>3. At(t, Appending)' /\ \A s \in Thread \ {t} : ~At(s, Appending)'
    BY <1>3, <2>2 DEF BeginAppend, Step, At, TypeOK
  <2>4. /\ Len(logFile') = n + 1 /\ logFile'[n + 1] = Torn
        /\ \A i \in 1..n : logFile'[i] = logFile[i]
        /\ DOMAIN logFile' = 1..(n + 1)
    BY <1>0, <2>1, NoOpType DEF Torn, LogEntry
  <2>5. Appended = n
    BY <1>0, <2>2, AppendedIs
  <2>6. Appended' = n
    <3>1. \E s \in Thread : At(s, Appending)'
      BY <2>3
    <3> QED BY <1>0, <2>4, <3>1 DEF Appended
  <2>7. logCount = n \/ \E j \in 1..logCount : j <= n /\ logFile[j] = Torn
    BY <2>1, <2>5 DEF CounterInv
  <2> HIDE DEF n
  <2>8. n \in Nat
    BY <1>0 DEF n
  <2>9. ASSUME NEW i \in 1..(n + 1), i > CheckpointInterval
        PROVE  \E j \in 1..CheckpointInterval : logFile'[j] = Torn
    <3>1. CASE i <= n
      <4>1. \E j \in 1..CheckpointInterval : logFile[j] = Torn
        BY <1>0, <2>9, <3>1 DEF CounterInv, n
      <4> QED BY <1>0, <2>4, <2>8, <2>9, <3>1, <4>1
    <3>2. CASE i = n + 1
      <4>1. logCount # n
        BY <1>0, <2>1, <2>8, <2>9, <3>2
      <4>2. PICK j \in 1..logCount : j <= n /\ logFile[j] = Torn
        BY <2>7, <4>1
      <4>3. j \in 1..n /\ j \in 1..CheckpointInterval
        BY <1>0, <2>1, <2>8, <4>2
      <4> QED BY <2>4, <4>2, <4>3
    <3> QED BY <2>8, <3>1, <3>2
  <2>10. logCount' = Appended' \/ \E j \in 1..logCount' : j <= Appended' /\ logFile'[j] = Torn
    BY <1>0, <2>1, <2>4, <2>6, <2>7, <2>8
  <2>11. ~Replaying' /\ proc' # "down" /\ logCount' <= CheckpointInterval
    BY <1>0, <2>1 DEF Serving, Replaying
  <2> QED BY <2>1, <2>4, <2>9, <2>10, <2>11 DEF CounterInv
<1>4. ASSUME NEW t \in Thread, EndAppend(t) PROVE CounterInv'
  <2> DEFINE n == Len(logFile)
  <2>1. /\ Serving /\ proc' = proc /\ logCount' = logCount + 1 /\ logCount < CheckpointInterval
        /\ logFile' = [logFile EXCEPT ![n] = thr[t].op]
        /\ At(t, Appending) /\ n > 0
    BY <1>4, Busy DEF EndAppend, At, Appending, CounterInv, LogInv
  <2>2. \A s \in Thread : ~At(s, Appending)'
    <3>1. \A s \in Thread \ {t} : ~At(s, Appending)
      BY <2>1, Holder, WritingPCs DEF At
    <3> QED BY <1>4, <3>1, ThreadStops, IdleFacts DEF EndAppend, Finish, At, Appending
  <2>3. /\ Len(logFile') = n /\ DOMAIN logFile' = 1..n
        /\ \A i \in 1..(n - 1) : logFile'[i] = logFile[i]
    <3>1. n \in 1..n
      BY <1>0, <2>1
    <3>2. thr[t].op \in LogEntry
      BY DEF TypeOK, LogEntry
    <3>3. /\ Len([logFile EXCEPT ![n] = thr[t].op]) = n
          /\ \A i \in 1..n :
                [logFile EXCEPT ![n] = thr[t].op][i] = IF i = n THEN thr[t].op ELSE logFile[i]
      BY <1>0, <3>1, <3>2, ExceptSeq
    <3>4. DOMAIN [logFile EXCEPT ![n] = thr[t].op] = 1..n
      BY <1>0
    <3>5. \A m \in Nat : \A i \in 1..(m - 1) : i \in 1..m /\ i # m
      OBVIOUS
    <3>6. \A i \in 1..(n - 1) : i \in 1..n /\ i # n
      BY <1>0, <3>5
    <3> QED BY <2>1, <3>3, <3>4, <3>6
  <2>4. Appended = n - 1
    BY <1>0, <2>1, AppendedIs
  <2>5. Appended' = n
    BY <1>0, <2>2, <2>3, AppendedThen
  <2>6. logCount = n - 1 \/ \E j \in 1..logCount : j <= n - 1 /\ logFile[j] = Torn
    BY <2>1, <2>4 DEF CounterInv
  <2> HIDE DEF n
  <2>7. n \in Nat
    BY <1>0 DEF n
  <2>8. ASSUME NEW i \in 1..n, i > CheckpointInterval
        PROVE  \E j \in 1..CheckpointInterval : logFile'[j] = Torn
    <3>1. PICK j \in 1..CheckpointInterval : logFile[j] = Torn
      BY <1>0, <2>8 DEF CounterInv, n
    <3> QED BY <1>0, <2>3, <2>7, <2>8, <3>1
  <2>9. logCount' = Appended' \/ \E j \in 1..logCount' : j <= Appended' /\ logFile'[j] = Torn
    <3>1. CASE logCount = n - 1
      BY <1>0, <2>1, <2>5, <2>7, <3>1
    <3>2. CASE logCount # n - 1
      <4>1. PICK j \in 1..logCount : j <= n - 1 /\ logFile[j] = Torn
        BY <2>6, <3>2
      <4>2. j \in 1..(n - 1) /\ j \in 1..(logCount + 1) /\ j <= n
        BY <1>0, <2>7, <4>1
      <4> QED BY <2>1, <2>3, <2>5, <4>1, <4>2
    <3> QED BY <3>1, <3>2
  <2>10. ~Replaying' /\ proc' # "down" /\ logCount' <= CheckpointInterval
    BY <1>0, <2>1 DEF Serving, Replaying
  <2> QED BY <2>2, <2>3, <2>8, <2>9, <2>10 DEF CounterInv
<1>5. ASSUME NEW t \in Thread, TruncateLog(t) PROVE CounterInv'
  <2>1. Serving /\ proc' = proc /\ logCount' = 0 /\ logFile' = <<>>
    BY <1>5 DEF TruncateLog, Running, Serving
  <2>2. \A s \in Thread : ~At(s, Appending)
    BY <1>5, Nobody, WritingPCs DEF TruncateLog, At
  <2>3. \A s \in Thread : ~At(s, Appending)'
    BY <1>5, <2>2 DEF TruncateLog, Step, At, Appending, TypeOK
  <2>4. Appended' = 0
    BY <2>1, <2>3 DEF Appended
  <2> QED BY <1>0, <2>1, <2>3, <2>4 DEF CounterInv, Serving, Replaying
<1>6. ASSUME NEW t \in Thread, OpenCheckpoint(t) PROVE CounterInv'
  <2>1. \A s \in Thread : At(s, Appending)' <=> At(s, Appending)
    BY <1>6 DEF OpenCheckpoint, Step, At, Appending, TypeOK
  <2> QED BY <1>6, <2>1, CounterKept DEF OpenCheckpoint
<1>7. ASSUME NEW t \in Thread, DumpVersion(t) PROVE CounterInv'
  <2>1. \A s \in Thread : At(s, Appending)' <=> At(s, Appending)
    BY <1>7 DEF DumpVersion, Step, At, Appending, TypeOK
  <2> QED BY <1>7, <2>1, CounterKept DEF DumpVersion
<1>8. ASSUME NEW t \in Thread, DumpRow(t) PROVE CounterInv'
  BY <1>8, CounterKept DEF DumpRow, At
<1>9. ASSUME NEW t \in Thread, CloseCheckpoint(t) PROVE CounterInv'
  <2>1. \A s \in Thread : At(s, Appending)' <=> At(s, Appending)
    BY <1>9, IdleFacts DEF CloseCheckpoint, Finish, At, Appending, TypeOK
  <2> QED BY <1>9, <2>1, CounterKept DEF CloseCheckpoint
<1>10. ASSUME Crash PROVE CounterInv'
  <2>1. logCount' = 0 /\ proc' = "down" /\ logFile' = logFile
    BY <1>10 DEF Crash, files
  <2>2. \A s \in Thread : ~At(s, Appending)'
    BY <1>10, IdleFacts DEF Crash, At, Appending
  <2> QED BY <1>0, <2>1, <2>2 DEF CounterInv, Serving, Replaying, Replayed
<1>11. ASSUME ~Serving, NEW t \in Thread
       PROVE  ~At(t, Appending)
  BY <1>11, IdleFacts DEF ThreadInv, At, Appending
<1>12. ASSUME LoadCheckpoint PROVE CounterInv'
  <2>1. /\ logCount = 0 /\ cursor = 1 /\ logCount' = logCount /\ cursor' = cursor
        /\ logFile' = logFile /\ thr' = thr /\ ~Serving /\ ~Serving' /\ proc' # "down"
    BY <1>12 DEF LoadCheckpoint, CounterInv, ReplayInv, Serving, files
  <2>2. \A s \in Thread : ~At(s, Appending) /\ ~At(s, Appending)'
    BY <1>11, <2>1 DEF At
  <2>3. Replayed' => logCount' = Appended'
    BY <1>0, <2>1, <2>2 DEF Replayed, Appended
  <2> QED BY <1>0, <2>1, <2>2, <2>3 DEF CounterInv
<1>13. ASSUME Replaying PROVE cursor \in 1..CheckpointInterval /\ cursor \in 1..Len(logFile)
  <2>1. logCount = cursor - 1 /\ \A j \in 1..logCount : logFile[j] # Torn
    BY <1>13 DEF CounterInv
  <2>2. cursor \in 1..Len(logFile)
    BY <1>0, <1>13 DEF Replaying
  <2>3. ASSUME cursor > CheckpointInterval PROVE FALSE
    <3>1. PICK j \in 1..CheckpointInterval : logFile[j] = Torn
      BY <1>0, <2>2, <2>3 DEF CounterInv
    <3> QED BY <1>0, <2>1, <2>3, <3>1
  <2> QED BY <1>0, <2>2, <2>3
<1>14. ASSUME ReplayRecord PROVE CounterInv'
  <2>1. /\ Replaying /\ logFile[cursor] # Torn /\ logCount' = logCount + 1
        /\ cursor' = cursor + 1 /\ logFile' = logFile /\ thr' = thr /\ proc' = "replaying"
        /\ proc = "replaying"
    BY <1>14 DEF ReplayRecord, Replaying, files
  <2>2. logCount = cursor - 1 /\ \A j \in 1..logCount : logFile[j] # Torn
    BY <2>1 DEF CounterInv
  <2>3. ~Serving /\ ~Serving'
    BY <2>1 DEF Serving
  <2>4. \A s \in Thread : ~At(s, Appending) /\ ~At(s, Appending)'
    BY <1>11, <2>1, <2>3 DEF At
  <2>5. logCount' <= CheckpointInterval /\ logCount' = cursor
    BY <1>0, <1>13, <2>1, <2>2
  <2>6. \A j \in 1..logCount' : logFile[j] # Torn
    BY <1>0, <2>1, <2>2, <2>5
  <2>7. Replayed' => logCount' = Appended'
    <3>1. Appended' = Len(logFile)
      BY <1>0, <2>1, <2>4, AppendedThen
    <3>2. cursor \in 1..Len(logFile)
      BY <1>13, <2>1
    <3>3. cursor + 1 > Len(logFile) => cursor = Len(logFile)
      <4>1. \A c, m \in Nat : c \in 1..m /\ c + 1 > m => c = m
        OBVIOUS
      <4> QED BY <1>0, <3>2, <4>1
    <3>4. Replayed' => cursor + 1 > Len(logFile)
      BY <2>1 DEF Replayed
    <3> QED BY <2>5, <3>1, <3>3, <3>4
  <2> QED BY <1>0, <2>1, <2>3, <2>4, <2>5, <2>6, <2>7 DEF CounterInv
<1>15. ASSUME ReplayTorn PROVE CounterInv'
  <2>1. /\ Replaying /\ logFile[cursor] = Torn /\ logFile' = logFile /\ thr' = thr
        /\ proc = "replaying"
    BY <1>15 DEF ReplayTorn, Replaying, files
  <2>2. \/ logCount' = logCount + 1 /\ cursor' = Len(logFile) + 1
        \/ logCount' = logCount /\ proc' = "aborted"
    BY <1>0, <1>15 DEF ReplayTorn
  <2>3. logCount = cursor - 1 /\ cursor \in 1..Len(logFile)
    BY <1>13, <2>1 DEF CounterInv
  <2>4. ~Serving /\ ~Serving' /\ proc' # "down"
    BY <1>15, <2>1 DEF Serving, ReplayTorn
  <2>5. \A s \in Thread : ~At(s, Appending) /\ ~At(s, Appending)'
    BY <1>11, <2>1, <2>4 DEF At
  <2>6. logCount' <= CheckpointInterval
    BY <1>0, <1>13, <2>1, <2>2, <2>3
  <2>7. ~Replaying'
    BY <1>0, <2>1, <2>2 DEF Replaying
  <2>8. Replayed' => \E j \in 1..logCount' : j <= Appended' /\ logFile'[j] = Torn
    <3>1. Appended' = Len(logFile)
      BY <1>0, <2>1, <2>5, AppendedThen
    <3>2. Replayed' => logCount' = cursor
      BY <1>0, <2>2, <2>3 DEF Replayed
    <3> QED BY <1>0, <2>1, <2>3, <3>1, <3>2
  <2> QED BY <1>0, <2>1, <2>4, <2>5, <2>6, <2>7, <2>8 DEF CounterInv
<1>16. ASSUME SignUpAdmin PROVE CounterInv'
  <2>1. /\ Replayed /\ ~Serving /\ Serving' /\ logCount' = logCount /\ logFile' = logFile
        /\ ~Replaying' /\ proc' # "down"
    BY <1>16 DEF SignUpAdmin, Replayed, Replaying, Serving, files
  <2>2. \A s \in Thread : ~At(s, Appending)
    BY <1>11, <2>1
  <2>3. \A s \in Thread : ~At(s, Appending)'
    BY <1>16, <2>2 DEF SignUpAdmin, At, Appending, TypeOK
  <2>4. Appended' = Appended
    BY <2>1, <2>2, <2>3 DEF Appended
  <2> QED BY <2>1, <2>3, <2>4 DEF CounterInv
<1>17. ASSUME Listen PROVE CounterInv'
  BY <1>17, CounterKept DEF Listen, memory, files, Serving, At
<1>18. CASE UNCHANGED vars
  BY <1>18, CounterKept DEF vars, memory, files, At
<1> QED
  BY <1>1, <1>2, <1>3, <1>4, <1>5, <1>6, <1>7, <1>8, <1>9, <1>10, <1>12, <1>14, <1>15,
     <1>16, <1>17, <1>18 DEF Next, WriteLog, Start

-----------------------------------------------------------------------------
(* The theorems.                                                            *)

LEMMA InitDurable == Init => DurableInv
<1> SUFFICES ASSUME Init PROVE DurableInv
  OBVIOUS
<1>1. TypeOK
  BY InitType
<1>2. \A t \in Thread : thr[t] = Idle
  BY DEF Init
<1>3. ThreadInv
  BY <1>2, IdleFacts, WritingPCs, DurableAssumption DEF Init, ThreadInv, Thread
<1>4. LogInv
  BY <1>2, IdleFacts DEF Init, LogInv, At, Appending
<1>5. MemoryInv /\ DiskInv /\ ReplayInv
  BY <1>2, IdleFacts DEF Init, MemoryInv, DiskInv, ReplayInv, At
<1>6. FileInv
  BY DEF Init, FileInv, NoFile
<1>7. CounterInv
  <2>1. Appended = 0
    BY <1>2, IdleFacts DEF Init, Appended, At, Appending
  <2> QED BY <1>2, <2>1, IdleFacts, DurableAssumption
        DEF Init, CounterInv, At, Appending, Replaying
<1> QED BY <1>1, <1>3, <1>4, <1>5, <1>6, <1>7 DEF DurableInv

LEMMA DurableInvStep == DurableInv /\ [Next]_vars => DurableInv'
<1> SUFFICES ASSUME DurableInv, [Next]_vars PROVE DurableInv'
  OBVIOUS
<1>1. TypeOK'
  BY StepType DEF DurableInv
<1> QED BY <1>1, ThreadInvStep, LogInvStep, MemoryInvStep, DiskInvStep, ReplayInvStep,
           FileInvStep, CounterInvStep DEF DurableInv

(* DurableInv holds in every reachable state, for any number of threads,    *)
(* rows and crashes.                                                        *)
THEOREM DurableInvariant == Spec => []DurableInv
BY InitDurable, DurableInvStep, PTL DEF Spec

(* Every variable keeps its type.                                           *)
THEOREM TypeCorrect == Spec => []TypeOK
<1>1. DurableInv => TypeOK
  BY DEF DurableInv
<1> QED BY <1>1, DurableInvariant, PTL

(* No acknowledged put is lost by a crash that cuts no file: it is in the   *)
(* memory of every later life of the server, or was overwritten by a later  *)
(* write (write_log, dump_checkpoint, load_checkpoint, replay_log).         *)
THEOREM AcknowledgedPutsAreDurable == Spec => []Durable
<1>1. DurableInv => Durable
  BY DEF DurableInv, MemoryInv, Durable, Serving
<1> QED BY <1>1, DurableInvariant, PTL

(* A restart fails only if a crash cut a file: neither dump_checkpoint nor  *)
(* write_log leaves one that the constructor cannot read                    *)
(* (load_checkpoint, replay_log).                                           *)
THEOREM RestartsSucceed == Spec => []StartsAgain
<1>1. DurableInv => StartsAgain
  BY DEF DurableInv, FileInv, StartsAgain
<1> QED BY <1>1, DurableInvariant, PTL

(* Whatever the threads, checkpoints and crashes before, log_count is the   *)
(* number of records in the log when no write_log runs, and the log is no   *)
(* longer than CHECKPOINT_INTERVAL.                                         *)
THEOREM CounterIsRight == Spec => []CounterMatchesLog
<1>1. DurableInv => CounterMatchesLog
  <2> SUFFICES ASSUME DurableInv, proc = "up", mutex = NoThread
               PROVE  (logCount = Len(logFile) \/ damaged) /\ logCount <= CheckpointInterval
    BY DEF CounterMatchesLog
  <2> USE DEF DurableInv
  <2>1. \A t \in Thread : ~At(t, Appending)
    BY Nobody, WritingPCs DEF At
  <2>2. Appended = Len(logFile) /\ Len(logFile) \in Nat
    BY <2>1, AppendedIs DEF TypeOK
  <2>3. ~damaged => \A i \in DOMAIN logFile : logFile[i] # Torn
    BY <2>1 DEF LogInv
  <2>4. \/ logCount = Len(logFile)
        \/ \E j \in 1..logCount : j <= Len(logFile) /\ logFile[j] = Torn
    BY <2>2 DEF CounterInv, Serving
  <2>5. \A j \in 1..logCount : j <= Len(logFile) => j \in DOMAIN logFile
    BY <2>2 DEF TypeOK
  <2> QED BY <2>3, <2>4, <2>5 DEF CounterInv
<1> QED BY <1>1, DurableInvariant, PTL

-----------------------------------------------------------------------------
(* What a restart rebuilds.  With one thread that serves and no "logout"    *)
(* (which replay_log does not know) it rebuilds exactly the table that the  *)
(* crash took (RecoveryExact), and acknowledged mails are in their          *)
(* mailboxes (MailDurable).                                                 *)

-----------------------------------------------------------------------------
(* Rebuild: the recursion of replay_log over the records.                   *)

IsRun(run, base, log, n) ==
    run = [i \in 0..n |-> IF i = 0 THEN base ELSE ReplayEffect(run[i - 1], log[i])]

LEMMA RunExists ==
    ASSUME NEW base, NEW log, NEW n \in Nat
    PROVE  \E run : IsRun(run, base, log, n)
<1> DEFINE Has(m) == \E run : IsRun(run, base, log, m)
           Fails == {m \in Nat : ~Has(m)}
<1> SUFFICES ASSUME Fails # {} PROVE FALSE
  OBVIOUS
<1>1. PICK m \in Fails : \A j \in Fails : m <= j
  <2>1. Fails \in SUBSET Nat
    OBVIOUS
  <2> HIDE DEF Fails
  <2> QED BY <2>1, LeastNat
<1>2. m \in Nat /\ ~Has(m)
  OBVIOUS
<1>3. CASE m = 0
  <2> DEFINE run == [i \in 0..0 |-> base]
  <2>1. run = [i \in 0..0 |-> IF i = 0 THEN base ELSE ReplayEffect(run[i - 1], log[i])]
    OBVIOUS
  <2> HIDE DEF run
  <2> QED BY <1>2, <1>3, <2>1 DEF IsRun
<1>4. CASE m # 0
  <2>1. m - 1 \in Nat /\ m - 1 \notin Fails
    BY <1>1, <1>2, <1>4
  <2>2. PICK old : IsRun(old, base, log, m - 1)
    BY <2>1
  <2> DEFINE run == [i \in 0..m |-> IF i = m THEN ReplayEffect(old[m - 1], log[m]) ELSE old[i]]
  <2>3. \A i \in 0..(m - 1) :
           old[i] = IF i = 0 THEN base ELSE ReplayEffect(old[i - 1], log[i])
    BY <2>2 DEF IsRun
  <2>4. ASSUME NEW i \in 0..m
        PROVE  run[i] = IF i = 0 THEN base ELSE ReplayEffect(run[i - 1], log[i])
    <3>1. CASE i = m
      <4>1. run[i] = ReplayEffect(old[m - 1], log[m])
        BY <3>1
      <4>2. run[i - 1] = old[m - 1]
        BY <1>2, <1>4, <3>1
      <4> QED BY <1>4, <3>1, <4>1, <4>2
    <3>2. CASE i # m
      <4>1. i \in 0..(m - 1) /\ run[i] = old[i]
        BY <1>2, <3>2
      <4>2. i # 0 => i - 1 \in 0..m /\ i - 1 # m
        BY <1>2, <3>2
      <4>3. i # 0 => run[i - 1] = old[i - 1]
        BY <4>2
      <4> HIDE DEF run
      <4> QED BY <2>3, <4>1, <4>3
    <3> QED BY <3>1, <3>2
  <2>5. run = [i \in 0..m |-> run[i]]
    OBVIOUS
  <2> HIDE DEF run
  <2>6. IsRun(run, base, log, m)
    BY <2>4, <2>5 DEF IsRun
  <2> QED BY <1>2, <2>6
<1> QED BY <1>3, <1>4

\* Two logs that agree on their first records have the same runs on them.
LEMMA RunsAgree ==
    ASSUME NEW base, NEW log1, NEW log2, NEW n1 \in Nat, NEW n2 \in Nat,
           NEW run1, IsRun(run1, base, log1, n1),
           NEW run2, IsRun(run2, base, log2, n2),
           NEW k \in Nat, k <= n1, k <= n2,
           \A i \in 1..k : log1[i] = log2[i]
    PROVE  run1[k] = run2[k]
<1> DEFINE Bad == {i \in 0..k : run1[i] # run2[i]}
<1> SUFFICES ASSUME Bad # {} PROVE FALSE
  OBVIOUS
<1>1. PICK i \in Bad : \A j \in Bad : i <= j
  <2>1. Bad \in SUBSET Nat
    OBVIOUS
  <2> HIDE DEF Bad
  <2> QED BY <2>1, LeastNat
<1>2. i \in 0..k /\ run1[i] # run2[i] /\ i \in 0..n1 /\ i \in 0..n2
  OBVIOUS
<1>3. /\ run1[i] = IF i = 0 THEN base ELSE ReplayEffect(run1[i - 1], log1[i])
      /\ run2[i] = IF i = 0 THEN base ELSE ReplayEffect(run2[i - 1], log2[i])
  BY <1>2 DEF IsRun
<1>4. i # 0
  BY <1>2, <1>3
<1>5. i - 1 \in 0..k /\ ~(i <= i - 1) /\ i \in 1..k
  BY <1>2, <1>4
<1>6. run1[i - 1] = run2[i - 1]
  BY <1>1, <1>5
<1> QED BY <1>2, <1>3, <1>4, <1>5, <1>6

LEMMA RebuildIs ==
    ASSUME NEW base, NEW log \in Seq(LogEntry)
    PROVE  \E run : IsRun(run, base, log, Len(log)) /\ Rebuild(base, log) = run[Len(log)]
<1> DEFINE run == CHOOSE f : IsRun(f, base, log, Len(log))
<1>1. Len(log) \in Nat
  OBVIOUS
<1>2. \E f : IsRun(f, base, log, Len(log))
  BY <1>1, RunExists
<1>3. IsRun(run, base, log, Len(log))
  BY <1>2
<1>4. Rebuild(base, log) = run[Len(log)]
  BY Zenon DEF Rebuild, IsRun
<1> QED BY <1>3, <1>4

LEMMA RebuildEmpty ==
    ASSUME NEW base
    PROVE  Rebuild(base, <<>>) = base
<1>1. <<>> \in Seq(LogEntry) /\ Len(<<>>) = 0
  OBVIOUS
<1>2. PICK run : IsRun(run, base, <<>>, 0) /\ Rebuild(base, <<>>) = run[0]
  BY <1>1, RebuildIs
<1> QED BY <1>2 DEF IsRun

LEMMA RebuildAppend ==
    ASSUME NEW base, NEW log \in Seq(LogEntry), NEW op \in LogEntry
    PROVE  Rebuild(base, Append(log, op)) = ReplayEffect(Rebuild(base, log), op)
<1> DEFINE n == Len(log)
           more == Append(log, op)
<1>1. /\ n \in Nat /\ more \in Seq(LogEntry) /\ Len(more) = n + 1 /\ more[n + 1] = op
      /\ \A i \in 1..n : more[i] = log[i]
  BY AppendProperties
<1>2. PICK run1 : IsRun(run1, base, log, n) /\ Rebuild(base, log) = run1[n]
  BY RebuildIs
<1> HIDE DEF n, more
<1>3. PICK run2 : IsRun(run2, base, more, n + 1) /\ Rebuild(base, more) = run2[n + 1]
  BY <1>1, RebuildIs
<1>4. n + 1 \in 0..(n + 1) /\ n + 1 # 0 /\ (n + 1) - 1 = n /\ n + 1 \in Nat /\ n <= n + 1 /\ n <= n
  BY <1>1
<1>5. run2[n + 1] = ReplayEffect(run2[n], op)
  BY <1>1, <1>3, <1>4 DEF IsRun
<1>6. run1[n] = run2[n]
  BY <1>1, <1>2, <1>3, <1>4, RunsAgree
<1> QED BY <1>2, <1>3, <1>5, <1>6 DEF more

-----------------------------------------------------------------------------
(* What the commands do to a coherent table.                                *)

\* What a command that is logged makes of a coherent table.
LEMMA EffectCoherent ==
    ASSUME NEW tab \in Table, NEW op \in Op, NEW n \in Time, Simple(op), Recorded(tab, op),
           Coherent(tab, n), op.time = n \/ (op.kind = "register" /\ op.time <= n)
    PROVE  /\ Coherent(Effect(tab, op), n)
           /\ \A w \in User, id \in Time :
                 HasMail(tab, w, id) /\ ~(op.kind = "deleteemail" /\ op.user = w /\ op.id = id)
                    => HasMail(Effect(tab, op), w, id)
           /\ op.kind = "putemail" => HasMail(Effect(tab, op), op.user, op.time)
<1> DEFINE new == Effect(tab, op)
           c == <<op.user, op.col>>
<1>0. /\ op.user \in User /\ op.val \in Val /\ op.val \in Value /\ op.id \in Time
      /\ op.time \in Time /\ op.kind \in Kind /\ op.col \in Column /\ op.time <= n
  BY KvAssumption DEF Op, Value, Time
<1>1. Timely(tab, n)
  BY DEF Coherent, Timely
<1>2. SUFFICES /\ Timely(new, n)
               /\ op.kind = "putemail" => HasMail(new, op.user, op.time)
               /\ \A w \in User, id \in Time :
                     /\ HasMail(tab, w, id)
                        /\ ~(op.kind = "deleteemail" /\ op.user = w /\ op.id = id)
                           => HasMail(new, w, id)
                     /\ Present(new, <<w, MailCol(id)>>) => HasMail(new, w, id)
  BY DEF Coherent, Timely
<1>3. \A w \in User, id \in Time : Present(tab, <<w, MailCol(id)>>) => HasMail(tab, w, id)
  BY DEF Coherent
<1>4. CASE op.kind \in {"put", "cput", "delete"}
  <2>1. op.col \in NamedCol \ {MailboxCol} /\ c \in Cell
    BY <1>0, <1>4, ColumnsDiffer, CellTypes DEF Simple, Harmless, NamedCol
  <2>2. new = tab \/ new = Insert(tab, c, op.val, op.time) \/ new = Erase(tab, c, op.time)
    BY <1>4, Zenon DEF Effect
  <2>3. SameMail(tab, tab)
    BY DEF SameMail
  <2>4. Timely(new, n) /\ SameMail(new, tab)
    <3>1. CASE new = tab
      BY <1>1, <2>3, <3>1
    <3>2. CASE new = Insert(tab, c, op.val, op.time)
      BY <1>0, <1>1, <2>1, <3>2, PutTimely, OtherColumns
    <3>3. CASE new = Erase(tab, c, op.time)
      BY <1>0, <1>1, <2>1, <3>3, EraseTimely, OtherColumns
    <3> HIDE DEF new, c
    <3> QED BY <2>2, <3>1, <3>2, <3>3
  <2> HIDE DEF new
  <2> QED BY <1>3, <1>4, <2>4, SameMailFacts
<1>5. CASE op.kind = "register"
  <2>1. ~HasUser(tab, op.user) /\ new = SignUp(tab, op.user, op.val, op.time)
    BY <1>5 DEF Effect, Recorded, Succeeds
  <2>2. Timely(new, n)
    BY <1>0, <1>1, <2>1, SignUpTimely
  <2> HIDE DEF new
  <2>3. \A w \in User, id \in Time :
           /\ HasMail(tab, w, id) => HasMail(new, w, id)
           /\ Present(new, <<w, MailCol(id)>>) => Present(tab, <<w, MailCol(id)>>)
    BY <1>0, <2>1, SignUpMails
  <2> QED BY <1>3, <1>5, <2>2, <2>3
<1>6. CASE op.kind = "putemail"
  <2>1. new = SendMail(tab, op.user, op.val, op.time) /\ op.time = n
    BY <1>6 DEF Effect, Recorded
  <2> HIDE DEF new
  <2>2. /\ Timely(new, n) /\ HasMail(new, op.user, op.time)
        /\ \A w \in User, id \in Time :
              /\ HasMail(tab, w, id) => HasMail(new, w, id)
              /\ Present(new, <<w, MailCol(id)>>)
                    => Present(tab, <<w, MailCol(id)>>) \/ (w = op.user /\ id = op.time)
    BY <1>0, <1>1, <2>1, SendMailFacts
  <2> QED BY <1>3, <1>6, <2>2
<1>7. CASE op.kind = "deleteemail"
  <2>1. /\ HasMail(tab, op.user, op.id) /\ op.time = n
        /\ new = DeleteMail(tab, op.user, op.id, op.time)
    BY <1>7 DEF Effect, Recorded, Succeeds
  <2> HIDE DEF new
  <2>2. /\ Timely(new, n)
        /\ \A w \in User, j \in Time :
              /\ HasMail(tab, w, j) /\ ~(w = op.user /\ j = op.id) => HasMail(new, w, j)
              /\ Present(new, <<w, MailCol(j)>>)
                    => Present(tab, <<w, MailCol(j)>>) /\ ~(w = op.user /\ j = op.id)
    BY <1>0, <1>1, <2>1, DeleteMailFacts
  <2> QED BY <1>3, <1>7, <2>2
<1>8. CASE op.kind = "none"
  BY <1>1, <1>3, <1>8 DEF Effect
<1> QED BY <1>0, <1>4, <1>5, <1>6, <1>7, <1>8 DEF Kind, Simple

\* A command that is not logged leaves a coherent table as it is.
LEMMA FailedIsSilent ==
    ASSUME NEW tab \in Table, NEW op \in Op, NEW n \in Time, Coherent(tab, n),
           Simple(op), ~Recorded(tab, op)
    PROVE  Effect(tab, op) = tab
<1>0. op.user \in User /\ op.id \in Time /\ op.kind \in Kind
  BY DEF Op
<1>1. ~Succeeds(tab, op) /\ op.kind \notin {"put", "delete", "logout", "none"}
  BY DEF Recorded, Simple, Succeeds
<1>2. CASE op.kind = "deleteemail"
  <2>1. ~HasMail(tab, op.user, op.id)
    BY <1>1, <1>2 DEF Succeeds
  <2>2. ~Present(tab, <<op.user, MailCol(op.id)>>)
    BY <1>0, <2>1 DEF Coherent
  <2>3. DeleteMail(tab, op.user, op.id, op.time) = tab
    BY <2>1, <2>2 DEF DeleteMail, Erase
  <2> QED BY <1>2, <2>3 DEF Effect
<1>3. CASE op.kind \in {"cput", "register", "putemail"}
  BY <1>1, <1>3 DEF Effect
<1> QED BY <1>0, <1>1, <1>2, <1>3 DEF Kind

LEMMA ReplayIsEffect ==
    ASSUME NEW tab, NEW op, Simple(op)
    PROVE  ReplayEffect(tab, op) = Effect(tab, op)
BY DEF ReplayEffect, Simple

LEMMA TornIsNothing == \A tab : ReplayEffect(tab, Torn) = tab
BY NoOpType DEF ReplayEffect, Effect, Torn

LEMMA SimpleOps == Simple(NoOp) /\ Simple(AdminOp) /\ NoOp.time = 0 /\ AdminOp.time = 0
BY DEF Simple, Harmless, NoOp, AdminOp, RegisterOp, Command

LEMMA RequestSimple ==
    ASSUME NEW m \in Time, NEW op \in Requests(m), "logout" \notin Kinds
    PROVE  Simple(op)
BY RequestHarmless DEF Requests, Simple

-----------------------------------------------------------------------------
(* SoleInv: at most one thread has a command.                               *)

OneThread == \A s, t \in Worker : s = t

LEMMA SoleKept ==
    ASSUME TypeOK', SoleInv, thr' = thr, now' = now,
           proc' = "up" => At(Main, "idle"),
           proc' # "up" => \A t \in Worker : At(t, "idle")
    PROVE  SoleInv'
BY DEF SoleInv, At

LEMMA SoleMoved ==
    ASSUME TypeOK, TypeOK', SoleInv, NEW t \in Thread, NEW pc \in PC, Step(t, pc),
           thr[t].pc # "idle", pc \notin {"idle", "stamped"}, proc' = proc, now' = now
    PROVE  SoleInv'
<1>1. /\ thr'[t].pc = pc /\ thr'[t].op = thr[t].op
      /\ \A s \in Thread \ {t} : thr'[s] = thr[s]
  BY DEF Step, TypeOK
<1>2. proc = "up" => t \in Worker
  BY DEF SoleInv, At, Thread
<1>3. \A s \in Worker : s \in Thread /\ s # Main
  BY DurableAssumption DEF Thread
<1>4. proc # "up" => t = Main
  BY DEF SoleInv, At, Thread
<1>5. \A s \in Thread \ {t} : thr[s].pc = "idle"
  BY DEF SoleInv
<1>6. \A s \in Thread : Simple(thr'[s].op) /\ thr'[s].op.time <= now'
  BY <1>1 DEF SoleInv
<1>7. \A s \in Thread : At(s, "stamped")' => thr'[s].op.time = now'
  BY <1>1, <1>5 DEF At
<1>8. \A s \in Thread : At(s, "idle")' => thr'[s] = Idle
  BY <1>1 DEF SoleInv, At
<1>9. \A s, u \in Thread : thr'[s].pc # "idle" /\ thr'[u].pc # "idle" => s = u
  BY <1>1, <1>5
<1>10. proc' = "up" => At(Main, "idle")'
  BY <1>1, <1>2, <1>3 DEF SoleInv, At, Thread
<1>11. proc' # "up" => \A s \in Worker : At(s, "idle")'
  BY <1>1, <1>3, <1>4 DEF SoleInv, At
<1> QED BY <1>6, <1>7, <1>8, <1>9, <1>10, <1>11 DEF SoleInv

LEMMA SoleStopped ==
    ASSUME TypeOK, TypeOK', SoleInv, NEW t \in Thread, thr' = [thr EXCEPT ![t] = Idle],
           proc' = proc, now' = now
    PROVE  SoleInv'
<1>1. thr'[t] = Idle /\ \A s \in Thread \ {t} : thr'[s] = thr[s]
  BY ThreadStops
<1>2. Idle.pc = "idle" /\ Simple(Idle.op) /\ Idle.op.time <= now
  BY IdleFacts, SimpleOps, KvAssumption DEF TypeOK, Time
<1>3. \A s \in Thread : thr'[s] = Idle \/ thr'[s] = thr[s]
  BY <1>1
<1>4. Main \in Thread /\ Worker \subseteq Thread
  BY DEF Thread
<1>5. \A s \in Thread : thr'[s].pc # "idle" => s # t
  BY <1>1, <1>2
<1>6. \A s, u \in Thread : thr'[s].pc # "idle" /\ thr'[u].pc # "idle" => s = u
  BY <1>1, <1>5 DEF SoleInv
<1>7. /\ proc' = "up" => At(Main, "idle")'
      /\ proc' # "up" => \A s \in Worker : At(s, "idle")'
  BY <1>2, <1>3, <1>4 DEF SoleInv, At
<1>8. \A s \in Thread : Simple(thr'[s].op) /\ thr'[s].op.time <= now'
  BY <1>2, <1>3 DEF SoleInv
<1>9. \A s \in Thread : At(s, "stamped")' => thr'[s].op.time = now'
  BY <1>2, <1>3 DEF SoleInv, At
<1>10. \A s \in Thread : At(s, "idle")' => thr'[s] = Idle
  BY <1>3 DEF SoleInv, At
<1> QED BY <1>6, <1>7, <1>8, <1>9, <1>10 DEF SoleInv

LEMMA SoleInvStep ==
    ASSUME DurableInv, SoleInv, DurableInv', [Next]_vars, OneThread, "logout" \notin Kinds
    PROVE  SoleInv'
<1> USE DEF DurableInv
<1>0. Main \in Thread /\ Worker \subseteq Thread /\ Main \notin Worker
  BY DurableAssumption DEF Thread
<1>1. ASSUME NEW t \in Worker, Request(t) PROVE SoleInv'
  <2>1. /\ now + 1 \in Time /\ now' = now + 1 /\ now \in Int /\ proc' = proc /\ proc = "up"
        /\ At(t, "idle")
    BY <1>1, KvAssumption DEF Request, TypeOK, Time
  <2>2. PICK op \in Requests(now + 1) : thr' = [thr EXCEPT ![t] = [pc |-> "stamped", op |-> op]]
    BY <1>1 DEF Request
  <2>3. Simple(op) /\ op.time = now'
    BY <2>1, RequestSimple, RequestType
  <2>4. /\ thr'[t].pc = "stamped" /\ thr'[t].op = op
        /\ \A s \in Thread \ {t} : thr'[s] = thr[s]
    BY <1>0, <2>2 DEF TypeOK
  <2>5. \A s \in Thread \ {t} : thr[s].pc = "idle"
    BY <1>0, <2>1 DEF SoleInv, At, OneThread, Thread
  <2>6. \A s \in Thread : thr[s].op.time \in Time /\ thr[s].op.time <= now
    BY DEF SoleInv, TypeOK, Op
  <2>7. \A s \in Thread : thr'[s].op.time <= now'
    BY <2>1, <2>3, <2>4, <2>6, KvAssumption DEF Time
  <2>8. \A s \in Thread : Simple(thr'[s].op)
    BY <2>3, <2>4 DEF SoleInv
  <2>9. \A s \in Thread : At(s, "stamped")' => thr'[s].op.time = now'
    BY <2>3, <2>4, <2>5 DEF At
  <2>10. \A s \in Thread : At(s, "idle")' => thr'[s] = Idle
    BY <2>4 DEF SoleInv, At
  <2>11. \A s, u \in Thread : thr'[s].pc # "idle" /\ thr'[u].pc # "idle" => s = u
    BY <2>4, <2>5
  <2>12. proc' = "up" /\ At(Main, "idle")'
    BY <1>0, <2>1, <2>4 DEF SoleInv, At
  <2> QED BY <2>7, <2>8, <2>9, <2>10, <2>11, <2>12 DEF SoleInv
<1>2. ASSUME NEW t \in Worker, Apply(t) PROVE SoleInv'
  <2>1. CASE Recorded(table, thr[t].op)
    BY <1>0, <1>2, <2>1, SoleMoved DEF Apply, At, PC
  <2>2. CASE ~Recorded(table, thr[t].op)
    BY <1>0, <1>2, <2>2, SoleStopped DEF Apply
  <2> QED BY <2>1, <2>2
<1>3. ASSUME NEW t \in Thread, BeginAppend(t) PROVE SoleInv'
  BY <1>3, SoleMoved DEF BeginAppend, At, PC, Writing, Appending
<1>4. ASSUME NEW t \in Thread, EndAppend(t) PROVE SoleInv'
  BY <1>4, SoleStopped DEF EndAppend, Finish
<1>5. ASSUME NEW t \in Thread, TruncateLog(t) PROVE SoleInv'
  BY <1>5, SoleMoved DEF TruncateLog, At, PC, Writing, Dumping
<1>6. ASSUME NEW t \in Thread, OpenCheckpoint(t) PROVE SoleInv'
  BY <1>6, SoleMoved DEF OpenCheckpoint, At, PC, Writing, Dumping
<1>7. ASSUME NEW t \in Thread, DumpVersion(t) PROVE SoleInv'
  BY <1>7, SoleMoved DEF DumpVersion, At, PC, Writing, Dumping
<1>8. ASSUME NEW t \in Thread, DumpRow(t) PROVE SoleInv'
  BY <1>8, SoleKept DEF DumpRow, SoleInv
<1>9. ASSUME NEW t \in Thread, CloseCheckpoint(t) PROVE SoleInv'
  BY <1>9, SoleStopped DEF CloseCheckpoint, Finish
<1>10. ASSUME Crash PROVE SoleInv'
  <2>1. \A s \in Thread : thr'[s] = Idle
    BY <1>10 DEF Crash
  <2>2. now' = now /\ proc' = "down" /\ 0 <= now
    BY <1>10, KvAssumption DEF Crash, TypeOK, Time
  <2> QED BY <1>0, <2>1, <2>2, IdleFacts, SimpleOps DEF SoleInv, At
<1>11. ASSUME LoadCheckpoint PROVE SoleInv'
  BY <1>11, SoleKept DEF LoadCheckpoint, SoleInv
<1>12. ASSUME ReplayRecord PROVE SoleInv'
  BY <1>12, SoleKept DEF ReplayRecord, Replaying, SoleInv
<1>13. ASSUME ReplayTorn PROVE SoleInv'
  BY <1>13, SoleKept DEF ReplayTorn, Replaying, SoleInv
<1>14. ASSUME SignUpAdmin PROVE SoleInv'
  <2>1. CASE HasUser(table, Admin)
    BY <1>14, <2>1, SoleKept DEF SignUpAdmin, Replayed, SoleInv
  <2>2. CASE ~HasUser(table, Admin)
    <3>1. /\ thr' = [thr EXCEPT ![Main] = [pc |-> "applied", op |-> AdminOp]]
          /\ now' = now /\ proc' = "starting" /\ 0 <= now /\ ~Serving
      BY <1>14, <2>2, KvAssumption DEF SignUpAdmin, Replayed, Serving, TypeOK, Time
    <3>2. \A s \in Thread : thr[s] = Idle
      BY <3>1 DEF ThreadInv
    <3>3. /\ thr'[Main].pc = "applied" /\ thr'[Main].op = AdminOp
          /\ \A s \in Thread \ {Main} : thr'[s] = Idle
      BY <1>0, <3>1, <3>2 DEF TypeOK
    <3>4. \A s \in Thread : Simple(thr'[s].op) /\ thr'[s].op.time <= now'
      BY <3>1, <3>3, IdleFacts, SimpleOps
    <3> QED BY <1>0, <3>1, <3>3, <3>4, IdleFacts DEF SoleInv, At
  <2> QED BY <2>1, <2>2
<1>15. ASSUME Listen PROVE SoleInv'
  BY <1>15, SoleKept DEF Listen, memory, SoleInv
<1>16. CASE UNCHANGED vars
  BY <1>16, SoleKept DEF vars, memory, SoleInv
<1> QED
  BY <1>1, <1>2, <1>3, <1>4, <1>5, <1>6, <1>7, <1>8, <1>9, <1>10, <1>11, <1>12, <1>13,
     <1>14, <1>15, <1>16 DEF Next, WriteLog, Start

-----------------------------------------------------------------------------
(* The files: what a step makes of what a restart would rebuild.            *)

LEMMA DiskSame ==
    ASSUME logFile' = logFile, ckpt'.table = ckpt.table
    PROVE  OnDisk' = OnDisk
BY DEF OnDisk

LEMMA LogEnds ==
    ASSUME NEW log \in Seq(LogEntry), Len(log) > 0, NEW op \in LogEntry
    PROVE  \E front \in Seq(LogEntry) :
              /\ log = Append(front, log[Len(log)])
              /\ [log EXCEPT ![Len(log)] = op] = Append(front, op)
<1> DEFINE n == Len(log)
           front == SubSeq(log, 1, n - 1)
           new == [log EXCEPT ![n] = op]
<1>1. n \in Nat \ {0} /\ n \in 1..n /\ DOMAIN log = 1..n /\ \A i \in 1..n : log[i] \in LogEntry
  OBVIOUS
<1>2. /\ new \in Seq(LogEntry) /\ Len(new) = n
      /\ \A i \in 1..n : new[i] = IF i = n THEN op ELSE log[i]
  BY <1>1, ExceptSeq
<1> HIDE DEF n
<1>3. /\ front \in Seq(LogEntry) /\ Len(front) = n - 1
      /\ \A i \in 1..(n - 1) : front[i] = log[i]
  <2>1. /\ SubSeq(log, 1, n - 1) \in Seq(LogEntry)
        /\ Len(SubSeq(log, 1, n - 1)) = IF 1 <= n - 1 THEN (n - 1) - 1 + 1 ELSE 0
        /\ \A i \in 1..((n - 1) - 1 + 1) : SubSeq(log, 1, n - 1)[i] = log[1 + i - 1]
    BY <1>1, SubSeqProperties
  <2> QED BY <1>1, <2>1
<1> HIDE DEF front, new
<1>4. ASSUME NEW e \in LogEntry
      PROVE  /\ Append(front, e) \in Seq(LogEntry) /\ Len(Append(front, e)) = n
             /\ \A i \in 1..(n - 1) : Append(front, e)[i] = log[i]
             /\ Append(front, e)[n] = e
  <2>1. /\ Append(front, e) \in Seq(LogEntry) /\ Len(Append(front, e)) = Len(front) + 1
        /\ \A i \in 1..Len(front) : Append(front, e)[i] = front[i]
        /\ Append(front, e)[Len(front) + 1] = e
    BY <1>3, AppendProperties
  <2>2. Len(front) + 1 = n
    BY <1>1, <1>3
  <2> QED BY <1>3, <2>1, <2>2
<1>5. \A i \in 1..n : i = n \/ i \in 1..(n - 1)
  BY <1>1
<1>6. log = Append(front, log[n])
  <2>1. log[n] \in LogEntry
    BY <1>1
  <2>2. /\ Append(front, log[n]) \in Seq(LogEntry) /\ Len(Append(front, log[n])) = n
        /\ \A i \in 1..n : Append(front, log[n])[i] = log[i]
    BY <1>4, <1>5, <2>1
  <2>3. Len(log) = n
    BY DEF n
  <2> QED BY <2>2, <2>3, SeqEqual
<1>7. new = Append(front, op)
  <2>1. /\ Append(front, op) \in Seq(LogEntry) /\ Len(Append(front, op)) = n
        /\ \A i \in 1..n : Append(front, op)[i] = new[i]
    BY <1>1, <1>2, <1>4, <1>5
  <2> QED BY <1>2, <2>1, SeqEqual
<1> QED BY <1>3, <1>6, <1>7 DEF n, new

LEMMA AppendBegins ==
    ASSUME TypeOK, NEW t \in Thread, BeginAppend(t)
    PROVE  OnDisk' = OnDisk
<1>1. logFile' = Append(logFile, Torn) /\ ckpt' = ckpt
  BY DEF BeginAppend
<1>2. Torn \in LogEntry /\ logFile \in Seq(LogEntry)
  BY NoOpType DEF Torn, LogEntry, TypeOK
<1>3. Rebuild(ckpt.table, Append(logFile, Torn)) = ReplayEffect(Rebuild(ckpt.table, logFile), Torn)
  BY <1>2, RebuildAppend
<1> QED BY <1>1, <1>3, TornIsNothing DEF OnDisk

\* The text of a record takes the place of the torn one: what was missing on
\* disk is there.
LEMMA AppendEnds ==
    ASSUME DurableInv, SoleInv, TableInv, Intact, NEW t \in Thread, EndAppend(t)
    PROVE  OnDisk' = table
<1> USE DEF DurableInv
<1>1. /\ At(t, Appending) /\ logFile' = [logFile EXCEPT ![Len(logFile)] = thr[t].op]
      /\ ckpt' = ckpt
  BY DEF EndAppend
<1>2. /\ logFile \in Seq(LogEntry) /\ Len(logFile) > 0 /\ logFile[Len(logFile)] = Torn
      /\ thr[t].op \in LogEntry /\ Torn \in LogEntry
  BY <1>1, NoOpType DEF TypeOK, LogInv, LogEntry, Torn
<1>3. PICK front \in Seq(LogEntry) :
         logFile = Append(front, Torn) /\ logFile' = Append(front, thr[t].op)
  BY <1>1, <1>2, LogEnds
<1>4. OnDisk = Rebuild(ckpt.table, front)
  <2>1. Rebuild(ckpt.table, Append(front, Torn)) = ReplayEffect(Rebuild(ckpt.table, front), Torn)
    BY <1>2, RebuildAppend
  <2> QED BY <1>3, <2>1, TornIsNothing DEF OnDisk
<1>5. OnDisk' = ReplayEffect(OnDisk, thr[t].op)
  <2>1. Rebuild(ckpt.table, Append(front, thr[t].op))
           = ReplayEffect(Rebuild(ckpt.table, front), thr[t].op)
    BY <1>2, RebuildAppend
  <2> QED BY <1>1, <1>3, <1>4, <2>1 DEF OnDisk
<1>6. ReplayEffect(OnDisk, thr[t].op) = Effect(OnDisk, thr[t].op)
  BY ReplayIsEffect DEF SoleInv
<1>7. table = Effect(OnDisk, thr[t].op)
  BY <1>1 DEF TableInv, At
<1> QED BY <1>5, <1>6, <1>7

\* A checkpoint is the table.
LEMMA CheckpointIsTable ==
    ASSUME DurableInv, TableInv, Intact, NEW t \in Thread, CloseCheckpoint(t)
    PROVE  OnDisk' = table
<1> USE DEF DurableInv
<1>1. /\ thr[t].pc = "dumping" /\ thr[t].pc \in Dumping /\ dumped = User
      /\ logFile' = logFile /\ ckpt'.table = ckpt.table
  BY DEF CloseCheckpoint, At, Dumping, TypeOK, CheckpointFile
<1>2. logFile = <<>> /\ \A c \in Place : c[1] \in dumped => ckpt.table[c] = table[c]
  BY <1>1 DEF TableInv, At
<1>3. \A c \in Place : c[1] \in User
  BY DEF Place
<1>4. \A c \in Place : ckpt.table[c] = table[c]
  BY <1>1, <1>2, <1>3
<1>5. ckpt.table \in Table /\ table \in Table
  BY DEF TypeOK, CheckpointFile
<1>6. ckpt.table = table
  BY <1>4, <1>5 DEF Table
<1>7. Rebuild(ckpt.table, <<>>) = ckpt.table
  BY RebuildEmpty
<1> QED BY <1>1, <1>2, <1>6, <1>7 DEF OnDisk

\* After the last record the table is what the files hold.
LEMMA RebuiltIsOnDisk ==
    ASSUME TypeOK, RecoveryInv, Intact, Replayed
    PROVE  table = OnDisk
<1>1. /\ cursor <= Len(logFile) + 1 /\ cursor > Len(logFile) /\ Len(logFile) \in Nat
      /\ cursor \in Nat
      /\ table = Rebuild(ckpt.table, SubSeq(logFile, 1, cursor - 1))
  BY DEF RecoveryInv, Replayed, TypeOK
<1>2. cursor - 1 = Len(logFile)
  <2>1. \A c, n \in Nat : c <= n + 1 /\ c > n => c - 1 = n
    OBVIOUS
  <2> QED BY <1>1, <2>1
<1>3. SubSeq(logFile, 1, Len(logFile)) = logFile
  BY SubSeqFull DEF TypeOK
<1> QED BY <1>1, <1>2, <1>3 DEF OnDisk

-----------------------------------------------------------------------------
(* TableInv: the table and the files.                                       *)

LEMMA Alone ==
    ASSUME SoleInv, NEW t \in Thread, thr[t].pc # "idle"
    PROVE  \A s \in Thread \ {t} : thr[s].pc = "idle"
BY DEF SoleInv

LEMMA CoherentLater ==
    ASSUME NEW tab \in Table, NEW m \in Time, NEW n \in Time, m <= n, Coherent(tab, m)
    PROVE  Coherent(tab, n)
<1>1. \A c \in Cell : tab[c].time \in Time
  BY EntryShape
<1> QED BY <1>1, KvAssumption DEF Coherent, Time

LEMMA TableKept ==
    ASSUME TableInv, table' = table, logFile' = logFile, ckpt' = ckpt, dumped' = dumped,
           thr' = thr, now' = now, (Intact' => Intact), Serving' => Serving
    PROVE  TableInv'
<1>1. OnDisk' = OnDisk
  BY DiskSame
<1> QED BY <1>1 DEF TableInv, At

\* While nobody serves only the files count.
LEMMA TableDown ==
    ASSUME TableInv, OnDisk' = OnDisk, now' = now, ~Serving',
           \A t \in Thread : thr'[t] = Idle,
           Intact' => Intact /\ \A t \in Thread : thr[t].pc \notin Dumping
    PROVE  TableInv'
<1>1. \A t \in Thread : thr'[t].pc = "idle"
  BY IdleFacts
<1>2. Intact' => Coherent(OnDisk, now)'
  BY DEF TableInv
<1>3. "idle" \notin Dumping /\ "idle" # "applied" /\ "idle" # Appending /\ "idle" # "dumping"
  BY DEF Dumping, Appending
<1> QED BY <1>1, <1>2, <1>3 DEF TableInv, At

\* The command has ended, and the files hold what the table holds.
LEMMA TableLogged ==
    ASSUME TableInv, table' = table, now' = now, (Intact' => Intact), Serving, Serving',
           Intact => OnDisk' = table, \A t \in Thread : thr'[t].pc = "idle"
    PROVE  TableInv'
<1>1. "idle" \notin Dumping /\ "idle" # "applied" /\ "idle" # Appending /\ "idle" # "dumping"
  BY DEF Dumping, Appending
<1> QED BY <1>1 DEF TableInv, At

\* The log gives way to a checkpoint.
LEMMA TableDumping ==
    ASSUME TableInv, table' = table, now' = now, (Intact' => Intact), Serving,
           NEW t \in Thread, thr'[t].pc \in Dumping,
           \A s \in Thread \ {t} : thr'[s].pc = "idle",
           Intact => logFile' = <<>>,
           Intact' /\ thr'[t].pc = "dumping" =>
              \A c \in Place : c[1] \in dumped' => ckpt'.table[c] = table[c]
    PROVE  TableInv'
<1>1. /\ "idle" \notin Dumping /\ "idle" # "applied" /\ "idle" # Appending
      /\ "idle" # "dumping" /\ "stamped" \notin Dumping /\ "applied" \notin Dumping
      /\ Appending \notin Dumping
  BY DEF Dumping, Appending
<1>2. \A s \in Thread : thr'[s].pc \notin {"applied", Appending}
  BY <1>1
<1>3. ~\A s \in Thread : thr'[s].pc \in {"idle", "stamped"}
  BY <1>1
<1>4. \A s \in Thread : thr'[s].pc = "dumping" => s = t
  BY <1>1
<1>5. Intact => Coherent(table, now)
  BY DEF TableInv
<1> QED BY <1>2, <1>3, <1>4, <1>5 DEF Intact, TableInv, At

LEMMA TableInvStep ==
    ASSUME DurableInv, SoleInv, TableInv, RecoveryInv, DurableInv', OneThread, [Next]_vars
    PROVE  TableInv'
<1> USE DEF DurableInv
<1>0. /\ Main \in Thread /\ Worker \subseteq Thread
      /\ "idle" \notin Dumping /\ "idle" # "applied" /\ "idle" # Appending
      /\ "idle" # "dumping" /\ "stamped" \notin Dumping /\ "applied" \notin Dumping
      /\ Appending \notin Dumping /\ "stamped" # Appending /\ "applied" # Appending
      /\ Appending # "dumping" /\ "dumping" \in Dumping
  BY DEF Thread, Dumping, Appending
<1>1. ASSUME NEW t \in Worker, Request(t) PROVE TableInv'
  <2>1. /\ proc = "up" /\ At(t, "idle") /\ table' = table /\ (Intact' => Intact) /\ proc' = proc
        /\ logFile' = logFile /\ ckpt' = ckpt /\ now' = now + 1
    BY <1>1 DEF Intact, Request, files, ghosts
  <2>2. \A s \in Thread : thr[s].pc = "idle"
    BY <1>0, <2>1 DEF SoleInv, At, OneThread, Thread
  <2>3. \A s \in Thread : thr'[s].pc \in {"idle", "stamped"}
    BY <1>0, <1>1, <2>2 DEF Request, TypeOK
  <2>4. OnDisk' = OnDisk /\ Serving
    BY <2>1, DiskSame DEF Serving
  <2>5. Intact => table = OnDisk /\ Coherent(table, now)
    BY <2>2, <2>4 DEF TableInv
  <2>6. Intact => Coherent(table, now')
    <3>1. now <= now' /\ now \in Time /\ now' \in Time /\ table \in Table
      BY <2>1, KvAssumption DEF TypeOK, Time
    <3> QED BY <2>5, <3>1, CoherentLater
  <2>7. \A s \in Thread : thr'[s].pc \notin {"applied", Appending} \cup Dumping
    BY <1>0, <2>3 DEF Appending
  <2> QED BY <1>0, <2>1, <2>4, <2>5, <2>6, <2>7 DEF TableInv, At
<1>2. ASSUME NEW t \in Worker, Apply(t) PROVE TableInv'
  <2>1. /\ proc = "up" /\ thr[t].pc = "stamped" /\ table' = Effect(table, thr[t].op)
        /\ (Intact' => Intact) /\ proc' = proc /\ now' = now /\ logFile' = logFile
        /\ ckpt' = ckpt /\ t \in Thread
    BY <1>0, <1>2 DEF Intact, Apply, At, files, ghosts
  <2>2. \A s \in Thread : thr[s].pc \in {"idle", "stamped"} /\ thr[s].pc \notin Dumping
    BY <1>0, <2>1, Alone
  <2>3. OnDisk' = OnDisk /\ Serving /\ Serving'
    BY <2>1, DiskSame DEF Serving
  <2>4. Intact => table = OnDisk /\ Coherent(table, now)
    BY <2>2, <2>3 DEF TableInv
  <2>5. /\ table \in Table /\ thr[t].op \in Op /\ now \in Time /\ Simple(thr[t].op)
        /\ thr[t].op.time = now
    BY <2>1 DEF TypeOK, SoleInv, At
  <2>6. CASE Recorded(table, thr[t].op)
    <3>1. /\ thr'[t].pc = "applied" /\ thr'[t].op = thr[t].op
          /\ \A s \in Thread \ {t} : thr'[s].pc = "idle"
      BY <1>2, <2>1, <2>6, Alone DEF Apply, Step, TypeOK
    <3>2. Intact => Coherent(table', now)
      BY <2>1, <2>4, <2>5, <2>6, EffectCoherent
    <3>3. \A s \in Thread : thr'[s].pc \notin Dumping
      BY <1>0, <3>1
    <3>4. Intact => Coherent(OnDisk, now)
      BY <2>4
    <3>5. \A s \in Thread : thr'[s].pc \in {"applied", Appending} => s = t
      BY <1>0, <3>1
    <3>6. ~\A s \in Thread : thr'[s].pc \in {"idle", "stamped"}
      BY <2>1, <3>1
    <3>7. Intact => table' = Effect(OnDisk', thr'[t].op)
      BY <2>1, <2>3, <2>4, <3>1
    <3> QED BY <1>0, <2>1, <2>3, <3>2, <3>3, <3>4, <3>5, <3>6, <3>7 DEF TableInv, At
  <2>7. CASE ~Recorded(table, thr[t].op)
    <3>1. \A s \in Thread : thr'[s].pc = "idle"
      BY <1>2, <2>1, <2>7, Alone, IdleFacts DEF Apply, TypeOK
    <3>2. Intact => table' = table
      BY <2>1, <2>4, <2>5, <2>7, FailedIsSilent
    <3> QED BY <1>0, <2>1, <2>3, <2>4, <3>1, <3>2 DEF TableInv, At
  <2> QED BY <2>6, <2>7
<1>3. ASSUME NEW t \in Thread, BeginAppend(t) PROVE TableInv'
  <2>1. /\ thr[t].pc = "applied" /\ table' = table /\ (Intact' => Intact) /\ proc' = proc
        /\ now' = now /\ Serving
    BY <1>3, Busy DEF Intact, BeginAppend, At, ghosts
  <2>2. /\ thr'[t].pc = Appending /\ thr'[t].op = thr[t].op
        /\ \A s \in Thread \ {t} : thr'[s] = thr[s] /\ thr[s].pc = "idle"
    BY <1>3, <2>1, Alone DEF BeginAppend, Step, TypeOK
  <2>3. OnDisk' = OnDisk
    BY <1>3, AppendBegins
  <2>4. \A s \in Thread : thr[s].pc \notin Dumping /\ thr'[s].pc \notin Dumping
    BY <1>0, <2>1, <2>2
  <2>5. \A s \in Thread : thr'[s].pc \in {"applied", Appending} => s = t
    BY <1>0, <2>2
  <2>6. ~\A s \in Thread : thr'[s].pc \in {"idle", "stamped"}
    BY <1>0, <2>2
  <2>7. Intact => table = Effect(OnDisk, thr[t].op)
    BY <2>1 DEF TableInv
  <2> QED BY <1>0, <2>1, <2>2, <2>3, <2>4, <2>5, <2>6, <2>7 DEF TableInv, At
<1>4. ASSUME NEW t \in Thread, EndAppend(t) PROVE TableInv'
  <2>1. /\ thr[t].pc # "idle" /\ table' = table /\ (Intact' => Intact) /\ proc' = proc
        /\ now' = now
    BY <1>4 DEF Intact, EndAppend, At, Appending
  <2>2. \A s \in Thread : thr'[s].pc = "idle"
    BY <1>4, <2>1, Alone, ThreadStops, IdleFacts DEF EndAppend, Finish
  <2>3. Serving /\ Serving'
    BY <2>1, Busy DEF Serving
  <2> QED BY <1>4, <2>1, <2>2, <2>3, AppendEnds, TableLogged
<1>5. ASSUME NEW t \in Thread, TruncateLog(t) PROVE TableInv'
  <2>1. /\ thr[t].pc # "idle" /\ table' = table /\ (Intact' => Intact) /\ now' = now
        /\ logFile' = <<>>
    BY <1>5 DEF Intact, TruncateLog, At, ghosts
  <2>2. thr'[t].pc = "truncated" /\ \A s \in Thread \ {t} : thr'[s].pc = "idle"
    BY <1>5, <2>1, Alone DEF TruncateLog, Step, TypeOK
  <2>3. "truncated" \in Dumping
    BY DEF Dumping
  <2> QED BY <2>1, <2>2, <2>3, Busy, TableDumping
<1>6. ASSUME NEW t \in Thread, OpenCheckpoint(t) PROVE TableInv'
  <2>1. /\ thr[t].pc = "truncated" /\ table' = table /\ (Intact' => Intact) /\ now' = now
        /\ logFile' = logFile
    BY <1>6 DEF Intact, OpenCheckpoint, At, ghosts
  <2>2. thr'[t].pc = "opened" /\ \A s \in Thread \ {t} : thr'[s].pc = "idle"
    BY <1>6, <2>1, Alone DEF OpenCheckpoint, Step, TypeOK
  <2>3. "truncated" \in Dumping /\ "opened" \in Dumping
    BY DEF Dumping
  <2>4. Intact => logFile = <<>>
    BY <2>1, <2>3 DEF TableInv
  <2> QED BY <2>1, <2>2, <2>3, <2>4, Busy, TableDumping
<1>7. ASSUME NEW t \in Thread, DumpVersion(t) PROVE TableInv'
  <2>1. /\ thr[t].pc = "opened" /\ table' = table /\ (Intact' => Intact) /\ now' = now
        /\ logFile' = logFile /\ dumped' = {}
    BY <1>7 DEF Intact, DumpVersion, At, ghosts
  <2>2. thr'[t].pc = "dumping" /\ \A s \in Thread \ {t} : thr'[s].pc = "idle"
    BY <1>7, <2>1, Alone DEF DumpVersion, Step, TypeOK
  <2>3. "opened" \in Dumping
    BY DEF Dumping
  <2>4. Intact => logFile = <<>>
    BY <2>1, <2>3 DEF TableInv
  <2> QED BY <1>0, <2>1, <2>2, <2>4, Busy, TableDumping
<1>8. ASSUME NEW t \in Thread, DumpRow(t) PROVE TableInv'
  <2>1. /\ thr[t].pc = "dumping" /\ table' = table /\ (Intact' => Intact) /\ now' = now
        /\ logFile' = logFile /\ thr' = thr
    BY <1>8 DEF Intact, DumpRow, At, ghosts
  <2>2. PICK u \in User : /\ dumped' = dumped \cup {u} /\ ckpt'.table = RowCopied(u)
                          /\ dropped' = (dropped \/ Emptied(table, u))
    BY <1>8 DEF DumpRow, TypeOK, CheckpointFile
  <2>3. Intact => logFile = <<>>
    BY <1>0, <2>1 DEF TableInv
  <2>4. Intact => \A c \in Place : c[1] \in dumped => ckpt.table[c] = table[c]
    BY <2>1 DEF Intact, TableInv, At
  <2>5. Intact' => \A c \in Place : c[1] \in dumped' => ckpt'.table[c] = table[c]
    <3>1. Intact' => ~Emptied(table, u)
      BY <2>2, Zenon DEF Intact
    <3>2. Intact' => \A c \in Place : c[1] = u => Saved(table)[c] = table[c]
      BY <3>1, Zenon DEF Saved
    <3> QED BY <2>1, <2>2, <2>4, <3>2 DEF RowCopied
  <2>6. thr'[t].pc \in Dumping /\ \A s \in Thread \ {t} : thr'[s].pc = "idle"
    BY <1>0, <2>1, Alone
  <2> QED BY <1>0, <2>1, <2>3, <2>5, <2>6, Busy, TableDumping
<1>9. ASSUME NEW t \in Thread, CloseCheckpoint(t) PROVE TableInv'
  <2>1. /\ thr[t].pc # "idle" /\ table' = table /\ (Intact' => Intact) /\ proc' = proc
        /\ now' = now
    BY <1>9 DEF Intact, CloseCheckpoint, At
  <2>2. \A s \in Thread : thr'[s].pc = "idle"
    BY <1>9, <2>1, Alone, ThreadStops, IdleFacts DEF CloseCheckpoint, Finish
  <2>3. Serving /\ Serving'
    BY <2>1, Busy DEF Serving
  <2> QED BY <1>9, <2>1, <2>2, <2>3, CheckpointIsTable, TableLogged
<1>10. ASSUME Crash PROVE TableInv'
  <2>1. OnDisk' = OnDisk /\ now' = now /\ ~Serving' /\ \A s \in Thread : thr'[s] = Idle
    BY <1>10, DiskSame DEF Crash, files, Serving
  <2>2. Intact' => Intact /\ \A s \in Thread : thr[s].pc \notin Dumping
    BY <1>10, WritingPCs DEF Intact, Crash
  <2> QED BY <2>1, <2>2, TableDown
<1>11. ASSUME ~Serving, ~Serving', OnDisk' = OnDisk, now' = now, thr' = thr, (Intact' => Intact)
       PROVE  TableInv'
  <2>1. \A s \in Thread : thr[s] = Idle
    BY <1>11 DEF ThreadInv
  <2>2. \A s \in Thread : thr[s].pc \notin Dumping
    BY <1>0, <2>1, IdleFacts
  <2> QED BY <1>11, <2>1, <2>2, TableDown
<1>12. ASSUME LoadCheckpoint PROVE TableInv'
  BY <1>11, <1>12, DiskSame DEF Intact, LoadCheckpoint, files, ghosts, Serving
<1>13. ASSUME ReplayRecord PROVE TableInv'
  BY <1>11, <1>13, DiskSame DEF Intact, ReplayRecord, Replaying, files, ghosts, Serving
<1>14. ASSUME ReplayTorn PROVE TableInv'
  BY <1>11, <1>14, DiskSame DEF Intact, ReplayTorn, Replaying, files, ghosts, Serving
<1>15. ASSUME SignUpAdmin PROVE TableInv'
  <2>1. /\ Replayed /\ ~Serving /\ Serving' /\ now' = now /\ (Intact' => Intact)
        /\ logFile' = logFile /\ ckpt' = ckpt
    BY <1>15 DEF Intact, SignUpAdmin, Replayed, Serving, files, ghosts
  <2>2. \A s \in Thread : thr[s] = Idle /\ thr[s].pc = "idle"
    BY <2>1, IdleFacts DEF ThreadInv
  <2>3. OnDisk' = OnDisk
    BY <2>1, DiskSame
  <2>4. Intact => table = OnDisk /\ Coherent(table, now)
    BY <1>0, <2>1, <2>2, RebuiltIsOnDisk DEF TableInv
  <2>5. CASE HasUser(table, Admin)
    <3>1. table' = table /\ thr' = thr
      BY <1>15, <2>5 DEF SignUpAdmin
    <3> QED BY <1>0, <2>1, <2>2, <2>3, <2>4, <3>1 DEF TableInv, At
  <2>6. CASE ~HasUser(table, Admin)
    <3>1. /\ thr' = [thr EXCEPT ![Main] = [pc |-> "applied", op |-> AdminOp]]
          /\ table' = Effect(table, AdminOp)
      BY <1>15, <2>6 DEF SignUpAdmin
    <3>2. /\ thr'[Main].pc = "applied" /\ thr'[Main].op = AdminOp
          /\ \A s \in Thread \ {Main} : thr'[s].pc = "idle"
      BY <1>0, <2>2, <3>1 DEF TypeOK
    <3>3. Intact => Coherent(table', now)
      <4>1. Recorded(table, AdminOp)
        BY <2>6, AdminOpType DEF Recorded, Succeeds, AdminOp, RegisterOp, Command
      <4>2. 0 <= now /\ now \in Time /\ table \in Table
        BY KvAssumption DEF TypeOK, Time
      <4> QED BY <2>4, <3>1, <4>1, <4>2, AdminOpType, SimpleOps, EffectCoherent
    <3>4. \A s \in Thread : thr'[s].pc \notin Dumping
      BY <1>0, <3>2
    <3>5. \A s \in Thread : thr'[s].pc \in {"applied", Appending} => s = Main
      BY <1>0, <3>2
    <3>6. ~\A s \in Thread : thr'[s].pc \in {"idle", "stamped"}
      BY <1>0, <3>2
    <3>7. Intact => table' = Effect(OnDisk', thr'[Main].op)
      BY <2>3, <2>4, <3>1, <3>2
    <3> QED BY <1>0, <2>1, <2>3, <2>4, <3>3, <3>4, <3>5, <3>6, <3>7 DEF TableInv, At
  <2> QED BY <2>5, <2>6
<1>16. ASSUME Listen PROVE TableInv'
  BY <1>16, TableKept DEF Intact, Listen, memory, files, ghosts, Serving
<1>17. CASE UNCHANGED vars
  BY <1>17, TableKept DEF Intact, vars, memory, files, ghosts, Serving
<1> QED
  BY <1>1, <1>2, <1>3, <1>4, <1>5, <1>6, <1>7, <1>8, <1>9, <1>10, <1>12, <1>13, <1>14,
     <1>15, <1>16, <1>17 DEF Next, WriteLog, Start

-----------------------------------------------------------------------------
(* RecoveryInv: what the constructor has rebuilt so far.                    *)

LEMMA RecoveryInvStep ==
    ASSUME DurableInv, SoleInv, TableInv, RecoveryInv, [Next]_vars
    PROVE  RecoveryInv'
<1> USE DEF DurableInv
<1>1. ASSUME proc' \notin {"down", "replaying"} PROVE RecoveryInv'
  BY <1>1 DEF RecoveryInv
<1>2. ASSUME NEW t \in Worker, Request(t) \/ Apply(t) PROVE RecoveryInv'
  BY <1>1, <1>2 DEF Request, Apply
<1>3. ASSUME NEW t \in Thread, WriteLog(t) PROVE RecoveryInv'
  <2>1. thr[t].pc # "idle" /\ proc' = proc
    BY <1>3 DEF WriteLog, BeginAppend, EndAppend, TruncateLog, OpenCheckpoint,
                DumpVersion, DumpRow, CloseCheckpoint, At, Appending
  <2> QED BY <1>1, <2>1, Busy DEF Serving
<1>4. ASSUME Crash PROVE RecoveryInv'
  <2>1. proc' = "down" /\ OnDisk' = OnDisk
    BY <1>4, DiskSame DEF Crash, files
  <2>2. Intact' => Intact
    BY <1>4 DEF Intact, Crash
  <2>3. CASE proc = "replaying"
    BY <1>4, <2>1, <2>2, <2>3 DEF Crash, RecoveryInv
  <2>4. CASE proc # "replaying"
    <3>1. Serving /\ before' = table
      BY <1>4, <2>4 DEF Crash, Serving
    <3>2. clean' => \A t \in Thread : thr[t].pc \in {"idle", "stamped"}
      BY <1>4, <2>4 DEF Crash
    <3>3. Intact /\ clean' => table = OnDisk
      BY <3>1, <3>2 DEF TableInv
    <3> QED BY <2>1, <2>2, <3>1, <3>3 DEF RecoveryInv
  <2> QED BY <2>3, <2>4
<1>5. ASSUME LoadCheckpoint PROVE RecoveryInv'
  <2>1. /\ proc = "down" /\ logFile' = logFile /\ ckpt' = ckpt /\ (Intact' => Intact)
        /\ clean' = clean /\ before' = before /\ cursor' = cursor /\ cursor = 1
    BY <1>5 DEF Intact, LoadCheckpoint, ReplayInv, files, ghosts
  <2>2. OnDisk' = OnDisk
    BY <2>1, DiskSame
  <2>3. proc' = "replaying" => table' = ckpt.table
    BY <1>5 DEF LoadCheckpoint
  <2>4. SubSeq(logFile, 1, 1 - 1) = <<>>
    BY SubSeqEmpty
  <2>5. Rebuild(ckpt.table, SubSeq(logFile, 1, 1 - 1)) = ckpt.table
    BY <2>4, RebuildEmpty
  <2>6. 1 <= Len(logFile) + 1
    BY DEF TypeOK
  <2> QED BY <2>1, <2>2, <2>3, <2>5, <2>6 DEF RecoveryInv
<1>6. ASSUME ReplayRecord PROVE RecoveryInv'
  <2>1. /\ proc = "replaying" /\ proc' = proc /\ logFile' = logFile /\ ckpt' = ckpt
        /\ (Intact' => Intact) /\ clean' = clean /\ before' = before
        /\ cursor' = cursor + 1 /\ table' = ReplayEffect(table, logFile[cursor])
        /\ cursor <= Len(logFile)
    BY <1>6 DEF Intact, ReplayRecord, Replaying, files, ghosts
  <2>2. OnDisk' = OnDisk
    BY <2>1, DiskSame
  <2>3. /\ Len(logFile) \in Nat /\ cursor \in 1..Len(logFile) /\ logFile[cursor] \in LogEntry
        /\ logFile \in Seq(LogEntry)
    BY <2>1 DEF TypeOK
  <2> DEFINE read == SubSeq(logFile, 1, cursor - 1)
  <2>4. /\ read \in Seq(LogEntry)
        /\ SubSeq(logFile, 1, cursor) = Append(read, logFile[cursor])
    <3> DEFINE c == cursor
               longer == SubSeq(logFile, 1, c)
               both == Append(read, logFile[c])
    <3>0. c \in Nat \ {0} /\ \A i \in 1..c : logFile[i] \in LogEntry
      BY <2>3
    <3>1. /\ read \in Seq(LogEntry) /\ Len(read) = c - 1
          /\ \A i \in 1..(c - 1) : read[i] = logFile[i]
      <4>1. /\ SubSeq(logFile, 1, c - 1) \in Seq(LogEntry)
            /\ Len(SubSeq(logFile, 1, c - 1)) = IF 1 <= c - 1 THEN (c - 1) - 1 + 1 ELSE 0
            /\ \A i \in 1..((c - 1) - 1 + 1) :
                  SubSeq(logFile, 1, c - 1)[i] = logFile[1 + i - 1]
        BY <3>0, SubSeqProperties
      <4> QED BY <3>0, <4>1
    <3>2. /\ longer \in Seq(LogEntry) /\ Len(longer) = c
          /\ \A i \in 1..c : longer[i] = logFile[i]
      <4>1. /\ SubSeq(logFile, 1, c) \in Seq(LogEntry)
            /\ Len(SubSeq(logFile, 1, c)) = IF 1 <= c THEN c - 1 + 1 ELSE 0
            /\ \A i \in 1..(c - 1 + 1) : SubSeq(logFile, 1, c)[i] = logFile[1 + i - 1]
        BY <3>0, SubSeqProperties
      <4> QED BY <3>0, <4>1
    <3> HIDE DEF c, read, longer
    <3>3. /\ both \in Seq(LogEntry) /\ Len(both) = Len(read) + 1
          /\ \A i \in 1..Len(read) : both[i] = read[i]
          /\ both[Len(read) + 1] = logFile[c]
      BY <2>3, <3>1, AppendProperties DEF c
    <3> HIDE DEF both
    <3>4. Len(both) = c /\ \A i \in 1..(c - 1) : both[i] = logFile[i]
      BY <3>0, <3>1, <3>3
    <3>5. both[c] = logFile[c]
      BY <3>0, <3>1, <3>3
    <3>6. \A i \in 1..c : i = c \/ i \in 1..(c - 1)
      BY <3>0
    <3>7. \A i \in 1..c : both[i] = longer[i]
      BY <3>2, <3>4, <3>5, <3>6
    <3>8. longer = both
      BY <3>2, <3>3, <3>4, <3>7, SeqEqual
    <3> QED BY <3>1, <3>8 DEF longer, both, c
  <2> HIDE DEF read
  <2>5. Rebuild(ckpt.table, Append(read, logFile[cursor]))
           = ReplayEffect(Rebuild(ckpt.table, read), logFile[cursor])
    BY <2>3, <2>4, RebuildAppend
  <2>6. Intact => table = Rebuild(ckpt.table, read)
    BY <2>1 DEF RecoveryInv, read
  <2>7. Intact => table' = Rebuild(ckpt.table, SubSeq(logFile, 1, cursor))
    BY <2>1, <2>4, <2>5, <2>6
  <2>8. cursor' - 1 = cursor /\ cursor' <= Len(logFile) + 1
    BY <2>1, <2>3
  <2> QED BY <2>1, <2>2, <2>7, <2>8 DEF RecoveryInv
<1>7. ASSUME ReplayTorn PROVE RecoveryInv'
  <2>1. damaged'
    BY <1>7, TornMeansDamaged DEF ReplayTorn, ghosts
  <2> QED BY <2>1 DEF Intact, RecoveryInv
<1>8. ASSUME SignUpAdmin \/ Listen PROVE RecoveryInv'
  BY <1>1, <1>8 DEF SignUpAdmin, Listen
<1>9. CASE UNCHANGED vars
  <2>1. OnDisk' = OnDisk
    BY <1>9, DiskSame DEF vars, files
  <2> QED BY <1>9, <2>1 DEF Intact, vars, memory, files, ghosts, RecoveryInv
<1> QED
  BY <1>2, <1>3, <1>4, <1>5, <1>6, <1>7, <1>8, <1>9 DEF Next, Start

-----------------------------------------------------------------------------
(* MailInv: acknowledged mails.                                             *)

LEMMA MoreDeletions ==
    ASSUME NEW L, NEW D, NEW E, \A d \in D : d.kind = "deleteemail" => d \in E
    PROVE  Mails(L, E) \subseteq Mails(L, D)
BY DEF Mails, Deletes

LEMMA IdleDeletesNothing ==
    ASSUME SoleInv, NEW t \in Thread, thr[t].pc = "idle"
    PROVE  thr[t].op.kind = "none"
BY IdleFacts, NoOpType DEF SoleInv, At

\* Nobody has a command: no deletion is under way.
LEMMA MailsAtRest ==
    ASSUME SoleInv, \A t \in Thread : thr[t].pc = "idle"
    PROVE  Mails(logged, logged) \subseteq Mails(logged, logged \cup UnderWay)
<1>1. \A d \in logged \cup UnderWay : d.kind = "deleteemail" => d \in logged
  BY IdleDeletesNothing DEF UnderWay
<1> QED BY <1>1, MoreDeletions

LEMMA MailKept ==
    ASSUME MailInv, table' = table, OnDisk' = OnDisk, logged' = logged, (Intact' => Intact),
           Serving' => Serving,
           \A t \in Thread : thr[t].op.kind = "deleteemail" => thr'[t].op = thr[t].op,
           \A t \in Thread :
              /\ thr[t].pc \in Dumping => thr'[t].pc \in Dumping
              /\ thr'[t].pc \notin {"idle", "stamped"} =>
                    thr[t].pc \notin {"idle", "stamped"} /\ thr'[t].op = thr[t].op
    PROVE  MailInv'
<1>1. Mails(logged', logged' \cup UnderWay') \subseteq Mails(logged, logged \cup UnderWay)
  <2>1. \A d \in logged \cup UnderWay : d.kind = "deleteemail" => d \in logged' \cup UnderWay'
    BY DEF UnderWay
  <2> QED BY <2>1, MoreDeletions
<1> QED BY <1>1 DEF MailInv

\* The command has ended, and the files hold what the table holds.
LEMMA MailLogged ==
    ASSUME DurableInv, MailInv, NEW t \in Thread, thr[t].pc \notin {"idle", "stamped"},
           logged' = logged \cup {thr[t].op}, table' = table, (Intact' => Intact),
           Intact => OnDisk' = table, thr' = [thr EXCEPT ![t] = Idle],
           \A s \in Thread \ {t} : thr[s] = Idle
    PROVE  MailInv'
<1> USE DEF DurableInv
<1>1. thr'[t] = Idle /\ \A s \in Thread \ {t} : thr'[s] = thr[s]
  BY ThreadStops
<1>2. \A s \in Thread : thr'[s].pc = "idle"
  BY <1>1, IdleFacts
<1>3. Serving
  BY Busy
<1>4. ASSUME Intact, NEW D, logged' \subseteq D, NEW op \in Mails(logged', D)
      PROVE  HasMail(table, op.user, op.time)
  <2>1. CASE op = thr[t].op
    BY <1>4, <2>1 DEF MailInv, Mails
  <2>2. CASE op # thr[t].op
    <3>1. \A d \in logged \cup UnderWay : d.kind = "deleteemail" => d \in D
      <4>1. \A s \in Thread \ {t} : thr[s].op.kind # "deleteemail"
        BY IdleFacts, NoOpType
      <4> QED BY <1>4, <4>1 DEF UnderWay
    <3>2. op \in logged /\ op \in Mails(logged, logged \cup UnderWay)
      BY <1>4, <2>2, <3>1 DEF Mails, Deletes
    <3> QED BY <1>3, <1>4, <3>2 DEF MailInv
  <2> QED BY <2>1, <2>2
<1>5. Intact => \A op \in Mails(logged', logged') : HasMail(OnDisk', op.user, op.time)
  BY <1>4
<1>6. Intact => \A op \in Mails(logged', logged' \cup UnderWay') :
                     HasMail(table', op.user, op.time)
  BY <1>4
<1> QED BY <1>2, <1>5, <1>6 DEF MailInv

LEMMA MailInvStep ==
    ASSUME DurableInv, SoleInv, TableInv, RecoveryInv, MailInv, [Next]_vars
    PROVE  MailInv'
<1> USE DEF DurableInv
<1>0. /\ Main \in Thread /\ Worker \subseteq Thread
      /\ "idle" \notin Dumping /\ "stamped" \notin Dumping /\ "applied" \notin Dumping
      /\ Appending \notin Dumping /\ Appending \notin {"idle", "stamped"}
  BY DEF Thread, Dumping, Appending
<1>1. ASSUME NEW t \in Worker, Request(t) PROVE MailInv'
  <2>1. /\ thr[t].pc = "idle" /\ table' = table /\ logged' = logged /\ (Intact' => Intact)
        /\ OnDisk' = OnDisk /\ Serving' = Serving /\ t \in Thread
    BY <1>0, <1>1, DiskSame DEF Intact, Request, At, files, ghosts, Serving
  <2>2. thr'[t].pc = "stamped" /\ \A s \in Thread \ {t} : thr'[s] = thr[s]
    BY <1>0, <1>1 DEF Request, TypeOK
  <2>3. thr[t].op.kind # "deleteemail"
    BY <2>1, IdleDeletesNothing
  <2> QED BY <1>0, <2>1, <2>2, <2>3, MailKept
<1>2. ASSUME NEW t \in Worker, Apply(t) PROVE MailInv'
  <2>1. /\ proc = "up" /\ thr[t].pc = "stamped" /\ table' = Effect(table, thr[t].op)
        /\ (Intact' => Intact) /\ logged' = logged /\ t \in Thread /\ OnDisk' = OnDisk
        /\ Serving /\ proc' = proc
    BY <1>0, <1>2, DiskSame DEF Intact, Apply, At, files, ghosts, Serving
  <2>2. \A s \in Thread : thr[s].pc \in {"idle", "stamped"} /\ thr[s].pc \notin Dumping
    BY <1>0, <2>1, Alone
  <2>3. /\ table \in Table /\ thr[t].op \in Op /\ now \in Time /\ Simple(thr[t].op)
        /\ thr[t].op.time = now
    BY <2>1 DEF TypeOK, SoleInv, At
  <2>4. Intact => table = OnDisk /\ Coherent(table, now)
    BY <2>1, <2>2 DEF TableInv
  <2>5. Intact => \A op \in Mails(logged, logged) : HasMail(OnDisk, op.user, op.time)
    BY <2>2 DEF MailInv
  <2>6. \A op \in Mails(logged, logged \cup UnderWay) : op.user \in User /\ op.time \in Time
    BY DEF Mails, TypeOK, Op
  <2>7. CASE Recorded(table, thr[t].op)
    <3>1. /\ thr'[t].pc = "applied" /\ thr'[t].op = thr[t].op
          /\ \A s \in Thread \ {t} : thr'[s] = thr[s] /\ thr'[s].pc = "idle"
      BY <1>2, <2>1, <2>7, Alone DEF Apply, Step, TypeOK
    <3>2. UnderWay' = UnderWay
      <4>1. \A s \in Thread : thr'[s].op = thr[s].op
        BY <3>1
      <4> QED BY <4>1 DEF UnderWay
    <3>3. Intact =>
             /\ \A w \in User, id \in Time :
                   HasMail(table, w, id)
                   /\ ~(thr[t].op.kind = "deleteemail" /\ thr[t].op.user = w /\ thr[t].op.id = id)
                      => HasMail(table', w, id)
             /\ thr[t].op.kind = "putemail" => HasMail(table', thr[t].op.user, thr[t].op.time)
      BY <2>1, <2>3, <2>4, <2>7, EffectCoherent
    <3>4. ASSUME Intact, NEW op \in Mails(logged, logged \cup UnderWay)
          PROVE  HasMail(table', op.user, op.time)
      <4>1. HasMail(table, op.user, op.time)
        BY <2>1, <3>4 DEF MailInv
      <4>2. ~Deletes(thr[t].op, op)
        BY <2>1 DEF Mails, UnderWay
      <4> QED BY <2>6, <3>3, <3>4, <4>1, <4>2 DEF Deletes
    <3>5. \A s \in Thread : thr'[s].pc \notin {"idle", "stamped"} => s = t
      BY <3>1
    <3> QED BY <2>1, <2>5, <3>1, <3>2, <3>3, <3>4, <3>5 DEF MailInv
  <2>8. CASE ~Recorded(table, thr[t].op)
    <3>1. \A s \in Thread : thr'[s].pc = "idle"
      BY <1>2, <2>1, <2>8, Alone, IdleFacts DEF Apply, TypeOK
    <3>2. Intact => table' = table
      BY <2>1, <2>3, <2>4, <2>8, FailedIsSilent
    <3>3. Mails(logged', logged' \cup UnderWay') \subseteq Mails(logged, logged)
      BY <2>1, MoreDeletions
    <3>4. Intact => \A op \in Mails(logged', logged' \cup UnderWay') :
                         HasMail(table', op.user, op.time)
      BY <2>4, <2>5, <3>2, <3>3
    <3> QED BY <2>1, <2>5, <3>1, <3>4 DEF MailInv
  <2> QED BY <2>7, <2>8
<1>3. ASSUME NEW t \in Thread, NEW pc \in Writing, Step(t, pc),
             thr[t].pc \notin {"idle", "stamped"}, thr[t].pc \in Dumping => pc \in Dumping,
             table' = table, logged' = logged, (Intact' => Intact), proc' = proc,
             pc \in Dumping \/ OnDisk' = OnDisk
      PROVE  MailInv'
  <2>1. /\ thr'[t].pc = pc /\ thr'[t].op = thr[t].op
        /\ \A s \in Thread \ {t} : thr'[s] = thr[s]
    BY <1>3 DEF Step, TypeOK
  <2>2. UnderWay' = UnderWay
    <3>1. \A s \in Thread : thr'[s].op = thr[s].op
      BY <2>1
    <3> QED BY <3>1 DEF UnderWay
  <2>3. CASE pc \in Dumping
    BY <1>3, <2>1, <2>2, <2>3 DEF MailInv, Serving
  <2>4. CASE OnDisk' = OnDisk
    BY <1>3, <2>1, <2>4, MailKept DEF Serving
  <2> QED BY <1>3, <2>3, <2>4
<1>4. ASSUME NEW t \in Thread, BeginAppend(t) PROVE MailInv'
  <2>1. OnDisk' = OnDisk
    BY <1>4, AppendBegins
  <2> QED BY <1>0, <1>3, <1>4, <2>1, WritingPCs DEF Intact, BeginAppend, At, ghosts
<1>5. ASSUME NEW t \in Thread, EndAppend(t) PROVE MailInv'
  <2>1. /\ thr[t].pc \notin {"idle", "stamped"} /\ thr[t].pc # "idle" /\ table' = table
        /\ (Intact' => Intact) /\ logged' = logged \cup {thr[t].op}
        /\ thr' = [thr EXCEPT ![t] = Idle]
    BY <1>5 DEF Intact, EndAppend, Finish, At, Appending
  <2>2. \A s \in Thread \ {t} : thr[s] = Idle
    BY <2>1, Alone DEF SoleInv, At
  <2> QED BY <1>5, <2>1, <2>2, AppendEnds, MailLogged
<1>6. ASSUME NEW t \in Thread, TruncateLog(t) PROVE MailInv'
  BY <1>0, <1>3, <1>6 DEF Intact, TruncateLog, At, ghosts, Writing, Dumping
<1>7. ASSUME NEW t \in Thread, OpenCheckpoint(t) PROVE MailInv'
  BY <1>3, <1>7 DEF Intact, OpenCheckpoint, At, ghosts, Writing, Dumping
<1>8. ASSUME NEW t \in Thread, DumpVersion(t) PROVE MailInv'
  BY <1>3, <1>8 DEF Intact, DumpVersion, At, ghosts, Writing, Dumping
<1>9. ASSUME NEW t \in Thread, DumpRow(t) PROVE MailInv'
  <2>1. thr'[t].pc \in Dumping /\ UnderWay' = UnderWay
    BY <1>9 DEF DumpRow, At, Dumping, UnderWay
  <2> QED BY <1>9, <2>1 DEF Intact, DumpRow, ghosts, MailInv, Serving
<1>10. ASSUME NEW t \in Thread, CloseCheckpoint(t) PROVE MailInv'
  <2>1. /\ thr[t].pc \notin {"idle", "stamped"} /\ thr[t].pc # "idle" /\ table' = table
        /\ (Intact' => Intact) /\ logged' = logged \cup {thr[t].op}
        /\ thr' = [thr EXCEPT ![t] = Idle]
    BY <1>10 DEF Intact, CloseCheckpoint, Finish, At
  <2>2. \A s \in Thread \ {t} : thr[s] = Idle
    BY <2>1, Alone DEF SoleInv, At
  <2> QED BY <1>10, <2>1, <2>2, CheckpointIsTable, MailLogged
<1>11. ASSUME Crash PROVE MailInv'
  <2>1. OnDisk' = OnDisk /\ logged' = logged /\ ~Serving' /\ \A s \in Thread : thr'[s] = Idle
    BY <1>11, DiskSame DEF Crash, files, Serving
  <2>2. Intact' => Intact /\ \A s \in Thread : thr[s].pc \notin Dumping
    BY <1>11, WritingPCs DEF Intact, Crash
  <2> QED BY <2>1, <2>2, IdleFacts DEF MailInv
<1>12. ASSUME ~Serving, ~Serving', OnDisk' = OnDisk, thr' = thr, (Intact' => Intact),
              logged' = logged
       PROVE  MailInv'
  <2>1. \A s \in Thread : thr[s].pc = "idle"
    BY <1>12, IdleFacts DEF ThreadInv
  <2> QED BY <1>12, <2>1 DEF MailInv
<1>13. ASSUME LoadCheckpoint PROVE MailInv'
  BY <1>12, <1>13, DiskSame DEF Intact, LoadCheckpoint, files, ghosts, Serving
<1>14. ASSUME ReplayRecord PROVE MailInv'
  BY <1>12, <1>14, DiskSame DEF Intact, ReplayRecord, Replaying, files, ghosts, Serving
<1>15. ASSUME ReplayTorn PROVE MailInv'
  BY <1>12, <1>15, DiskSame DEF Intact, ReplayTorn, Replaying, files, ghosts, Serving
<1>16. ASSUME SignUpAdmin PROVE MailInv'
  <2>1. /\ Replayed /\ ~Serving /\ Serving' /\ (Intact' => Intact) /\ logged' = logged
        /\ OnDisk' = OnDisk
    BY <1>16, DiskSame DEF Intact, SignUpAdmin, Replayed, Serving, files, ghosts
  <2>2. \A s \in Thread : thr[s] = Idle /\ thr[s].pc = "idle" /\ thr[s].pc \notin Dumping
    BY <1>0, <2>1, IdleFacts DEF ThreadInv
  <2>3. Intact => table = OnDisk /\ Coherent(table, now)
    BY <2>1, <2>2, RebuiltIsOnDisk DEF TableInv
  <2>4. Intact => \A op \in Mails(logged, logged) : HasMail(table, op.user, op.time)
    BY <2>2, <2>3 DEF MailInv
  <2>5. Mails(logged', logged' \cup UnderWay') \subseteq Mails(logged, logged)
    BY <2>1, MoreDeletions
  <2>6. Intact => \A op \in Mails(logged, logged) : HasMail(table', op.user, op.time)
    <3>1. CASE HasUser(table, Admin)
      BY <1>16, <2>4, <3>1 DEF SignUpAdmin
    <3>2. CASE ~HasUser(table, Admin)
      <4>1. table' = Effect(table, AdminOp)
        BY <1>16, <3>2 DEF SignUpAdmin
      <4>2. Recorded(table, AdminOp)
        BY <3>2, AdminOpType DEF Recorded, Succeeds, AdminOp, RegisterOp, Command
      <4>3. 0 <= now /\ now \in Time /\ table \in Table
        BY KvAssumption DEF TypeOK, Time
      <4>4. Intact => \A w \in User, id \in Time :
                           HasMail(table, w, id) => HasMail(table', w, id)
        BY <2>3, <4>1, <4>2, <4>3, AdminOpType, SimpleOps, EffectCoherent
      <4>5. \A op \in Mails(logged, logged) : op.user \in User /\ op.time \in Time
        BY DEF Mails, TypeOK, Op
      <4> QED BY <2>4, <4>4, <4>5
    <3> QED BY <3>1, <3>2
  <2>7. \A s \in Thread : thr'[s] = thr[s] \/ thr'[s].op = AdminOp
    BY <1>16 DEF SignUpAdmin, TypeOK
  <2>8. \A s \in Thread : thr'[s].pc \notin {"idle", "stamped"} => thr'[s].op.kind # "putemail"
    BY <2>2, <2>7, AdminOpType
  <2>9. Intact => \A op \in Mails(logged, logged) : HasMail(OnDisk, op.user, op.time)
    BY <2>3, <2>4
  <2> QED BY <2>1, <2>5, <2>6, <2>8, <2>9 DEF MailInv
<1>17. ASSUME Listen PROVE MailInv'
  BY <1>17, DiskSame, MailKept DEF Intact, Listen, memory, files, ghosts, Serving
<1>18. CASE UNCHANGED vars
  BY <1>18, DiskSame, MailKept DEF Intact, vars, memory, files, ghosts, Serving
<1> QED
  BY <1>1, <1>2, <1>4, <1>5, <1>6, <1>7, <1>8, <1>9, <1>10, <1>11, <1>13, <1>14, <1>15,
     <1>16, <1>17, <1>18 DEF Next, WriteLog, Start

-----------------------------------------------------------------------------
(* The theorems.                                                            *)

LEMMA InitExact == Init => ExactInv
<1> SUFFICES ASSUME Init PROVE ExactInv
  OBVIOUS
<1>1. DurableInv
  BY InitDurable
<1>2. \A t \in Thread : thr[t] = Idle
  BY DEF Init
<1>3. Main \in Thread /\ Worker \subseteq Thread
  BY DEF Thread
<1>4. SoleInv
  BY <1>2, <1>3, IdleFacts, SimpleOps DEF Init, SoleInv, At
<1>5. OnDisk = EmptyTable
  BY RebuildEmpty DEF Init, OnDisk, NoFile
<1>6. Coherent(EmptyTable, 0)
  <2>1. \A c \in Cell : EmptyTable[c].time = 0 /\ ~Present(EmptyTable, c)
    BY Places DEF EmptyTable, NoEntry, Present
  <2> QED BY <2>1, CellTypes DEF Coherent
<1>7. "idle" \notin Dumping \cup {"applied", Appending, "dumping"}
  BY DEF Dumping, Appending
<1>8. TableInv
  BY <1>2, <1>5, <1>6, <1>7, IdleFacts DEF Init, TableInv, At, Serving
<1>9. RecoveryInv
  BY <1>5 DEF Init, RecoveryInv
<1>10. MailInv
  BY <1>2, IdleFacts DEF Init, MailInv, Mails, Serving
<1> QED BY <1>1, <1>4, <1>8, <1>9, <1>10 DEF ExactInv

LEMMA ExactInvStep ==
    ASSUME OneThread, "logout" \notin Kinds
    PROVE  ExactInv /\ [Next]_vars => ExactInv'
<1> SUFFICES ASSUME ExactInv, [Next]_vars PROVE ExactInv'
  OBVIOUS
<1> USE DEF ExactInv
<1>1. DurableInv'
  BY DurableInvStep
<1> QED BY <1>1, SoleInvStep, TableInvStep, RecoveryInvStep, MailInvStep

(* What ties the table to the two files: with one thread and without       *)
(* "logout" the files always hold the table but for the command that is not *)
(* logged yet.                                                              *)
THEOREM ExactInvariant ==
    ASSUME OneThread, "logout" \notin Kinds
    PROVE  Spec => []ExactInv
BY InitExact, ExactInvStep, PTL DEF Spec

(* A restart rebuilds the table that the crash took, to the last cell,      *)
(* provided that the crash cut no file and no command was between its table *)
(* operation and the end of write_log: checkpoint and log together lose no  *)
(* command, repeat none and keep their order (dump_checkpoint, write_log,   *)
(* load_checkpoint, replay_log).                                            *)
THEOREM RecoveryIsExact ==
    ASSUME OneThread, "logout" \notin Kinds
    PROVE  Spec => []RecoveryExact
<1>1. ExactInv => RecoveryExact
  BY RebuiltIsOnDisk DEF ExactInv, DurableInv, RecoveryInv, RecoveryExact, Replayed
<1> QED BY <1>1, ExactInvariant, PTL

(* A mail whose sender was told that it is stored is in the mailbox until   *)
(* its deletion is asked for, in this life of the server and in every later *)
(* one (kvs_send_mail, kvs_delete_mail, replay_log).                        *)
THEOREM MailsAreDurable ==
    ASSUME OneThread, "logout" \notin Kinds
    PROVE  Spec => []MailDurable
<1>1. ExactInv => MailDurable
  <2> SUFFICES ASSUME ExactInv, proc = "up", Intact,
                      NEW op \in logged, op.kind = "putemail", ~Unmailed(op)
               PROVE  HasMail(table, op.user, op.time)
    BY DEF MailDurable
  <2> USE DEF ExactInv
  <2>1. thr[Main].op.kind = "none" /\ Main \in Thread
    BY IdleDeletesNothing DEF SoleInv, At, Thread
  <2>2. \A d \in logged \cup UnderWay : ~Deletes(d, op)
    BY <2>1 DEF Unmailed, Deletes, UnderWay, Thread
  <2>3. op \in Mails(logged, logged \cup UnderWay)
    BY <2>2 DEF Mails
  <2> QED BY <2>3 DEF MailInv, Serving
<1> QED BY <1>1, ExactInvariant, PTL
=============================================================================
