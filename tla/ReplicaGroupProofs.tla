------------------------- MODULE ReplicaGroupProofs -------------------------
(* What replication promises, for any number of servers, rows and commands. *)
EXTENDS ReplicaGroup, KvStoreProofs

-----------------------------------------------------------------------------
(* Type correctness.  The log, the messages and the answers hold only       *)
(* commands that erase nothing but sessions and mails.                      *)

SaneOp    == {op \in Op : Sane(op)}
SaneStore == [table : Table, log : Seq(SaneOp), count : Nat, version : Nat,
              ckpt : CheckpointFile]
SaneReply == [whole : BOOLEAN, ckpt : CheckpointFile, log : Seq(SaneOp)]
SaneTask  == [op : SaneOp, at : Server, left : SUBSET Server]
SaneMessage == [op : SaneOp, left : SUBSET Server]

TypeInv ==
    /\ store \in [Server -> SaneStore]
    /\ phase \in [Server -> Phase]
    /\ cursor \in [Server -> Nat \ {0}]
    /\ reply \in [Server -> SaneReply]
    /\ late \in SUBSET Server
    /\ tasks \in SUBSET SaneTask
    /\ queue \in Seq(SaneMessage)
    /\ now \in Time
    /\ outages \in 0..MaxOutages
    /\ issued \in SUBSET SaneOp

LEMMA ServerFacts == Primary \in Server /\ Secondary \subseteq Server
BY GroupAssumption DEF Server, Primary, Secondary

LEMMA AdminOpType == AdminOp \in SaneOp /\ AdminOp.kind = "register"
BY ColumnTypes, KvAssumption, GroupAssumption
   DEF AdminOp, RegisterOp, Command, Op, Kind, Sane, Time, SaneOp

LEMMA NoCheckpointType == NoCheckpoint \in CheckpointFile
BY EmptyTableType DEF NoCheckpoint, CheckpointFile

LEMMA NoReplyType == NoReply \in SaneReply
BY NoCheckpointType DEF NoReply, SaneReply

LEMMA EmptyStoreType == EmptyStore \in SaneStore
BY EmptyTableType, NoCheckpointType DEF EmptyStore, SaneStore

LEMMA WriteLogFacts ==
    ASSUME NEW st \in SaneStore, NEW op \in SaneOp
    PROVE  /\ WriteLog(st, op) \in SaneStore
           /\ WriteLog(st, op).table = st.table
<1>1. /\ st.version + 1 \in Nat /\ st.count + 1 \in Nat
      /\ [version |-> st.version + 1, table |-> Saved(st.table)] \in CheckpointFile
  BY SavedFacts DEF SaneStore, CheckpointFile
<1>2. Append(st.log, op) \in Seq(SaneOp) /\ <<>> \in Seq(SaneOp)
  BY AppendProperties DEF SaneStore
<1>3. CASE st.count >= CheckpointInterval
  BY <1>1, <1>2, <1>3 DEF WriteLog, SaneStore
<1>4. CASE ~(st.count >= CheckpointInterval)
  BY <1>1, <1>2, <1>4 DEF WriteLog, SaneStore
<1> QED BY <1>3, <1>4

LEMMA ExecuteFacts ==
    ASSUME NEW st \in SaneStore, NEW op \in SaneOp
    PROVE  /\ Execute(st, op) \in SaneStore
           /\ Execute(st, op).table = Effect(st.table, op)
           /\ AsRecent(Execute(st, op).table, st.table)
<1> DEFINE applied == [st EXCEPT !.table = Effect(st.table, op)]
<1>1. Effect(st.table, op) \in Table /\ AsRecent(Effect(st.table, op), st.table)
  BY EffectAsRecent DEF SaneOp, SaneStore
<1>2. applied \in SaneStore /\ applied.table = Effect(st.table, op)
  BY <1>1 DEF SaneStore
<1>3. Execute(st, op) = WriteLog(applied, op) \/ Execute(st, op) = applied
  BY DEF Execute
<1> HIDE DEF applied
<1> QED BY <1>1, <1>2, <1>3, WriteLogFacts

LEMMA FreshStoreType == FreshStore \in SaneStore
BY EmptyStoreType, AdminOpType, ExecuteFacts DEF FreshStore

LEMMA ReloadedType ==
    ASSUME NEW st \in SaneStore
    PROVE  Reloaded(st) \in SaneStore /\ Killed(st) \in SaneStore
BY EmptyTableType DEF Reloaded, Killed, SaneStore, CheckpointFile

LEMMA FirstFacts ==
    ASSUME NEW left \in SUBSET Server, left # {}
    PROVE  First(left) \in left
<1>1. \E d \in left : \A e \in left : d <= e
  BY LeastNat DEF Server
<1> QED BY <1>1 DEF First

LEMMA ReceiveFacts ==
    ASSUME TypeInv, NEW d \in Server, NEW op \in SaneOp, Receive(d, op)
    PROVE  /\ store' \in [Server -> SaneStore]
           /\ \A s \in Server : AsRecent(store'[s].table, store[s].table)
           /\ phase[d] = "on" => store'[d].table = Effect(store[d].table, op)
<1>1. /\ Execute(store[d], op) \in SaneStore
      /\ Execute(store[d], op).table = Effect(store[d].table, op)
      /\ AsRecent(Execute(store[d], op).table, store[d].table)
  BY ExecuteFacts DEF TypeInv
<1>2. \A s \in Server : AsRecent(store[s].table, store[s].table)
  BY AsRecentReflexive DEF TypeInv, SaneStore
<1> QED BY <1>1, <1>2 DEF Receive, TypeInv

LEMMA InitType == Init => TypeInv
<1> SUFFICES ASSUME Init PROVE TypeInv
  OBVIOUS
<1>1. store \in [Server -> SaneStore] /\ reply \in [Server -> SaneReply]
  BY FreshStoreType, NoReplyType DEF Init
<1>2. /\ phase \in [Server -> Phase] /\ cursor \in [Server -> Nat \ {0}]
      /\ late \in SUBSET Server /\ tasks \in SUBSET SaneTask
      /\ queue \in Seq(SaneMessage) /\ issued \in SUBSET SaneOp
  BY DEF Init, Phase
<1>3. now \in Time /\ outages \in 0..MaxOutages
  BY KvAssumption, GroupAssumption DEF Init, Time
<1> QED BY <1>1, <1>2, <1>3 DEF TypeInv
(* Messages are made from messages.                                         *)
LEMMA QueuedType ==
    ASSUME TypeInv, NEW d \in Server, NEW op \in SaneOp, NEW sender \in Server
    PROVE  Queued(d, op, sender) \in Seq(SaneMessage)
<1>1. [op |-> op, left |-> Secondary \ {sender}] \in SaneMessage
  BY ServerFacts DEF SaneMessage
<1> QED BY <1>1, AppendProperties DEF Queued, TypeInv

LEMMA AnswerType ==
    ASSUME NEW p \in SaneStore, NEW st \in SaneStore
    PROVE  Answer(p, st) \in SaneReply
<1>1. /\ p.ckpt \in CheckpointFile /\ p.log \in Seq(SaneOp)
      /\ st.count \in Nat /\ Len(p.log) \in Nat
  BY DEF SaneStore
<1>2. SubSeq(p.log, st.count + 1, Len(p.log)) \in Seq(SaneOp)
  BY <1>1, SubSeqProperties
<1> QED BY <1>1, <1>2, NoReplyType DEF Answer, SaneReply

LEMMA InstalledType ==
    ASSUME NEW st \in SaneStore, NEW r \in SaneReply
    PROVE  /\ [st EXCEPT !.ckpt = r.ckpt, !.table = r.ckpt.table,
                         !.version = r.ckpt.version, !.log = r.log] \in SaneStore
           /\ [st EXCEPT !.log = st.log \o r.log] \in SaneStore
<1>1. st.log \o r.log \in Seq(SaneOp)
  BY ConcatProperties DEF SaneStore, SaneReply
<1>2. /\ r.ckpt \in CheckpointFile /\ r.ckpt.table \in Table /\ r.ckpt.version \in Nat
      /\ r.log \in Seq(SaneOp)
  BY DEF SaneReply, CheckpointFile
<1> QED BY <1>1, <1>2 DEF SaneStore

LEMMA DieType ==
    ASSUME TypeInv, NEW s \in Server, Die(s)
    PROVE  /\ store' \in [Server -> SaneStore] /\ phase' \in [Server -> Phase]
           /\ cursor' \in [Server -> Nat \ {0}] /\ reply' \in [Server -> SaneReply]
           /\ late' \in SUBSET Server /\ tasks' \in SUBSET SaneTask
           /\ queue' \in Seq(SaneMessage)
<1>1. store' \in [Server -> SaneStore]
  BY ReloadedType DEF Die, TypeInv
<1>2. reply' \in [Server -> SaneReply]
  BY NoReplyType DEF Die, TypeInv
<1> QED BY <1>1, <1>2 DEF Die, TypeInv, Phase

LEMMA TypeStep ==
    ASSUME TypeInv, [Next]_vars
    PROVE  TypeInv'
<1> USE DEF TypeInv
<1>1. ASSUME NEW s \in Server, ClientCommand(s) PROVE TypeInv'
  <2>1. now + 1 \in Time
    BY <1>1, KvAssumption DEF ClientCommand, Time
  <2>2. PICK op \in Requests(now + 1) :
            /\ store' = [store EXCEPT ![s] = Execute(store[s], op)]
            /\ \/ /\ tasks' = tasks \cup {[op |-> op, at |-> s, left |-> Destinations(s)]}
                  /\ issued' = issued \cup {op}
               \/ UNCHANGED <<tasks, issued>>
    BY <1>1 DEF ClientCommand
  <2>3. op \in SaneOp
    BY <2>1, RequestType DEF SaneOp
  <2>4. store' \in [Server -> SaneStore]
    BY <2>2, <2>3, ExecuteFacts
  <2>5. [op |-> op, at |-> s, left |-> Destinations(s)] \in SaneTask
    BY <2>3, ServerFacts DEF SaneTask, Destinations
  <2>6. tasks' \in SUBSET SaneTask /\ issued' \in SUBSET SaneOp
    BY <2>2, <2>3, <2>5
  <2> QED BY <1>1, <2>1, <2>4, <2>6 DEF ClientCommand
<1>2. ASSUME NEW task \in tasks, Forward(task) PROVE TypeInv'
  <2> DEFINE d == First(task.left)
  <2>1. /\ task.op \in SaneOp /\ task.at \in Server /\ task.left \in SUBSET Server
        /\ d \in Server
    BY <1>2, FirstFacts DEF SaneTask, Forward
  <2>2. /\ Receive(d, task.op) /\ queue' = Queued(d, task.op, task.at)
        /\ tasks' = (tasks \ {task}) \cup {[task EXCEPT !.left = @ \ {d}]}
    BY <1>2 DEF Forward
  <2> HIDE DEF d
  <2>3. store' \in [Server -> SaneStore] /\ queue' \in Seq(SaneMessage)
    BY <2>1, <2>2, ReceiveFacts, QueuedType
  <2>4. [task EXCEPT !.left = @ \ {d}] \in SaneTask
    <3>1. task \in SaneTask
      BY <1>2
    <3> QED BY <2>1, <3>1 DEF SaneTask
  <2>5. tasks' \in SUBSET SaneTask
    BY <2>2, <2>4
  <2> QED BY <1>2, <2>3, <2>5 DEF Forward
<1>3. ASSUME NEW task \in tasks, Return(task) PROVE TypeInv'
  BY <1>3 DEF Return
<1>4. ASSUME QueueForward PROVE TypeInv'
  <2> DEFINE d == First(Head(queue).left)
  <2>1. Head(queue) = queue[1] /\ 1 \in DOMAIN queue /\ queue[1] \in SaneMessage
    BY <1>4 DEF QueueForward
  <2>2. queue[1].op \in SaneOp /\ queue[1].left \in SUBSET Server /\ d \in Server
    BY <1>4, <2>1, FirstFacts DEF QueueForward, SaneMessage
  <2>3. Receive(d, queue[1].op) /\ queue' = [queue EXCEPT ![1].left = @ \ {d}]
    BY <1>4, <2>1 DEF QueueForward
  <2> HIDE DEF d
  <2>4. store' \in [Server -> SaneStore]
    BY <2>2, <2>3, ReceiveFacts
  <2>5. queue' \in Seq(SaneMessage)
    <3>1. [queue[1] EXCEPT !.left = @ \ {d}] \in SaneMessage
      BY <2>1, <2>2 DEF SaneMessage
    <3>2. queue' = [queue EXCEPT ![1] = [queue[1] EXCEPT !.left = @ \ {d}]]
      BY <2>3
    <3> QED BY <2>1, <3>1, <3>2, ExceptSeq
  <2> QED BY <1>4, <2>4, <2>5 DEF QueueForward
<1>5. ASSUME QueueErase PROVE TypeInv'
  <2>1. Tail(queue) \in Seq(SaneMessage)
    BY <1>5, HeadTailProperties DEF QueueErase
  <2> QED BY <1>5, <2>1 DEF QueueErase
<1>6. ASSUME NEW s \in Server, SwitchOff(s) PROVE TypeInv'
  BY <1>6, GroupAssumption DEF SwitchOff, Phase
<1>7. ASSUME NEW s \in Server, Restart(s) PROVE TypeInv'
  BY <1>7 DEF Restart, Phase
<1>8. ASSUME NEW s \in Server, Crash(s) PROVE TypeInv'
  <2>1. outages' \in 0..MaxOutages
    BY <1>8, GroupAssumption DEF Crash
  <2>2. Die(s) /\ UNCHANGED <<now, issued>>
    BY <1>8 DEF Crash
  <2> QED BY <2>1, <2>2, DieType
<1>9. ASSUME NEW s \in Server, Boot(s) PROVE TypeInv'
  <2>1. store' \in [Server -> SaneStore]
    BY <1>9, ReloadedType DEF Boot
  <2> QED BY <1>9, <2>1 DEF Boot, Phase
<1>10. ASSUME NEW s \in Server, ReplayRecord(s) PROVE TypeInv'
  <2> DEFINE tab == ReplayEffect(store[s].table, store[s].log[cursor[s]])
  <2>1. store[s] \in SaneStore /\ store[s].log[cursor[s]] \in SaneOp
    BY <1>10 DEF ReplayRecord, SaneStore
  <2>2. tab \in Table
    BY <2>1, ReplayAsRecent DEF SaneStore, SaneOp
  <2>3. store' = [store EXCEPT ![s] = [store[s] EXCEPT !.table = tab,
                                                       !.count = store[s].count + 1]]
    BY <1>10 DEF ReplayRecord
  <2> HIDE DEF tab
  <2>4. store[s].count + 1 \in Nat
    BY <2>1 DEF SaneStore
  <2>5. [store[s] EXCEPT !.table = tab, !.count = store[s].count + 1] \in SaneStore
    BY <2>1, <2>2, <2>4 DEF SaneStore
  <2>6. store' \in [Server -> SaneStore]
    BY <2>3, <2>5
  <2> QED BY <1>10, <2>6 DEF ReplayRecord
<1>11. ASSUME NEW s \in Server, Booted(s) PROVE TypeInv'
  <2>1. store' \in [Server -> SaneStore]
    BY <1>11, ExecuteFacts, AdminOpType DEF Booted
  <2> QED BY <1>11, <2>1 DEF Booted, Phase
<1>12. ASSUME NEW s \in Server, SyncRequest(s) PROVE TypeInv'
  <2>1. CASE Die(s)
    BY <1>12, <2>1, DieType DEF SyncRequest
  <2>2. Answer(store[Primary], store[s]) \in SaneReply
    BY ServerFacts, AnswerType
  <2>3. CASE ~Die(s)
    BY <1>12, <2>2, <2>3 DEF SyncRequest, Phase
  <2> QED BY <2>1, <2>3
<1>13. ASSUME NEW s \in Server, Install(s) PROVE TypeInv'
  <2> DEFINE r == reply[s]
             new == IF r.whole
                    THEN [store[s] EXCEPT !.ckpt = r.ckpt, !.table = r.ckpt.table,
                                          !.version = r.ckpt.version, !.log = r.log]
                    ELSE [store[s] EXCEPT !.log = store[s].log \o r.log]
  <2>0. new \in SaneStore
    <3>1. store[s] \in SaneStore /\ r \in SaneReply
      OBVIOUS
    <3> HIDE DEF r
    <3> QED BY <3>1, InstalledType
  <2>1. store' \in [Server -> SaneStore]
    <3>1. store' = [store EXCEPT ![s] = new]
      BY <1>13 DEF Install
    <3> HIDE DEF new
    <3> QED BY <2>0, <3>1
  <2>2. reply' \in [Server -> SaneReply]
    BY <1>13, NoReplyType DEF Install
  <2> QED BY <1>13, <2>1, <2>2 DEF Install, Phase
<1>14. ASSUME NEW s \in Server, Synced(s) PROVE TypeInv'
  BY <1>14 DEF Synced, Phase
<1>15. CASE UNCHANGED vars
  BY <1>15 DEF vars
<1> QED
  BY <1>1, <1>2, <1>3, <1>4, <1>5, <1>6, <1>7, <1>8, <1>9, <1>10, <1>11, <1>12, <1>13,
     <1>14, <1>15 DEF Next, Multicast, PrimaryQueue, Recover

LEMMA TypeInvariant == Spec => []TypeInv
<1>1. TypeInv /\ [Next]_vars => TypeInv'
  BY TypeStep
<1> QED BY <1>1, InitType, PTL DEF Spec

(* Every variable keeps its type.                                           *)
THEOREM TypeCorrect == Spec => []TypeOK
<1>1. /\ SaneOp \subseteq Op /\ Seq(SaneOp) \subseteq Seq(Op)
      /\ SaneTask \subseteq Task
      /\ Seq(SaneMessage) \subseteq Seq(Message)
  <2>1. SaneOp \subseteq Op
    BY DEF SaneOp
  <2>2. SaneTask \subseteq Task /\ SaneMessage \subseteq Message
    BY <2>1 DEF SaneTask, SaneMessage, Task, Message
  <2>3. ASSUME NEW S, NEW T, S \subseteq T PROVE Seq(S) \subseteq Seq(T)
    BY <2>3
  <2> QED BY <2>1, <2>2, <2>3
<1>2. SaneStore \subseteq Store /\ SaneReply \subseteq Reply
  BY <1>1 DEF SaneStore, Store, SaneReply, Reply
<1>3. ASSUME TypeInv PROVE TypeOK
  <2>1. store \in [Server -> Store] /\ reply \in [Server -> Reply]
    BY <1>2, <1>3 DEF TypeInv
  <2>2. tasks \in SUBSET Task /\ queue \in Seq(Message) /\ issued \in SUBSET Op
    BY <1>1, <1>3 DEF TypeInv
  <2> QED BY <1>3, <2>1, <2>2 DEF TypeInv, TypeOK
<1> QED BY <1>3, TypeInvariant, PTL

-----------------------------------------------------------------------------
(* Reads do not go back.                                                    *)

LEMMA OnIsRecent ==
    ASSUME TypeInv, [Next]_vars, NEW s \in Server, phase[s] = "on", phase'[s] = "on"
    PROVE  AsRecent(store'[s].table, store[s].table)
<1>1. AsRecent(store[s].table, store[s].table)
  BY AsRecentReflexive DEF TypeInv, SaneStore
<1>2. CASE store' = store
  BY <1>1, <1>2
<1>3. ASSUME NEW r \in Server, ClientCommand(r) PROVE AsRecent(store'[s].table, store[s].table)
  <2>1. PICK op \in Requests(now + 1) : store' = [store EXCEPT ![r] = Execute(store[r], op)]
    BY <1>3 DEF ClientCommand
  <2>2. now + 1 \in Time
    BY <1>3, KvAssumption DEF ClientCommand, Time, TypeInv
  <2>3. op \in SaneOp
    BY <2>1, <2>2, RequestType DEF SaneOp
  <2> QED BY <1>1, <2>1, <2>3, ExecuteFacts DEF TypeInv
<1>4. ASSUME NEW task \in tasks, Forward(task)
      PROVE  AsRecent(store'[s].table, store[s].table)
  <2>1. /\ task.op \in SaneOp /\ First(task.left) \in Server
        /\ Receive(First(task.left), task.op)
    BY <1>4, FirstFacts DEF TypeInv, SaneTask, Forward
  <2> QED BY <2>1, ReceiveFacts
<1>5. ASSUME QueueForward PROVE AsRecent(store'[s].table, store[s].table)
  <2>1. Head(queue) \in SaneMessage
    BY <1>5 DEF QueueForward, TypeInv
  <2>2. /\ Head(queue).op \in SaneOp /\ First(Head(queue).left) \in Server
        /\ Receive(First(Head(queue).left), Head(queue).op)
    BY <1>5, <2>1, FirstFacts DEF SaneMessage, QueueForward
  <2> QED BY <2>2, ReceiveFacts
\* Every other step that changes a store is one of a server that is not on.
<1>6. ASSUME NEW r \in Server, Crash(r) \/ Recover(r)
      PROVE  store'[s] = store[s]
  <2>1. CASE Die(r)
    BY <2>1 DEF Die, TypeInv
  <2>2. CASE ~Die(r)
    BY <1>6, <2>2 DEF Crash, Recover, Boot, ReplayRecord, Replaying, Booted, SyncRequest,
                      Install, Synced, TypeInv
  <2> QED BY <2>1, <2>2
<1>7. ASSUME NEW r \in Server, SwitchOff(r) \/ Restart(r) PROVE store' = store
  BY <1>7 DEF SwitchOff, Restart
<1>8. ASSUME NEW task \in tasks, Return(task) PROVE store' = store
  BY <1>8 DEF Return
<1>9. ASSUME QueueErase PROVE store' = store
  BY <1>9 DEF QueueErase
<1>10. CASE UNCHANGED vars
  BY <1>10, <1>2 DEF vars
<1> QED
  BY <1>1, <1>2, <1>3, <1>4, <1>5, <1>6, <1>7, <1>8, <1>9, <1>10
     DEF Next, Multicast, PrimaryQueue

(* What a server that is on answers for a cell never goes back to an older  *)
(* write, for any number of servers, messages and outages.                  *)
THEOREM AnswersNeverGoBack == Spec => NeverBack
<1>1. TypeInv /\ [Next]_vars =>
        [\A s \in Server, c \in Cell :
            phase[s] = "on" /\ phase'[s] = "on" /\ c[2] \notin Erasable =>
               store'[s].table[c].time >= store[s].table[c].time]_vars
  BY OnIsRecent DEF AsRecent
<1> QED BY <1>1, TypeInvariant, PTL DEF Spec, NeverBack

-----------------------------------------------------------------------------
(* A primary without outages never misses a put.                            *)

NoPrimaryOutage == MayCrash = {} /\ Primary \notin MaySwitchOff

PrimaryInv == TypeInv /\ phase[Primary] = "on" /\ PrimaryHasAll

Coming(op) == \E task \in tasks : task.op = op /\ Primary \in task.left

LEMMA PrimaryStaysOn ==
    ASSUME NoPrimaryOutage, TypeInv, phase[Primary] = "on", [Next]_vars
    PROVE  phase'[Primary] = "on"
<1> USE ServerFacts DEF NoPrimaryOutage, TypeInv
<1>1. ASSUME NEW s \in Server,
             ClientCommand(s) \/ SwitchOff(s) \/ Restart(s) \/ Crash(s)
      PROVE  phase'[Primary] = "on"
  BY <1>1 DEF ClientCommand, SwitchOff, Restart, Crash
<1>2. ASSUME NEW s \in Server, Recover(s) PROVE phase'[Primary] = "on"
  BY <1>2 DEF Recover, Boot, ReplayRecord, Replaying, Booted, SyncRequest, Install, Synced
<1>3. ASSUME Multicast \/ PrimaryQueue PROVE phase'[Primary] = "on"
  BY <1>3 DEF Multicast, PrimaryQueue, Forward, Return, QueueForward, QueueErase
<1>4. CASE UNCHANGED vars
  BY <1>4 DEF vars
<1> QED BY <1>1, <1>2, <1>3, <1>4 DEF Next

LEMMA PrimaryInvStep ==
    ASSUME NoPrimaryOutage, PrimaryInv, [Next]_vars
    PROVE  PrimaryInv'
<1> USE DEF PrimaryInv
<1>1. TypeInv' /\ phase'[Primary] = "on"
  BY TypeStep, PrimaryStaysOn
<1>2. AsRecent(store'[Primary].table, store[Primary].table)
  BY <1>1, OnIsRecent, ServerFacts
<1>3. \A op \in issued : Lasting(op) /\ Reflects(store[Primary].table, op) =>
         Reflects(store'[Primary].table, op)
  BY <1>1, <1>2, ReflectsStays, ServerFacts DEF TypeInv, SaneStore, SaneOp
<1>4. SUFFICES ASSUME NEW op \in issued', Lasting(op)
               PROVE  Reflects(store'[Primary].table, op) \/ Coming(op)'
  BY <1>1 DEF PrimaryHasAll, Coming
<1>5. CASE op \in issued /\ Reflects(store[Primary].table, op)
  BY <1>3, <1>4, <1>5
<1>6. CASE op \in issued /\ Coming(op)
  <2>1. PICK task \in tasks : task.op = op /\ Primary \in task.left
    BY <1>6 DEF Coming
  <2>2. CASE task \in tasks'
    BY <2>1, <2>2 DEF Coming
  <2>3. ASSUME Forward(task) PROVE Reflects(store'[Primary].table, op) \/ Coming(op)'
    <3> DEFINE d == First(task.left)
               left == [task EXCEPT !.left = task.left \ {d}]
    <3>1. /\ task \in SaneTask /\ op \in SaneOp /\ d \in Server
          /\ Receive(d, op) /\ left \in tasks'
      BY <2>1, <2>3, FirstFacts DEF TypeInv, SaneTask, Forward
    <3>2. CASE d = Primary
      <4>1. store'[Primary].table = Effect(store[Primary].table, op)
        BY <3>1, <3>2, ReceiveFacts
      <4>2. store[Primary].table \in Table /\ op \in Op
        BY ServerFacts, <3>1 DEF TypeInv, SaneStore, SaneOp
      <4> QED BY <1>4, <4>1, <4>2, PutReflects
    <3>3. CASE d # Primary
      <4>1. left.op = op /\ Primary \in left.left
        BY <2>1, <3>1, <3>3 DEF SaneTask
      <4> QED BY <3>1, <4>1 DEF Coming
    <3> QED BY <3>2, <3>3
  <2>4. ASSUME NEW other \in tasks, other # task, Forward(other) \/ Return(other)
        PROVE  task \in tasks'
    BY <2>4 DEF Forward, Return
  <2>5. ~Return(task)
    BY <2>1 DEF Return
  <2>6. ASSUME NEW s \in Server,
               ClientCommand(s) \/ SwitchOff(s) \/ Restart(s) \/ Crash(s) \/ Recover(s)
        PROVE  task \in tasks'
    BY <2>6, ServerFacts
       DEF ClientCommand, SwitchOff, Restart, Crash, Recover, Boot, ReplayRecord, Booted,
           SyncRequest, Install, Synced, NoPrimaryOutage, TypeInv
  <2>7. ASSUME PrimaryQueue PROVE task \in tasks'
    BY <2>7 DEF PrimaryQueue, QueueForward, QueueErase
  <2>8. CASE UNCHANGED vars
    BY <2>2, <2>8 DEF vars
  <2> QED BY <2>2, <2>3, <2>4, <2>5, <2>6, <2>7, <2>8 DEF Next, Multicast
<1>7. CASE op \notin issued
  <2>1. PICK s \in Server : ClientCommand(s)
    BY <1>4, <1>7 DEF Next, SwitchOff, Restart, Crash, Recover, Boot, ReplayRecord, Booted,
                      SyncRequest, Install, Synced, Multicast, Forward, Return,
                      PrimaryQueue, QueueForward, QueueErase, vars
  <2>2. PICK r \in Requests(now + 1) :
            /\ store' = [store EXCEPT ![s] = Execute(store[s], r)]
            /\ IF Recorded(store[s].table, r)
               THEN /\ tasks' = tasks \cup {[op |-> r, at |-> s, left |-> Destinations(s)]}
                    /\ issued' = issued \cup {r}
               ELSE UNCHANGED <<tasks, issued>>
    BY <2>1 DEF ClientCommand
  <2>3. r = op /\ [op |-> op, at |-> s, left |-> Destinations(s)] \in tasks'
    BY <1>4, <1>7, <2>2
  <2>4. op \in SaneOp
    BY <1>1, <1>4 DEF TypeInv
  <2>5. CASE s = Primary
    <3>1. store'[Primary].table = Effect(store[Primary].table, op)
      BY <2>2, <2>3, <2>4, <2>5, ExecuteFacts DEF TypeInv
    <3>2. store[Primary].table \in Table /\ op \in Op
      BY <2>4, ServerFacts DEF TypeInv, SaneStore, SaneOp
    <3> QED BY <1>4, <3>1, <3>2, PutReflects
  <2>6. CASE s # Primary
    BY <2>3, <2>6 DEF Destinations, Coming
  <2> QED BY <2>5, <2>6
<1> QED BY <1>4, <1>5, <1>6, <1>7 DEF PrimaryHasAll, Coming

(* When the primary has no outage and no server crashes, every acknowledged *)
(* put is at the primary or about to be forwarded there, for any number of  *)
(* secondaries that are switched off and on.                                *)
THEOREM PrimaryNeverMissesAPut ==
    ASSUME NoPrimaryOutage
    PROVE  Spec => []PrimaryHasAll
<1>1. Init => PrimaryInv
  BY InitType, ServerFacts DEF Init, PrimaryInv, PrimaryHasAll
<1>2. PrimaryInv /\ [Next]_vars => PrimaryInv'
  BY PrimaryInvStep
<1>3. PrimaryInv => PrimaryHasAll
  BY DEF PrimaryInv
<1> QED BY <1>1, <1>2, <1>3, PTL DEF Spec
-----------------------------------------------------------------------------
(* Convergence, when clients put and send mails and every server stays on.  *)
(* A mail is refused where its receiver is unknown, and rows reach the      *)
(* servers at different times: with mails the only row is the first one.    *)

AddsOnly ==
    /\ Kinds \subseteq {"put", "putemail"}
    /\ "putemail" \in Kinds => User = {Admin}
    /\ MayCrash = {} /\ MaySwitchOff = {}

Adds(op) == op.kind = "put" \/ (op.kind = "putemail" /\ op.user = Admin)

\* The cell that a command adds, mailboxes apart, and tables that have it or a
\* later write.
At(op) == <<op.user, IF op.kind = "putemail" THEN MailCol(op.time) ELSE op.col>>
Holds(tab, op) == Present(tab, At(op)) /\ tab[At(op)].time >= op.time
Sets(op, c, entry) == At(op) = c /\ entry = [val |-> op.val, time |-> op.time]

\* A command that server s has not executed yet is on its way to it.
Pending(s, op) ==
    \/ \E task \in tasks :
          task.op = op /\ (s \in task.left \/ (Primary \in task.left /\ s # task.at))
    \/ \E i \in DOMAIN queue : queue[i].op = op /\ s \in queue[i].left

Issued ==
    /\ \A op \in issued : Adds(op) /\ 0 < op.time /\ op.time <= now
    /\ \A op1, op2 \in issued : op1.time = op2.time => op1 = op2
    /\ \A task \in tasks : task.op \in issued
    /\ \A i \in DOMAIN queue : queue[i].op \in issued

Reached ==
    \A s \in Server, op \in issued : Holds(store[s].table, op) \/ Pending(s, op)

\* Every cell is as the first start left it, or some command wrote it.
Written ==
    \A s \in Server, c \in Cell : c[2] # MailboxCol =>
        \/ store[s].table[c] = FreshStore.table[c]
        \/ \E op \in issued : Sets(op, c, store[s].table[c])

ConvergeInv ==
    /\ TypeInv
    /\ \A s \in Server : phase[s] = "on" /\ HasUser(store[s].table, Admin)
    /\ Issued
    /\ Reached
    /\ Written

\* What one server does with a put or a mail.
LEMMA PutHolds ==
    ASSUME NEW tab \in Table, NEW c \in Cell, NEW v \in Value, NEW m \in Time
    PROVE  /\ \A p \in SaneOp : Holds(tab, p) => Holds(Insert(tab, c, v, m), p)
           /\ HasUser(tab, Admin) => HasUser(Insert(tab, c, v, m), Admin)
           /\ \A d \in Cell : \/ Insert(tab, c, v, m)[d] = tab[d]
                              \/ d = c /\ Insert(tab, c, v, m)[d] = [val |-> v, time |-> m]
<1> DEFINE new == Insert(tab, c, v, m)
<1>1. /\ new \in Table
      /\ \A d \in Cell : new[d].time >= tab[d].time /\ (Present(tab, d) => Present(new, d))
  BY PutFacts
<1>2. ASSUME NEW p \in SaneOp, Holds(tab, p) PROVE Holds(new, p)
  <2>1. At(p) \in Cell /\ p.time \in Time
    BY CellTypes DEF SaneOp, Op, Cell, At
  <2>2. tab[At(p)].time \in Time /\ new[At(p)].time \in Time
    BY <1>1, <2>1, EntryShape
  <2>3. tab[At(p)].time >= p.time /\ Present(tab, At(p))
    BY <1>2 DEF Holds
  <2>4. new[At(p)].time >= p.time /\ Present(new, At(p))
    BY <1>1, <2>1, <2>2, <2>3, KvAssumption DEF Time
  <2> QED BY <2>4 DEF Holds
<1>3. HasUser(tab, Admin) => HasUser(new, Admin)
  BY GroupAssumption, HasUserStays
<1>4. \A d \in Cell : new[d] = tab[d] \/ (d = c /\ new[d] = [val |-> v, time |-> m])
  <2>1. \A d \in Cell \ {c} : new[d] = tab[d]
    BY PutCells
  <2>2. new[c] \in {tab[c], [val |-> v, time |-> m]}
    BY InsertEntry
  <2> QED BY <2>1, <2>2
<1> QED BY <1>2, <1>3, <1>4

LEMMA AddExecuted ==
    ASSUME NEW st \in SaneStore, NEW op \in SaneOp, Adds(op), HasUser(st.table, Admin)
    PROVE  /\ Recorded(st.table, op)
           /\ HasUser(Execute(st, op).table, Admin)
           /\ Holds(Execute(st, op).table, op)
           /\ \A p \in SaneOp : Holds(st.table, p) => Holds(Execute(st, op).table, p)
           /\ \A c \in Cell : c[2] # MailboxCol =>
                 \/ Execute(st, op).table[c] = st.table[c]
                 \/ Sets(op, c, Execute(st, op).table[c])
<1> DEFINE tab == st.table
           put == Insert(tab, At(op), op.val, op.time)
           box == <<op.user, MailboxCol>>
           longer == Append(Inbox(tab, op.user), op.time)
           sent == Insert(put, box, longer, op.time)
<1>1. /\ At(op) \in Cell /\ op.val \in Value /\ op.time \in Time /\ tab \in Table
      /\ op.user \in User
  BY CellTypes DEF SaneOp, Op, Cell, Value, At, SaneStore
<1>2. Execute(st, op).table = Effect(tab, op)
  BY ExecuteFacts
<1>3. Recorded(tab, op) /\ (op.kind = "putemail" => Succeeds(tab, op))
  BY DEF Recorded, Succeeds, Adds
<1>4. /\ put \in Table
      /\ \A p \in SaneOp : Holds(tab, p) => Holds(put, p)
      /\ HasUser(put, Admin)
      /\ \A c \in Cell : put[c] = tab[c] \/ Sets(op, c, put[c])
  BY <1>1, PutFacts, PutHolds DEF Sets
<1>5. Holds(put, op)
  BY <1>1, PutFacts DEF Holds
<1>6. CASE op.kind = "put"
  <2>1. Effect(tab, op) = put
    BY <1>6 DEF Effect, At
  <2> HIDE DEF put
  <2> QED BY <1>2, <1>3, <1>4, <1>5, <2>1
<1>7. CASE op.kind = "putemail"
  <2>1. Effect(tab, op) = sent
    BY <1>3, <1>7 DEF Effect, SendMail, At
  <2>2. box \in Cell /\ box[2] = MailboxCol /\ longer \in Value
    <3>1. Inbox(tab, op.user) \in Seq(Time)
      BY <1>1, InboxType
    <3>2. longer \in Seq(Time)
      BY <1>1, <3>1, AppendProperties
    <3>3. box \in Cell
      BY <1>1, CellTypes DEF NamedCol
    <3> HIDE DEF longer
    <3> QED BY <3>2, <3>3 DEF Value
  <2> HIDE DEF put, longer, box
  <2>3. /\ \A p \in SaneOp : Holds(put, p) => Holds(sent, p)
        /\ HasUser(sent, Admin)
        /\ \A c \in Cell : sent[c] = put[c] \/ c = box
    <3>1. put \in Table /\ box \in Cell /\ longer \in Value /\ op.time \in Time
      BY <1>1, <1>4, <2>2
    <3>2. HasUser(put, Admin)
      BY <1>4
    <3>3. \A p \in SaneOp : Holds(put, p) => Holds(sent, p)
      BY <3>1, PutHolds
    <3>4. HasUser(sent, Admin)
      BY <3>1, <3>2, PutHolds
    <3>5. \A c \in Cell : sent[c] = put[c] \/ c = box
      BY <3>1, PutCells
    <3> QED BY <3>3, <3>4, <3>5
  <2> HIDE DEF sent
  <2>4. \A c \in Cell : c[2] # MailboxCol => sent[c] = tab[c] \/ Sets(op, c, sent[c])
    BY <1>4, <2>2, <2>3
  <2> QED BY <1>2, <1>3, <1>4, <1>5, <2>1, <2>3, <2>4
<1> QED BY <1>6, <1>7 DEF Adds

\* The account of the administrator, as the first start writes it.
LEMMA FreshCells ==
    /\ FreshStore.table[<<Admin, PasswordCol>>] = [val |-> Root, time |-> 0]
    /\ FreshStore.table[<<Admin, CurDirCol>>] = [val |-> Root, time |-> 0]
    /\ FreshStore.table[<<Admin, RootCol>>] = [val |-> Root, time |-> 0]
    /\ FreshStore.table[<<Admin, MailboxCol>>] = [val |-> <<>>, time |-> 0]
    /\ \A c \in Cell : FreshStore.table[c].time = 0
<1> DEFINE c1 == <<Admin, PasswordCol>>
           c2 == <<Admin, CurDirCol>>
           c3 == <<Admin, RootCol>>
           c4 == <<Admin, MailboxCol>>
           p1 == Insert(EmptyTable, c1, Root, 0)
           p2 == Insert(p1, c2, Root, 0)
           p3 == Insert(p2, c3, Root, 0)
           p4 == Insert(p3, c4, <<>>, 0)
           New(v) == [val |-> v, time |-> 0]
<1>1. /\ c1 \in Cell /\ c2 \in Cell /\ c3 \in Cell /\ c4 \in Cell
      /\ c1 # c2 /\ c1 # c3 /\ c1 # c4 /\ c2 # c3 /\ c2 # c4 /\ c3 # c4
  BY GroupAssumption, CellTypes, ColumnsDiffer
     DEF NamedCol, PasswordCol, CurDirCol, RootCol, MailboxCol
<1>2. 0 \in Time /\ Root \in Value /\ <<>> \in Value
  BY KvAssumption DEF Time, Value
<1>3. EmptyTable \in Table /\ \A c \in Cell : EmptyTable[c].time = 0
  BY EmptyTableType, Places DEF EmptyTable, NoEntry
<1>4. ASSUME NEW tab \in Table, \A c \in Cell : tab[c].time = 0, NEW d \in Cell, NEW v \in Value
      PROVE  /\ Insert(tab, d, v, 0) \in Table
             /\ \A c \in Cell : Insert(tab, d, v, 0)[c].time = 0
             /\ Insert(tab, d, v, 0)[d] = New(v)
             /\ \A c \in Cell \ {d} : Insert(tab, d, v, 0)[c] = tab[c]
  <2>1. tab[d].time <= 0
    BY <1>4
  <2>2. Put(tab, d, v, 0) = [tab EXCEPT ![d] = New(v)]
    BY <2>1 DEF Put
  <2>3. /\ Insert(tab, d, v, 0) \in Table
        /\ \A c \in Cell : Insert(tab, d, v, 0)[c] = Put(tab, d, v, 0)[c]
    BY <1>2, <1>4, PutType
  <2>4. /\ Put(tab, d, v, 0)[d] = New(v)
        /\ \A c \in Cell \ {d} : Put(tab, d, v, 0)[c] = tab[c]
    BY <1>4, <2>2, Places DEF Table
  <2> QED BY <1>4, <2>3, <2>4
<1>5. SignUp(EmptyTable, Admin, Root, 0) = p4
  BY DEF SignUp
<1>6. FreshStore.table = p4
  <2>1. FreshStore.table = Effect(EmptyTable, AdminOp)
    BY EmptyStoreType, AdminOpType, ExecuteFacts DEF FreshStore, EmptyStore
  <2>2. /\ AdminOp.kind = "register" /\ AdminOp.user = Admin /\ AdminOp.val = Root
        /\ AdminOp.time = 0
    BY DEF AdminOp, RegisterOp, Command
  <2>3. Succeeds(EmptyTable, AdminOp)
    <3>1. ~HasUser(EmptyTable, Admin)
      BY GroupAssumption, Places DEF HasUser, HasColumn, Present, EmptyTable, NoEntry, Place
    <3> QED BY <2>2, <3>1 DEF Succeeds
  <2>4. Effect(EmptyTable, AdminOp) = SignUp(EmptyTable, Admin, Root, 0)
    BY <2>2, <2>3 DEF Effect
  <2> HIDE DEF p4
  <2> QED BY <1>5, <2>1, <2>4
<1> HIDE DEF c1, c2, c3, c4, New
<1>7. /\ p1 \in Table /\ \A c \in Cell : p1[c].time = 0
      /\ p1[c1] = New(Root)
  BY <1>1, <1>2, <1>3, <1>4
<1> HIDE DEF p1
<1>8. /\ p2 \in Table /\ \A c \in Cell : p2[c].time = 0
      /\ p2[c1] = New(Root) /\ p2[c2] = New(Root)
  BY <1>1, <1>2, <1>4, <1>7
<1> HIDE DEF p2
<1>9. /\ p3 \in Table /\ \A c \in Cell : p3[c].time = 0
      /\ p3[c1] = New(Root) /\ p3[c2] = New(Root) /\ p3[c3] = New(Root)
  BY <1>1, <1>2, <1>4, <1>8
<1> HIDE DEF p3
<1>10. /\ p4[c1] = New(Root) /\ p4[c2] = New(Root) /\ p4[c3] = New(Root)
       /\ p4[c4] = New(<<>>) /\ \A c \in Cell : p4[c].time = 0
  BY <1>1, <1>2, <1>4, <1>9
<1> QED BY <1>6, <1>10 DEF c1, c2, c3, c4, New

LEMMA InitConverge == AddsOnly /\ Init => ConvergeInv
<1> SUFFICES ASSUME Init PROVE ConvergeInv
  OBVIOUS
<1>1. TypeInv
  BY InitType
<1>2. Issued /\ Reached /\ Written
  BY DEF Init, Issued, Reached, Written
<1>3. HasUser(FreshStore.table, Admin)
  <2>1. PasswordCol \in Column
    BY ColumnTypes
  <2>2. FreshStore.table[<<Admin, PasswordCol>>].val = Root
    BY FreshCells
  <2> QED BY <2>1, <2>2, KvAssumption DEF HasUser, HasColumn, Present
<1> QED BY <1>1, <1>2, <1>3 DEF Init, ConvergeInv

\* Settled replicas agree: a cell of one is not behind the same cell of another.
LEMMA SettledAgree == ConvergeInv => Converged
<1> SUFFICES ASSUME ConvergeInv, Settled, NEW s \in Server, NEW d \in Server,
                    NEW c \in Cell, c[2] # MailboxCol
             PROVE  store[s].table[c] = store[d].table[c]
  BY DEF Converged
<1>1. \A r \in Server, op \in issued : Holds(store[r].table, op)
  BY DEF ConvergeInv, Reached, Pending, Settled
<1>2. ASSUME NEW r \in Server, NEW q \in Server, NEW op \in issued,
             Sets(op, c, store[r].table[c])
      PROVE  \E p \in issued : /\ Sets(p, c, store[q].table[c])
                               /\ p.time >= op.time
  <2>1. store[q].table[c].time >= op.time /\ op.time > 0 /\ op.time \in Nat
    BY <1>1, <1>2 DEF Sets, Holds, ConvergeInv, Issued, TypeInv, SaneOp, Op, Time
  <2>2. store[q].table[c] # FreshStore.table[c]
    BY <2>1, FreshCells
  <2>3. PICK p \in issued : Sets(p, c, store[q].table[c])
    BY <2>2 DEF ConvergeInv, Written
  <2> QED BY <2>1, <2>3 DEF Sets
<1>3. ASSUME NEW op \in issued, Sets(op, c, store[s].table[c])
      PROVE  store[s].table[c] = store[d].table[c]
  <2>1. PICK p \in issued : Sets(p, c, store[d].table[c]) /\ p.time >= op.time
    BY <1>2, <1>3
  <2>2. PICK o \in issued : Sets(o, c, store[s].table[c]) /\ o.time >= p.time
    BY <1>2, <2>1
  <2>3. o.time = store[s].table[c].time /\ op.time = store[s].table[c].time
    BY <1>3, <2>2 DEF Sets
  <2>4. op.time \in Nat /\ p.time \in Nat
    BY DEF ConvergeInv, TypeInv, SaneOp, Op, Time
  <2>5. op.time = p.time
    BY <2>1, <2>2, <2>3, <2>4
  <2>6. op = p
    BY <2>5 DEF ConvergeInv, Issued
  <2> QED BY <1>3, <2>1, <2>6 DEF Sets
<1>4. CASE store[s].table[c] = FreshStore.table[c]
  <2>1. ASSUME NEW p \in issued, Sets(p, c, store[d].table[c]) PROVE FALSE
    <3>1. store[s].table[c].time >= p.time /\ p.time > 0 /\ p.time \in Nat
      BY <1>1, <2>1 DEF Sets, Holds, ConvergeInv, Issued, TypeInv, SaneOp, Op, Time
    <3> QED BY <1>4, <3>1, FreshCells
  <2> QED BY <1>4, <2>1 DEF ConvergeInv, Written
<1> QED BY <1>3, <1>4 DEF ConvergeInv, Written

\* A server executes a put or a mail: what it had stays, and the new cell is there.
LEMMA ExecuteConverge ==
    ASSUME ConvergeInv, NEW d \in Server, NEW op \in SaneOp, Adds(op),
           store' = [store EXCEPT ![d] = Execute(store[d], op)],
           op \in issued', issued \subseteq issued'
    PROVE  /\ \A s \in Server, p \in issued :
                 Holds(store[s].table, p) => Holds(store'[s].table, p)
           /\ Holds(store'[d].table, op)
           /\ \A s \in Server : HasUser(store'[s].table, Admin)
           /\ Written'
<1> USE DEF ConvergeInv, TypeInv
<1>1. /\ Holds(Execute(store[d], op).table, op)
      /\ HasUser(Execute(store[d], op).table, Admin)
      /\ \A p \in SaneOp : Holds(store[d].table, p) => Holds(Execute(store[d], op).table, p)
      /\ \A c \in Cell : c[2] # MailboxCol =>
            \/ Execute(store[d], op).table[c] = store[d].table[c]
            \/ Sets(op, c, Execute(store[d], op).table[c])
  <2>1. store[d] \in SaneStore /\ HasUser(store[d].table, Admin)
    OBVIOUS
  <2> QED BY <2>1, AddExecuted
<1>2. /\ store'[d] = Execute(store[d], op)
      /\ \A s \in Server \ {d} : store'[s] = store[s]
  OBVIOUS
<1>3. \A s \in Server, c \in Cell : c[2] # MailboxCol =>
         store'[s].table[c] = store[s].table[c] \/ Sets(op, c, store'[s].table[c])
  BY <1>1, <1>2
<1>4. Written'
  BY <1>3 DEF Written
<1> QED BY <1>1, <1>2, <1>4

LEMMA ConvergeStep ==
    ASSUME AddsOnly, ConvergeInv, [Next]_vars
    PROVE  ConvergeInv'
<1> USE DEF ConvergeInv
<1>0. TypeInv'
  BY TypeStep
<1>1. ASSUME NEW s \in Server, ClientCommand(s) PROVE ConvergeInv'
  <2>1. PICK op \in Requests(now + 1) :
            /\ store' = [store EXCEPT ![s] = Execute(store[s], op)]
            /\ IF Recorded(store[s].table, op)
               THEN /\ tasks' = tasks \cup {[op |-> op, at |-> s, left |-> Destinations(s)]}
                    /\ issued' = issued \cup {op}
               ELSE UNCHANGED <<tasks, issued>>
    BY <1>1 DEF ClientCommand
  <2>2. now + 1 \in Time /\ now' = now + 1 /\ now \in Nat
    BY <1>1, KvAssumption DEF ClientCommand, Time, TypeInv
  <2>3. op \in SaneOp /\ op.time = now + 1 /\ Adds(op)
    <3>1. op \in SaneOp /\ op.time = now + 1 /\ op.kind \in Kinds
      BY <2>1, <2>2, RequestType DEF SaneOp, Requests
    <3>2. op.kind \in {"put", "putemail"}
      BY <3>1 DEF AddsOnly
    <3>3. op.kind = "putemail" => op.user = Admin
      BY <3>1 DEF AddsOnly, SaneOp, Op
    <3> QED BY <3>1, <3>2, <3>3 DEF Adds
  <2>4. Recorded(store[s].table, op)
    <3>1. store[s] \in SaneStore /\ HasUser(store[s].table, Admin)
      BY <1>1 DEF TypeInv
    <3> QED BY <2>3, <3>1, AddExecuted
  <2> DEFINE new == [op |-> op, at |-> s, left |-> Destinations(s)]
  <2>5. tasks' = tasks \cup {new} /\ issued' = issued \cup {op} /\ queue' = queue
    BY <1>1, <2>1, <2>4 DEF ClientCommand
  <2>6. /\ \A r \in Server, p \in issued :
              Holds(store[r].table, p) => Holds(store'[r].table, p)
        /\ Holds(store'[s].table, op)
        /\ \A r \in Server : HasUser(store'[r].table, Admin)
        /\ Written'
    BY <2>1, <2>3, <2>5, ExecuteConverge
  <2>7. Issued'
    <3>1. \A p \in issued : p.time \in Nat /\ p.time <= now /\ 0 < p.time
      BY DEF Issued, TypeInv, SaneOp, Op, Time
    <3>2. \A p \in issued' : Adds(p) /\ 0 < p.time /\ p.time <= now'
      BY <2>2, <2>3, <2>5, <3>1 DEF Issued
    <3>3. \A op1, op2 \in issued' : op1.time = op2.time => op1 = op2
      BY <2>2, <2>3, <2>5, <3>1 DEF Issued
    <3> QED BY <2>5, <3>2, <3>3 DEF Issued
  <2>8. ASSUME NEW r \in Server, NEW p \in issued, Pending(r, p) PROVE Pending(r, p)'
    BY <2>5, <2>8 DEF Pending
  <2>9. ASSUME NEW r \in Server, r # s PROVE Pending(r, op)'
    <3>1. new.op = op /\ new.at = s /\ new.left = Destinations(s) /\ new \in tasks'
      BY <2>5
    <3>2. r \in new.left \/ (Primary \in new.left /\ r # new.at)
      BY <2>9, <3>1 DEF Destinations, Secondary
    <3> QED BY <3>1, <3>2 DEF Pending
  <2>10. Reached'
    BY <2>5, <2>6, <2>8, <2>9 DEF Reached
  <2> QED BY <1>0, <1>1, <2>6, <2>7, <2>10 DEF ClientCommand
<1>2. ASSUME NEW task \in tasks, Forward(task) PROVE ConvergeInv'
  <2> DEFINE d == First(task.left)
             rest == [task EXCEPT !.left = task.left \ {d}]
             message == [op |-> task.op, left |-> Secondary \ {task.at}]
  <2>1. /\ task \in SaneTask /\ task.op \in SaneOp /\ task.op \in issued
        /\ Adds(task.op) /\ d \in Server /\ d \in task.left
    BY <1>2, FirstFacts DEF TypeInv, SaneTask, Forward, Issued
  <2>2. /\ store' = [store EXCEPT ![d] = Execute(store[d], task.op)]
        /\ tasks' = (tasks \ {task}) \cup {rest}
        /\ UNCHANGED <<phase, now, issued>>
    BY <1>2, <2>1 DEF Forward, Receive
  <2>3. queue' = IF d = Primary THEN Append(queue, message) ELSE queue
    <3>1. store[d] \in SaneStore /\ HasUser(store[d].table, Admin)
      BY <2>1 DEF TypeInv
    <3>2. Recorded(store[d].table, task.op)
      BY <2>1, <3>1, AddExecuted
    <3> QED BY <1>2, <2>1, <3>2 DEF Forward, Queued
  <2>4. queue \in Seq(SaneMessage) /\ message \in SaneMessage
    BY <2>1, ServerFacts DEF TypeInv, SaneMessage
  <2>5. /\ rest.op = task.op /\ rest.at = task.at /\ rest.left = task.left \ {d}
    BY <2>1 DEF SaneTask
  <2>6. message.op = task.op /\ message.left = Secondary \ {task.at}
    OBVIOUS
  <2> HIDE DEF d, rest, message
  <2>7. /\ \A i \in DOMAIN queue : i \in DOMAIN queue' /\ queue'[i] = queue[i]
        /\ \A i \in DOMAIN queue' : i \in DOMAIN queue \/ queue'[i] = message
        /\ d = Primary => \E i \in DOMAIN queue' : queue'[i] = message
    BY <2>3, <2>4
  <2>8. /\ \A r \in Server, p \in issued :
              Holds(store[r].table, p) => Holds(store'[r].table, p)
        /\ Holds(store'[d].table, task.op)
        /\ \A r \in Server : HasUser(store'[r].table, Admin)
        /\ Written'
    BY <2>1, <2>2, ExecuteConverge
  <2>9. Issued'
    BY <2>1, <2>2, <2>5, <2>6, <2>7 DEF Issued
  <2>10. ASSUME NEW r \in Server, NEW p \in issued, Pending(r, p)
         PROVE  Pending(r, p)' \/ Holds(store'[r].table, p)
    <3>1. CASE \E i \in DOMAIN queue : queue[i].op = p /\ r \in queue[i].left
      BY <2>7, <3>1 DEF Pending
    <3>2. CASE \E other \in tasks \ {task} :
                  other.op = p /\ (r \in other.left \/ (Primary \in other.left /\ r # other.at))
      BY <2>2, <3>2 DEF Pending
    <3>3. CASE task.op = p /\ (r \in task.left \/ (Primary \in task.left /\ r # task.at))
      <4>1. CASE r = d
        BY <2>8, <3>3, <4>1
      <4>2. CASE r # d /\ (r \in task.left \/ d # Primary)
        <5>1. r \in rest.left \/ (Primary \in rest.left /\ r # rest.at)
          BY <2>5, <3>3, <4>2
        <5> QED BY <2>2, <2>5, <3>3, <5>1 DEF Pending
      <4>3. CASE r # d /\ d = Primary /\ r # task.at
        <5>1. r \in message.left
          BY <2>6, <4>3 DEF Secondary
        <5> QED BY <2>6, <2>7, <3>3, <4>3, <5>1 DEF Pending
      <4> QED BY <3>3, <4>1, <4>2, <4>3
    <3> QED BY <2>10, <3>1, <3>2, <3>3 DEF Pending
  <2>11. Reached'
    BY <2>2, <2>8, <2>10 DEF Reached
  <2> QED BY <1>0, <2>2, <2>8, <2>9, <2>11
<1>3. ASSUME NEW task \in tasks, Return(task) PROVE ConvergeInv'
  <2>1. /\ tasks' = tasks \ {task} /\ task.left = {}
        /\ UNCHANGED <<store, phase, queue, now, issued>>
    BY <1>3 DEF Return
  <2>2. Issued' /\ Written'
    BY <2>1 DEF Issued, Written
  <2>3. Reached'
    BY <2>1 DEF Reached, Pending
  <2> QED BY <1>0, <2>1, <2>2, <2>3
<1>4. ASSUME QueueForward PROVE ConvergeInv'
  <2> DEFINE d == First(queue[1].left)
             op == queue[1].op
  <2>1. /\ Head(queue) = queue[1] /\ 1 \in DOMAIN queue /\ queue[1] \in SaneMessage
        /\ queue[1].left # {}
    BY <1>4 DEF QueueForward, TypeInv
  <2>2. op \in SaneOp /\ op \in issued /\ Adds(op) /\ d \in Server
    BY <2>1, FirstFacts DEF SaneMessage, Issued
  <2>3. /\ store' = [store EXCEPT ![d] = Execute(store[d], op)]
        /\ UNCHANGED <<phase, tasks, now, issued>>
        /\ queue' = [queue EXCEPT ![1].left = queue[1].left \ {d}]
    BY <1>4, <2>1, <2>2 DEF QueueForward, Receive
  <2> HIDE DEF d
  <2>4. /\ DOMAIN queue' = DOMAIN queue
        /\ \A i \in DOMAIN queue : queue'[i].op = queue[i].op
        /\ \A i \in DOMAIN queue : i # 1 => queue'[i] = queue[i]
        /\ queue'[1].left = queue[1].left \ {d}
    BY <2>1, <2>3 DEF TypeInv, SaneMessage
  <2>5. /\ \A r \in Server, p \in issued :
              Holds(store[r].table, p) => Holds(store'[r].table, p)
        /\ Holds(store'[d].table, op)
        /\ \A r \in Server : HasUser(store'[r].table, Admin)
        /\ Written'
    BY <2>2, <2>3, ExecuteConverge
  <2>6. Issued'
    BY <2>3, <2>4 DEF Issued
  <2>7. ASSUME NEW r \in Server, NEW p \in issued, Pending(r, p)
        PROVE  Pending(r, p)' \/ Holds(store'[r].table, p)
    <3>1. CASE r = d /\ p = op
      BY <2>5, <3>1
    <3>2. CASE r # d \/ p # op
      <4>1. \A i \in DOMAIN queue : queue[i].op = p /\ r \in queue[i].left =>
               queue'[i].op = p /\ r \in queue'[i].left
        BY <2>4, <3>2
      <4> QED BY <2>3, <2>4, <2>7, <4>1 DEF Pending
    <3> QED BY <3>1, <3>2
  <2>8. Reached'
    BY <2>3, <2>5, <2>7 DEF Reached
  <2> QED BY <1>0, <2>3, <2>5, <2>6, <2>8
<1>5. ASSUME QueueErase PROVE ConvergeInv'
  <2>1. /\ queue \in Seq(SaneMessage) /\ queue # <<>> /\ queue' = Tail(queue)
        /\ queue[1].left = {}
        /\ UNCHANGED <<store, phase, tasks, now, issued>>
    <3>1. queue \in Seq(SaneMessage) /\ queue # <<>> /\ queue' = Tail(queue)
      BY <1>5 DEF QueueErase, TypeInv
    <3>2. Head(queue) = queue[1] /\ Head(queue).left = {}
      BY <1>5, <3>1 DEF QueueErase
    <3>3. UNCHANGED <<store, phase, tasks, now, issued>>
      BY <1>5 DEF QueueErase
    <3> QED BY <3>1, <3>2, <3>3
  <2>2. /\ \A i \in DOMAIN queue' : i + 1 \in DOMAIN queue /\ queue'[i] = queue[i + 1]
        /\ \A i \in DOMAIN queue : i # 1 => i - 1 \in DOMAIN queue' /\ queue'[i - 1] = queue[i]
    <3>1. /\ Len(queue) \in Nat /\ DOMAIN queue = 1..Len(queue)
          /\ Len(queue') = Len(queue) - 1 /\ DOMAIN queue' = 1..(Len(queue) - 1)
      BY <2>1
    <3>2. \A i \in 1..(Len(queue) - 1) : queue'[i] = queue[i + 1]
      BY <2>1
    <3>3. ASSUME NEW i \in DOMAIN queue, i # 1
          PROVE  i - 1 \in DOMAIN queue' /\ queue'[i - 1] = queue[i]
      <4>1. i - 1 \in 1..(Len(queue) - 1) /\ (i - 1) + 1 = i
        BY <3>1, <3>3
      <4> QED BY <3>1, <3>2, <4>1
    <3> QED BY <3>1, <3>2, <3>3
  <2>3. Issued' /\ Written'
    BY <2>1, <2>2 DEF Issued, Written
  <2>4. ASSUME NEW r \in Server, NEW p \in issued, Pending(r, p) PROVE Pending(r, p)'
    <3>0. CASE \E task \in tasks :
                  task.op = p /\ (r \in task.left \/ (Primary \in task.left /\ r # task.at))
      BY <2>1, <3>0 DEF Pending
    <3>1. ASSUME NEW i \in DOMAIN queue, queue[i].op = p, r \in queue[i].left
          PROVE  Pending(r, p)'
      <4>1. i # 1
        BY <2>1, <3>1
      <4>2. i - 1 \in DOMAIN queue' /\ queue'[i - 1].op = p /\ r \in queue'[i - 1].left
        BY <2>2, <3>1, <4>1
      <4> QED BY <4>2 DEF Pending
    <3> QED BY <2>4, <3>0, <3>1 DEF Pending
  <2>5. Reached'
    BY <2>1, <2>4 DEF Reached
  <2> QED BY <1>0, <2>1, <2>3, <2>5
\* Nothing else happens while every server stays on.
<1>6. ASSUME NEW s \in Server, SwitchOff(s) \/ Restart(s) \/ Crash(s) \/ Recover(s)
      PROVE  FALSE
  BY <1>6 DEF AddsOnly, SwitchOff, Restart, Crash, Recover, Boot, ReplayRecord, Replaying,
              Booted, SyncRequest, Install, Synced
<1>7. CASE UNCHANGED vars
  <2>1. UNCHANGED <<store, phase, tasks, queue, now, issued>>
    BY <1>7 DEF vars
  <2>2. Issued' /\ Written'
    BY <2>1 DEF Issued, Written
  <2>3. Reached'
    BY <2>1 DEF Reached, Pending
  <2> QED BY <1>0, <2>1, <2>2, <2>3
<1> QED
  BY <1>1, <1>2, <1>3, <1>4, <1>5, <1>6, <1>7 DEF Next, Multicast, PrimaryQueue

(* Without outages, puts and mails from any number of clients of any number *)
(* of servers converge: whatever the order in which multicast_primitives    *)
(* and primaryq_func bring them, when nothing is on its way all replicas    *)
(* hold the same cells, mailboxes excepted.                                 *)
THEOREM PutsConverge ==
    ASSUME AddsOnly
    PROVE  Spec => []Converged
<1>1. Init => ConvergeInv
  BY InitConverge
<1>2. ConvergeInv /\ [Next]_vars => ConvergeInv'
  BY ConvergeStep
<1> QED BY <1>1, <1>2, SettledAgree, PTL DEF Spec

-----------------------------------------------------------------------------
(* Nothing is invented.                                                     *)

LEMMA AuthenticGrows ==
    ASSUME NEW tab, NEW ops, NEW more, ops \subseteq more, AuthenticTable(tab, ops)
    PROVE  AuthenticTable(tab, more)
<1>1. AuthenticCells(tab, more)
  BY DEF AuthenticTable, AuthenticCells
<1>2. AuthenticLists(tab, more)
  BY DEF AuthenticTable, AuthenticLists
<1> QED BY <1>1, <1>2 DEF AuthenticTable

LEMMA FilesGrow ==
    ASSUME NEW ckpt, NEW log, NEW ops, NEW more, ops \subseteq more,
           AuthenticFiles(ckpt, log, ops)
    PROVE  AuthenticFiles(ckpt, log, more)
BY AuthenticGrows DEF AuthenticFiles

LEMMA EmptyAuthentic == \A ops : AuthenticTable(EmptyTable, ops)
<1>1. \A ops : AuthenticCells(EmptyTable, ops)
  BY Places DEF AuthenticCells, EmptyTable
<1>2. ASSUME NEW u \in User PROVE Inbox(EmptyTable, u) = <<>>
  <2>1. <<u, MailboxCol>> \in Cell
    BY CellTypes DEF NamedCol
  <2>2. EmptyTable[<<u, MailboxCol>>] = NoEntry
    BY <2>1, Places DEF EmptyTable
  <2>3. Null \notin Seq(Time)
    BY KvAssumption DEF Time
  <2> QED BY <2>2, <2>3 DEF Inbox, NoEntry
<1> QED BY <1>1, <1>2 DEF AuthenticTable, AuthenticLists

\* What the first start or a command writes in a cell.
Gives(ops, c, entry) ==
    FreshStore.table[c] = entry \/ \E op \in ops : WrittenBy(op, c, entry)

LEMMA PutAuthentic ==
    ASSUME NEW tab \in Table, NEW ops, AuthenticCells(tab, ops), NEW c \in Cell,
           NEW v \in Value, NEW m \in Time, Gives(ops, c, [val |-> v, time |-> m])
    PROVE  Insert(tab, c, v, m) \in Table /\ AuthenticCells(Insert(tab, c, v, m), ops)
<1> DEFINE e == [val |-> v, time |-> m]
           new == Insert(tab, c, v, m)
<1>1. new \in Table
  BY PutFacts
<1>2. new[c] = tab[c] \/ new[c] = e
  BY InsertEntry
<1>3. \A d \in Cell \ {c} : new[d] = tab[d]
  BY PutCells
<1> HIDE DEF e, new
<1>4. FreshStore.table[c] = e \/ \E op \in ops : WrittenBy(op, c, e)
  BY DEF e, Gives
<1>5. ASSUME NEW d \in Cell
      PROVE  \/ new[d] \in {NoEntry, FreshStore.table[d]}
             \/ \E op \in ops : WrittenBy(op, d, new[d])
  <2>1. CASE new[d] = tab[d]
    BY <2>1 DEF AuthenticCells
  <2>2. CASE d = c /\ new[c] = e
    BY <1>4, <2>2
  <2> QED BY <1>2, <1>3, <2>1, <2>2
<1> QED BY <1>1, <1>5 DEF AuthenticCells, new

LEMMA EraseAuthentic ==
    ASSUME NEW tab \in Table, NEW ops, AuthenticCells(tab, ops), NEW c \in Cell, NEW m \in Time
    PROVE  Erase(tab, c, m) \in Table /\ AuthenticCells(Erase(tab, c, m), ops)
<1> DEFINE new == Erase(tab, c, m)
<1>1. new[c] = tab[c] \/ new[c] = NoEntry
  BY Places DEF Erase, Table
<1>2. new \in Table /\ \A d \in Cell \ {c} : new[d] = tab[d]
  BY EraseFacts
<1> HIDE DEF new
<1>3. \A d \in Cell : new[d] = tab[d] \/ new[d] = NoEntry
  BY <1>1, <1>2
<1>4. AuthenticCells(new, ops)
  BY <1>3 DEF AuthenticCells
<1> QED BY <1>2, <1>4 DEF new

LEMMA SignUpAuthentic ==
    ASSUME NEW tab \in Table, NEW ops, AuthenticCells(tab, ops), NEW u \in User,
           NEW pwd \in Value, NEW m \in Time,
           Gives(ops, <<u, PasswordCol>>, [val |-> pwd, time |-> m]),
           Gives(ops, <<u, CurDirCol>>, [val |-> Root, time |-> m]),
           Gives(ops, <<u, RootCol>>, [val |-> Root, time |-> m]),
           Gives(ops, <<u, MailboxCol>>, [val |-> <<>>, time |-> m])
    PROVE  AuthenticCells(SignUp(tab, u, pwd, m), ops)
<1> DEFINE p1 == Insert(tab, <<u, PasswordCol>>, pwd, m)
           p2 == Insert(p1, <<u, CurDirCol>>, Root, m)
           p3 == Insert(p2, <<u, RootCol>>, Root, m)
           p4 == Insert(p3, <<u, MailboxCol>>, <<>>, m)
<1>1. /\ <<u, PasswordCol>> \in Cell /\ <<u, CurDirCol>> \in Cell
      /\ <<u, RootCol>> \in Cell /\ <<u, MailboxCol>> \in Cell
  BY CellTypes DEF NamedCol
<1>2. Root \in Value /\ <<>> \in Value
  BY KvAssumption DEF Value
<1>3. p1 \in Table /\ AuthenticCells(p1, ops)
  BY <1>1, PutAuthentic
<1> HIDE DEF p1
<1>4. p2 \in Table /\ AuthenticCells(p2, ops)
  BY <1>1, <1>2, <1>3, PutAuthentic
<1> HIDE DEF p2
<1>5. p3 \in Table /\ AuthenticCells(p3, ops)
  BY <1>1, <1>2, <1>4, PutAuthentic
<1> HIDE DEF p3
<1>6. AuthenticCells(p4, ops)
  BY <1>1, <1>2, <1>5, PutAuthentic
<1>7. SignUp(tab, u, pwd, m) = p4
  BY DEF SignUp, p1, p2, p3
<1> QED BY <1>6, <1>7

\* A command that the table refused may have erased a mail, and no more.
LEMMA RefusedAuthentic ==
    ASSUME NEW tab \in Table, NEW ops, AuthenticCells(tab, ops), NEW op \in Op,
           ~Recorded(tab, op)
    PROVE  AuthenticCells(Effect(tab, op), ops)
<1>1. ~Succeeds(tab, op) /\ op.kind \notin {"put", "delete"}
  BY DEF Recorded
<1>2. CASE op.kind = "deleteemail"
  <2>1. <<op.user, MailCol(op.id)>> \in Cell /\ op.time \in Time
    BY CellTypes DEF Op
  <2>2. ~HasMail(tab, op.user, op.id)
    BY <1>1, <1>2 DEF Succeeds
  <2>3. Effect(tab, op) = Erase(tab, <<op.user, MailCol(op.id)>>, op.time)
    BY <1>2, <2>2 DEF Effect, DeleteMail
  <2> QED BY <2>1, <2>3, EraseAuthentic
<1>3. CASE op.kind # "deleteemail"
  <2>1. Effect(tab, op) = tab
    BY <1>1, <1>3, Zenon DEF Effect
  <2> QED BY <2>1
<1> QED BY <1>2, <1>3

LEMMA AdminAuthentic ==
    ASSUME NEW tab \in Table, NEW ops, AuthenticCells(tab, ops)
    PROVE  AuthenticCells(Effect(tab, AdminOp), ops)
<1>1. Admin \in User /\ Root \in Value /\ 0 \in Time
  BY KvAssumption, GroupAssumption DEF Value, Time
<1>2. AuthenticCells(SignUp(tab, Admin, Root, 0), ops)
  <2>1. /\ Gives(ops, <<Admin, PasswordCol>>, [val |-> Root, time |-> 0])
        /\ Gives(ops, <<Admin, CurDirCol>>, [val |-> Root, time |-> 0])
        /\ Gives(ops, <<Admin, RootCol>>, [val |-> Root, time |-> 0])
        /\ Gives(ops, <<Admin, MailboxCol>>, [val |-> <<>>, time |-> 0])
    BY FreshCells DEF Gives
  <2> QED BY <1>1, <2>1, SignUpAuthentic
<1>3. Effect(tab, AdminOp) \in {tab, SignUp(tab, Admin, Root, 0)}
  <2>1. /\ AdminOp.kind = "register" /\ AdminOp.user = Admin /\ AdminOp.val = Root
        /\ AdminOp.time = 0
    BY DEF AdminOp, RegisterOp, Command
  <2> QED BY <2>1, Zenon DEF Effect
<1> QED BY <1>2, <1>3

LEMMA EffectCellsAuthentic ==
    ASSUME NEW tab \in Table, NEW ops, AuthenticCells(tab, ops), NEW op \in Op,
           op \in ops \cup {AdminOp} \/ ~Recorded(tab, op)
    PROVE  AuthenticCells(Effect(tab, op), ops)
<1> DEFINE u == op.user
           m == op.time
           c == <<u, op.col>>
           box == <<u, MailboxCol>>
           E(v) == [val |-> v, time |-> m]
<1>0. /\ u \in User /\ m \in Time /\ c \in Cell /\ box \in Cell
      /\ op.val \in Value /\ Root \in Value /\ <<>> \in Value
      /\ op.id \in Time /\ op.kind \in Kind
  <2>1. u \in User /\ m \in Time /\ op.id \in Time /\ op.kind \in Kind /\ op.val \in Val
    BY DEF Op
  <2>2. c \in Cell
    BY DEF Op, Cell
  <2>3. box \in Cell
    BY <2>1, CellTypes DEF NamedCol
  <2>4. Root \in Val /\ <<>> \in Seq(Time)
    BY KvAssumption
  <2> QED BY <2>1, <2>2, <2>3, <2>4 DEF Value
<1>1. CASE ~Recorded(tab, op)
  BY <1>1, RefusedAuthentic
<1>2. CASE op = AdminOp
  BY <1>2, AdminAuthentic
<1> SUFFICES ASSUME op \in ops PROVE AuthenticCells(Effect(tab, op), ops)
  BY <1>1, <1>2
<1>3. CASE op.kind \in {"put", "cput"}
  <2>1. Gives(ops, c, E(op.val))
    BY <1>3 DEF Gives, WrittenBy
  <2>2. AuthenticCells(Insert(tab, c, op.val, m), ops)
    BY <1>0, <2>1, PutAuthentic
  <2>3. Effect(tab, op) \in {tab, Insert(tab, c, op.val, m)}
    BY <1>3, Zenon DEF Effect
  <2> QED BY <2>2, <2>3
<1>4. CASE op.kind = "delete"
  <2>1. Effect(tab, op) = Erase(tab, c, m)
    BY <1>4 DEF Effect
  <2> QED BY <1>0, <2>1, EraseAuthentic
<1>5. CASE op.kind = "register"
  <2>1. /\ Gives(ops, <<u, PasswordCol>>, E(op.val)) /\ Gives(ops, <<u, CurDirCol>>, E(Root))
        /\ Gives(ops, <<u, RootCol>>, E(Root)) /\ Gives(ops, box, E(<<>>))
    BY <1>5 DEF Gives, WrittenBy
  <2>2. AuthenticCells(SignUp(tab, u, op.val, m), ops)
    BY <1>0, <2>1, SignUpAuthentic
  <2>3. Effect(tab, op) \in {tab, SignUp(tab, u, op.val, m)}
    BY <1>5, Zenon DEF Effect
  <2> QED BY <2>2, <2>3
<1>6. CASE op.kind = "logout"
  <2> DEFINE erased == Erase(tab, <<u, SidCol>>, m)
  <2>1. <<u, SidCol>> \in Cell /\ <<u, CurDirCol>> \in Cell
    BY <1>0, CellTypes DEF NamedCol
  <2>2. erased \in Table /\ AuthenticCells(erased, ops)
    BY <1>0, <2>1, EraseAuthentic
  <2>3. Gives(ops, <<u, CurDirCol>>, E(Root))
    BY <1>6 DEF Gives, WrittenBy
  <2> HIDE DEF erased
  <2>4. AuthenticCells(Insert(erased, <<u, CurDirCol>>, Root, m), ops)
    BY <1>0, <2>1, <2>2, <2>3, PutAuthentic
  <2>5. LogOut(tab, u, m) = Insert(erased, <<u, CurDirCol>>, Root, m)
    BY DEF LogOut, erased
  <2>6. Effect(tab, op) \in {tab, LogOut(tab, u, m)}
    BY <1>6, Zenon DEF Effect
  <2> QED BY <2>4, <2>5, <2>6
<1>7. CASE op.kind = "putemail"
  <2> DEFINE body == Insert(tab, <<u, MailCol(m)>>, op.val, m)
             longer == Append(Inbox(tab, u), m)
  <2>1. <<u, MailCol(m)>> \in Cell
    BY <1>0, CellTypes
  <2>2. longer \in Value
    <3>1. Inbox(tab, u) \in Seq(Time)
      BY <1>0, InboxType
    <3>2. longer \in Seq(Time)
      BY <1>0, <3>1, AppendProperties
    <3> HIDE DEF longer
    <3> QED BY <3>2 DEF Value
  <2>3. Gives(ops, <<u, MailCol(m)>>, E(op.val)) /\ \A v : Gives(ops, box, E(v))
    BY <1>7 DEF Gives, WrittenBy
  <2>4. body \in Table /\ AuthenticCells(body, ops)
    BY <1>0, <2>1, <2>3, PutAuthentic
  <2> HIDE DEF body, longer
  <2>5. AuthenticCells(Insert(body, box, longer, m), ops)
    BY <1>0, <2>2, <2>3, <2>4, PutAuthentic
  <2>6. SendMail(tab, u, op.val, m) = Insert(body, box, longer, m)
    BY DEF SendMail, body, longer
  <2>7. Effect(tab, op) \in {tab, SendMail(tab, u, op.val, m)}
    BY <1>7, Zenon DEF Effect
  <2> QED BY <2>5, <2>6, <2>7
<1>8. CASE op.kind = "deleteemail"
  <2> DEFINE erased == Erase(tab, <<u, MailCol(op.id)>>, m)
             rest == Without(Inbox(tab, u), op.id)
  <2>1. <<u, MailCol(op.id)>> \in Cell
    BY <1>0, CellTypes
  <2>2. erased \in Table /\ AuthenticCells(erased, ops)
    BY <1>0, <2>1, EraseAuthentic
  <2>3. \A v : Gives(ops, box, E(v))
    BY <1>8 DEF Gives, WrittenBy
  <2> HIDE DEF erased
  <2>4. CASE ~HasMail(tab, u, op.id)
    BY <1>8, <2>2, <2>4 DEF Effect, DeleteMail, erased
  <2>5. CASE HasMail(tab, u, op.id)
    <3>1. rest \in Seq(Time)
      BY <1>0, <2>5, InboxType, WithoutType DEF HasMail
    <3>2. Effect(tab, op) = Insert(erased, box, rest, m)
      BY <1>8, <2>5 DEF Effect, DeleteMail, erased
    <3> HIDE DEF rest
    <3>3. rest \in Value
      BY <3>1 DEF Value
    <3> QED BY <1>0, <2>2, <2>3, <3>2, <3>3, PutAuthentic
  <2> QED BY <2>4, <2>5
<1>9. CASE op.kind = "none"
  BY <1>9 DEF Effect
<1> QED BY <1>0, <1>3, <1>4, <1>5, <1>6, <1>7, <1>8, <1>9 DEF Kind

LEMMA EffectListsAuthentic ==
    ASSUME NEW tab \in Table, NEW ops, AuthenticLists(tab, ops), NEW op \in Op, Harmless(op),
           op \in ops \cup {AdminOp} \/ ~Recorded(tab, op)
    PROVE  AuthenticLists(Effect(tab, op), ops)
<1> DEFINE Sent(w, id) == \E o \in ops : o.kind = "putemail" /\ o.user = w /\ o.time = id
<1> SUFFICES ASSUME NEW w \in User, NEW i \in DOMAIN Inbox(Effect(tab, op), w)
             PROVE  Sent(w, Inbox(Effect(tab, op), w)[i])
  BY DEF AuthenticLists
<1> DEFINE old == Inbox(tab, w)
           new == Inbox(Effect(tab, op), w)
<1>1. old \in Seq(Time) /\ op.id \in Time /\ op.time \in Time
  BY InboxType DEF Op
<1>2. \A k \in DOMAIN old : Sent(w, old[k])
  BY DEF AuthenticLists
<1>3. \/ new = old
      \/ new = <<>>
      \/ op.kind = "putemail" /\ w = op.user /\ new = Append(old, op.time)
      \/ HasMail(tab, w, op.id) /\ new = Without(old, op.id)
  BY EffectInbox
<1>4. HasMail(tab, w, op.id) => \E k \in DOMAIN old : old[k] = op.id
  BY DEF HasMail
<1>5. op.kind = "putemail" => op \in ops \/ new = old
  <2>1. AdminOp.kind = "register"
    BY DEF AdminOp, RegisterOp, Command
  <2>2. op.kind = "putemail" /\ ~Recorded(tab, op) => Effect(tab, op) = tab
    BY DEF Recorded, Effect
  <2> QED BY <2>1, <2>2
<1>6. i \in DOMAIN new
  OBVIOUS
<1> HIDE DEF old, new
<1> SUFFICES Sent(w, new[i])
  BY DEF new
<1>7. CASE new = old
  BY <1>2, <1>6, <1>7
<1>8. CASE new = <<>>
  BY <1>6, <1>8
<1>9. CASE op.kind = "putemail" /\ w = op.user /\ new = Append(old, op.time) /\ op \in ops
  <2>1. (i \in DOMAIN old /\ new[i] = old[i]) \/ new[i] = op.time
    BY <1>1, <1>6, <1>9
  <2> QED BY <1>2, <1>9, <2>1
<1>10. CASE HasMail(tab, w, op.id) /\ new = Without(old, op.id)
  <2>1. \E k \in DOMAIN old : new[i] = old[k]
    BY <1>1, <1>4, <1>6, <1>10, WithoutWithin
  <2> QED BY <1>2, <2>1
<1> QED BY <1>3, <1>5, <1>7, <1>8, <1>9, <1>10

LEMMA EffectAuthentic ==
    ASSUME NEW tab \in Table, NEW ops, AuthenticTable(tab, ops), NEW op \in Op, Harmless(op),
           op \in ops \cup {AdminOp} \/ ~Recorded(tab, op)
    PROVE  AuthenticTable(Effect(tab, op), ops) /\ AuthenticTable(ReplayEffect(tab, op), ops)
<1>1. AuthenticTable(Effect(tab, op), ops)
  BY EffectCellsAuthentic, EffectListsAuthentic DEF AuthenticTable
<1>2. ReplayEffect(tab, op) \in {tab, Effect(tab, op)}
  BY DEF ReplayEffect
<1> QED BY <1>1, <1>2

\* One server: its memory and its files.
AuthenticStore(st, ops) ==
    AuthenticTable(st.table, ops) /\ AuthenticFiles(st.ckpt, st.log, ops)

LEMMA AppendAuthentic ==
    ASSUME NEW log \in Seq(SaneOp), NEW op \in SaneOp, NEW ops,
           \A i \in DOMAIN log : log[i] \in ops \cup {AdminOp}, op \in ops \cup {AdminOp}
    PROVE  \A i \in DOMAIN Append(log, op) : Append(log, op)[i] \in ops \cup {AdminOp}
<1>1. /\ DOMAIN Append(log, op) = 1..(Len(log) + 1) /\ DOMAIN log = 1..Len(log)
      /\ Append(log, op)[Len(log) + 1] = op
      /\ \A i \in 1..Len(log) : Append(log, op)[i] = log[i]
  OBVIOUS
<1>2. \A i \in 1..(Len(log) + 1) : i \in 1..Len(log) \/ i = Len(log) + 1
  OBVIOUS
<1> QED BY <1>1, <1>2

LEMMA SavedAuthentic ==
    ASSUME NEW tab \in Table, NEW ops, AuthenticTable(tab, ops)
    PROVE  AuthenticTable(Saved(tab), ops)
<1>1. \A c \in Cell : Saved(tab)[c] = tab[c]
  BY SavedFacts
<1>2. \A u \in User : <<u, MailboxCol>> \in Cell
  BY CellTypes DEF NamedCol
<1>3. \A u \in User : Inbox(Saved(tab), u) = Inbox(tab, u)
  BY <1>1, <1>2 DEF Inbox
<1>4. AuthenticCells(Saved(tab), ops)
  BY <1>1 DEF AuthenticTable, AuthenticCells
<1>5. AuthenticLists(Saved(tab), ops)
  BY <1>3 DEF AuthenticTable, AuthenticLists
<1> QED BY <1>4, <1>5 DEF AuthenticTable

LEMMA ExecuteAuthentic ==
    ASSUME NEW st \in SaneStore, NEW ops \in SUBSET SaneOp, AuthenticStore(st, ops),
           NEW op \in SaneOp, Harmless(op),
           op \in ops \cup {AdminOp} \/ ~Recorded(st.table, op)
    PROVE  AuthenticStore(Execute(st, op), ops)
<1> DEFINE applied == [st EXCEPT !.table = Effect(st.table, op)]
<1>0. op \in Op
  BY DEF SaneOp
<1>1. /\ st.table \in Table /\ st.log \in Seq(SaneOp) /\ st.ckpt \in CheckpointFile
      /\ Effect(st.table, op) \in Table
  BY <1>0, EffectAsRecent DEF SaneStore, SaneOp
<1>2. AuthenticTable(Effect(st.table, op), ops)
  BY <1>0, <1>1, EffectAuthentic DEF AuthenticStore
<1>3. /\ applied \in SaneStore /\ applied.table = Effect(st.table, op)
      /\ applied.log = st.log /\ applied.ckpt = st.ckpt
  BY <1>1 DEF SaneStore
<1>4. AuthenticStore(applied, ops)
  BY <1>2, <1>3 DEF AuthenticStore
<1>5. Execute(st, op) = IF Recorded(st.table, op) THEN WriteLog(applied, op) ELSE applied
  BY DEF Execute
<1> HIDE DEF applied
<1>6. ASSUME Recorded(st.table, op) PROVE AuthenticStore(WriteLog(applied, op), ops)
  <2>1. CASE applied.count >= CheckpointInterval
    <3>1. /\ WriteLog(applied, op).table = applied.table
          /\ WriteLog(applied, op).log = <<>>
          /\ WriteLog(applied, op).ckpt.table = Saved(applied.table)
      BY <1>3, <2>1 DEF WriteLog, SaneStore
    <3>2. AuthenticTable(applied.table, ops) /\ applied.table \in Table
      BY <1>3, <1>4 DEF AuthenticStore, SaneStore
    <3>3. AuthenticTable(Saved(applied.table), ops)
      BY <3>2, SavedAuthentic
    <3> QED BY <1>4, <3>1, <3>3 DEF AuthenticStore, AuthenticFiles
  <2>2. CASE ~(applied.count >= CheckpointInterval)
    <3>1. /\ WriteLog(applied, op).table = applied.table
          /\ WriteLog(applied, op).log = Append(applied.log, op)
          /\ WriteLog(applied, op).ckpt = applied.ckpt
      BY <1>3, <2>2 DEF WriteLog, SaneStore
    <3>2. /\ applied.log \in Seq(SaneOp)
          /\ \A i \in DOMAIN applied.log : applied.log[i] \in ops \cup {AdminOp}
      BY <1>3, <1>4 DEF AuthenticStore, AuthenticFiles, SaneStore
    <3>3. \A i \in DOMAIN Append(applied.log, op) :
             Append(applied.log, op)[i] \in ops \cup {AdminOp}
      BY <1>6, <3>2, AppendAuthentic
    <3> QED BY <1>4, <3>1, <3>3 DEF AuthenticStore, AuthenticFiles
  <2> QED BY <2>1, <2>2
<1> QED BY <1>4, <1>5, <1>6

LEMMA EmptyAuthenticFiles ==
    ASSUME NEW ops
    PROVE  /\ AuthenticFiles(NoCheckpoint, <<>>, ops)
           /\ AuthenticFiles(NoReply.ckpt, NoReply.log, ops)
BY EmptyAuthentic DEF AuthenticFiles, NoCheckpoint, NoReply

LEMMA FreshAuthentic == AuthenticStore(FreshStore, {})
<1>1. AuthenticStore(EmptyStore, {})
  BY EmptyAuthentic, EmptyAuthenticFiles DEF AuthenticStore, EmptyStore
<1> QED BY <1>1, EmptyStoreType, AdminOpType, ExecuteAuthentic DEF FreshStore, Harmless

LEMMA RestartAuthentic ==
    ASSUME NEW st \in SaneStore, NEW ops, AuthenticStore(st, ops)
    PROVE  AuthenticStore(Killed(st), ops) /\ AuthenticStore(Reloaded(st), ops)
BY EmptyAuthentic DEF AuthenticStore, AuthenticFiles, Killed, Reloaded, SaneStore

LEMMA AnswerAuthentic ==
    ASSUME NEW p \in SaneStore, NEW st \in SaneStore, NEW ops, AuthenticStore(p, ops)
    PROVE  AuthenticFiles(Answer(p, st).ckpt, Answer(p, st).log, ops)
<1> DEFINE tail == SubSeq(p.log, st.count + 1, Len(p.log))
<1>1. CASE st.version < p.version
  BY <1>1 DEF Answer, AuthenticStore
<1>2. CASE ~(st.version < p.version)
  <2>1. /\ p.log \in Seq(SaneOp) /\ st.count \in Nat /\ Len(p.log) \in Nat
        /\ DOMAIN p.log = 1..Len(p.log)
    BY DEF SaneStore
  <2>2. /\ tail \in Seq(SaneOp)
        /\ Len(tail) = IF st.count + 1 <= Len(p.log)
                       THEN Len(p.log) - (st.count + 1) + 1 ELSE 0
        /\ \A k \in 1..(Len(p.log) - (st.count + 1) + 1) :
              tail[k] = p.log[(st.count + 1) + k - 1]
    BY <2>1, SubSeqProperties
  <2>3. DOMAIN tail = 1..Len(tail)
    <3> HIDE DEF tail
    <3> QED BY <2>2
  <2>4. \A a, n \in Nat : \A k \in 1..(n - (a + 1) + 1) : (a + 1) + k - 1 \in 1..n
    OBVIOUS
  <2>5. \A a, n \in Nat : ~(a + 1 <= n) => 1..0 = {}
    OBVIOUS
  <2> HIDE DEF tail
  <2>6. \A k \in DOMAIN tail : \E i \in DOMAIN p.log : tail[k] = p.log[i]
    <3>1. CASE st.count + 1 <= Len(p.log)
      <4>1. DOMAIN tail = 1..(Len(p.log) - (st.count + 1) + 1)
        BY <2>2, <2>3, <3>1
      <4> QED BY <2>1, <2>2, <2>4, <4>1
    <3>2. CASE ~(st.count + 1 <= Len(p.log))
      BY <2>2, <2>3, <3>2
    <3> QED BY <3>1, <3>2
  <2>7. Answer(p, st).ckpt = NoReply.ckpt /\ Answer(p, st).log = tail
    BY <1>2, NoReplyType DEF Answer, tail, SaneReply
  <2> QED BY <2>6, <2>7, EmptyAuthenticFiles DEF AuthenticStore, AuthenticFiles
<1> QED BY <1>1, <1>2

LEMMA InstallAuthentic ==
    ASSUME NEW st \in SaneStore, NEW r \in SaneReply, NEW ops, AuthenticStore(st, ops),
           AuthenticFiles(r.ckpt, r.log, ops)
    PROVE  /\ AuthenticStore([st EXCEPT !.ckpt = r.ckpt, !.table = r.ckpt.table,
                                        !.version = r.ckpt.version, !.log = r.log], ops)
           /\ AuthenticStore([st EXCEPT !.log = st.log \o r.log], ops)
<1>1. AuthenticStore([st EXCEPT !.ckpt = r.ckpt, !.table = r.ckpt.table,
                                !.version = r.ckpt.version, !.log = r.log], ops)
  BY DEF AuthenticStore, AuthenticFiles, SaneStore
<1> DEFINE both == st.log \o r.log
<1>2. \A i \in DOMAIN both : both[i] \in ops \cup {AdminOp}
  <2> DEFINE a == st.log
             b == r.log
  <2>1. /\ a \in Seq(SaneOp) /\ b \in Seq(SaneOp)
        /\ \A i \in DOMAIN a : a[i] \in ops \cup {AdminOp}
        /\ \A i \in DOMAIN b : b[i] \in ops \cup {AdminOp}
    BY DEF SaneStore, SaneReply, AuthenticStore, AuthenticFiles
  <2> HIDE DEF a, b
  <2>2. /\ a \o b \in Seq(SaneOp) /\ Len(a \o b) = Len(a) + Len(b)
        /\ \A i \in 1..(Len(a) + Len(b)) :
              (a \o b)[i] = IF i <= Len(a) THEN a[i] ELSE b[i - Len(a)]
    BY <2>1, ConcatProperties
  <2>3. /\ DOMAIN (a \o b) = 1..(Len(a) + Len(b)) /\ DOMAIN a = 1..Len(a)
        /\ DOMAIN b = 1..Len(b) /\ Len(a) \in Nat /\ Len(b) \in Nat
    BY <2>1, <2>2
  <2>4. \A m, n \in Nat : \A i \in 1..(m + n) : i \in 1..m \/ (~(i <= m) /\ i - m \in 1..n)
    OBVIOUS
  <2>5. \A i \in DOMAIN (a \o b) : (a \o b)[i] \in ops \cup {AdminOp}
    BY <2>1, <2>2, <2>3, <2>4
  <2> QED BY <2>5 DEF a, b
<1> HIDE DEF both
<1>3. /\ [st EXCEPT !.log = both].table = st.table /\ [st EXCEPT !.log = both].ckpt = st.ckpt
      /\ [st EXCEPT !.log = both].log = both
  BY DEF SaneStore
<1>4. AuthenticStore([st EXCEPT !.log = both], ops)
  BY <1>2, <1>3 DEF AuthenticStore, AuthenticFiles
<1> QED BY <1>1, <1>4 DEF both

LEMMA InitAuthentic == Init => AuthenticInv
<1> SUFFICES ASSUME Init PROVE AuthenticInv
  OBVIOUS
<1>1. \A s \in Server : AuthenticStore(store[s], issued)
  BY FreshAuthentic DEF Init
<1>2. \A s \in Server : AuthenticFiles(reply[s].ckpt, reply[s].log, issued)
  BY EmptyAuthenticFiles DEF Init
<1>3. issued = {} /\ tasks = {} /\ DOMAIN queue = {}
  BY DEF Init
<1> QED BY <1>1, <1>2, <1>3 DEF AuthenticInv, Authentic, AuthenticStore

LEMMA DieAuthentic ==
    ASSUME TypeInv, AuthenticInv, NEW s \in Server, Die(s), issued' = issued
    PROVE  AuthenticInv'
<1> USE DEF TypeInv, AuthenticInv
<1>1. AuthenticStore(store[s], issued)
  BY DEF Authentic, AuthenticStore
<1>2. /\ store' = [store EXCEPT ![s] = Killed(store[s])]
      /\ reply' = [reply EXCEPT ![s] = NoReply]
      /\ tasks' \subseteq tasks
      /\ queue' = queue \/ queue' = <<>>
  BY DEF Die
<1>3. AuthenticStore(Killed(store[s]), issued)
  BY <1>1, RestartAuthentic
<1>4. \A r \in Server : AuthenticStore(store'[r], issued)
  BY <1>2, <1>3 DEF Authentic, AuthenticStore
<1>5. \A r \in Server : AuthenticFiles(reply'[r].ckpt, reply'[r].log, issued)
  BY <1>2, EmptyAuthenticFiles
<1>6. \A i \in DOMAIN queue' : queue'[i].op \in issued
  BY <1>2
<1> QED BY <1>2, <1>4, <1>5, <1>6 DEF Authentic, AuthenticStore

LEMMA AuthenticStep ==
    ASSUME TypeInv, AuthenticInv, [Next]_vars
    PROVE  AuthenticInv'
<1> USE DEF TypeInv
<1>0. /\ \A s \in Server : AuthenticStore(store[s], issued) /\ store[s] \in SaneStore
      /\ \A s \in Server : /\ AuthenticFiles(reply[s].ckpt, reply[s].log, issued)
                           /\ reply[s] \in SaneReply
      /\ \A op \in issued \cup {AdminOp} : Harmless(op) /\ op \in SaneOp /\ op \in Op
      /\ issued \in SUBSET SaneOp
      /\ \A task \in tasks : task.op \in issued
      /\ \A i \in DOMAIN queue : queue[i].op \in issued
  BY AdminOpType DEF AuthenticInv, Authentic, AuthenticStore, SaneOp, Harmless
\* When only one server's store changes.
<1>a. ASSUME NEW s \in Server, NEW st, store' = [store EXCEPT ![s] = st],
             AuthenticStore(st, issued), UNCHANGED <<reply, issued>>,
             \A task \in tasks' : task.op \in issued,
             \A i \in DOMAIN queue' : queue'[i].op \in issued
      PROVE  AuthenticInv'
  <2>1. \A r \in Server : AuthenticStore(store'[r], issued)
    BY <1>0, <1>a
  <2> QED BY <1>0, <1>a, <2>1 DEF AuthenticInv, Authentic, AuthenticStore
<1>b. ASSUME UNCHANGED <<store, reply, issued>>,
             \A task \in tasks' : task.op \in issued,
             \A i \in DOMAIN queue' : queue'[i].op \in issued
      PROVE  AuthenticInv'
  BY <1>0, <1>b DEF AuthenticInv, Authentic, AuthenticStore
\* A server gets a forwarded command.
<1>c. ASSUME NEW d \in Server, NEW op \in issued, Receive(d, op), UNCHANGED <<reply, issued>>,
             \A task \in tasks' : task.op \in issued,
             \A i \in DOMAIN queue' : queue'[i].op \in issued
      PROVE  AuthenticInv'
  <2>1. CASE phase[d] = "on"
    <3>1. store' = [store EXCEPT ![d] = Execute(store[d], op)]
      BY <1>c, <2>1 DEF Receive
    <3>2. AuthenticStore(Execute(store[d], op), issued)
      BY <1>0, <1>c, ExecuteAuthentic
    <3> QED BY <1>a, <1>c, <3>1, <3>2
  <2>2. CASE phase[d] # "on"
    BY <1>b, <1>c, <2>2 DEF Receive
  <2> QED BY <2>1, <2>2
<1>1. ASSUME NEW s \in Server, ClientCommand(s) PROVE AuthenticInv'
  <2>1. now + 1 \in Time
    BY <1>1, KvAssumption DEF ClientCommand, Time
  <2>2. PICK op \in Requests(now + 1) :
            /\ store' = [store EXCEPT ![s] = Execute(store[s], op)]
            /\ IF Recorded(store[s].table, op)
               THEN /\ tasks' = tasks \cup {[op |-> op, at |-> s, left |-> Destinations(s)]}
                    /\ issued' = issued \cup {op}
               ELSE UNCHANGED <<tasks, issued>>
    BY <1>1 DEF ClientCommand
  <2>3. op \in SaneOp /\ Harmless(op)
    BY <2>1, RequestType, RequestHarmless DEF SaneOp
  <2>4. UNCHANGED <<reply, queue>>
    BY <1>1 DEF ClientCommand
  <2>5. CASE Recorded(store[s].table, op)
    <3> DEFINE new == [op |-> op, at |-> s, left |-> Destinations(s)]
    <3>1. tasks' = tasks \cup {new} /\ issued' = issued \cup {op} /\ new.op = op
      BY <2>2, <2>5
    <3>2. /\ issued \subseteq issued' /\ issued' \in SUBSET SaneOp /\ op \in issued'
          /\ \A o \in issued' : Harmless(o)
      BY <1>0, <2>3, <3>1
    <3>3. \A r \in Server : AuthenticStore(store[r], issued')
      BY <1>0, <3>2, AuthenticGrows, FilesGrow DEF AuthenticStore
    <3>4. AuthenticStore(Execute(store[s], op), issued')
      BY <1>0, <3>2, <3>3, ExecuteAuthentic
    <3>5. \A r \in Server : AuthenticStore(store'[r], issued')
      BY <2>2, <3>3, <3>4
    <3>6. \A r \in Server : AuthenticFiles(reply'[r].ckpt, reply'[r].log, issued')
      BY <1>0, <2>4, <3>2, FilesGrow
    <3>7. /\ \A task \in tasks' : task.op \in issued'
          /\ \A i \in DOMAIN queue' : queue'[i].op \in issued'
      BY <1>0, <2>4, <3>1
    <3> QED BY <3>2, <3>5, <3>6, <3>7 DEF AuthenticInv, Authentic, AuthenticStore
  <2>6. CASE ~Recorded(store[s].table, op)
    <3>1. AuthenticStore(Execute(store[s], op), issued)
      BY <1>0, <2>3, <2>6, ExecuteAuthentic
    <3>2. UNCHANGED <<tasks, issued>>
      BY <2>2, <2>6
    <3> QED BY <1>0, <1>a, <2>2, <2>4, <3>1, <3>2
  <2> QED BY <2>5, <2>6
<1>2. ASSUME NEW task \in tasks, Forward(task) PROVE AuthenticInv'
  <2> DEFINE d == First(task.left)
             rest == [task EXCEPT !.left = task.left \ {d}]
             message == [op |-> task.op, left |-> Secondary \ {task.at}]
  <2>1. task \in SaneTask /\ d \in Server /\ task.op \in issued
    BY <1>0, <1>2, FirstFacts DEF SaneTask, Forward
  <2>2. /\ Receive(d, task.op) /\ tasks' = (tasks \ {task}) \cup {rest}
        /\ UNCHANGED <<reply, issued>>
        /\ queue' = queue \/ queue' = Append(queue, message)
    BY <1>2 DEF Forward, Queued
  <2>3. rest.op = task.op /\ message.op = task.op /\ message \in SaneMessage
    BY <2>1, ServerFacts DEF SaneTask, SaneMessage
  <2> HIDE DEF d, rest, message
  <2>4. \A t \in tasks' : t.op \in issued
    BY <1>0, <2>1, <2>2, <2>3
  <2>5. \A i \in DOMAIN queue' : queue'[i].op \in issued
    <3>1. \A i \in DOMAIN Append(queue, message) :
             \/ i \in DOMAIN queue /\ Append(queue, message)[i] = queue[i]
             \/ Append(queue, message)[i] = message
      BY <2>3
    <3> QED BY <1>0, <2>1, <2>2, <2>3, <3>1
  <2> QED BY <1>c, <2>1, <2>2, <2>4, <2>5
<1>3. ASSUME NEW task \in tasks, Return(task) PROVE AuthenticInv'
  BY <1>0, <1>3, <1>b DEF Return
<1>4. ASSUME QueueForward PROVE AuthenticInv'
  <2> DEFINE d == First(queue[1].left)
  <2>1. /\ Head(queue) = queue[1] /\ 1 \in DOMAIN queue /\ queue[1] \in SaneMessage
        /\ queue[1].left # {}
    BY <1>4 DEF QueueForward
  <2>2. d \in Server /\ queue[1].op \in issued
    BY <1>0, <2>1, FirstFacts DEF SaneMessage
  <2>3. /\ Receive(d, queue[1].op) /\ UNCHANGED <<reply, issued, tasks>>
        /\ queue' = [queue EXCEPT ![1].left = queue[1].left \ {d}]
    BY <1>4, <2>1 DEF QueueForward
  <2> HIDE DEF d
  <2>4. \A i \in DOMAIN queue' : queue'[i].op \in issued
    BY <1>0, <2>1, <2>3 DEF SaneMessage
  <2> QED BY <1>0, <1>c, <2>2, <2>3, <2>4
<1>5. ASSUME QueueErase PROVE AuthenticInv'
  <2>1. UNCHANGED <<store, reply, issued, tasks>> /\ queue' = Tail(queue) /\ queue # <<>>
    BY <1>5 DEF QueueErase
  <2>2. \A i \in DOMAIN Tail(queue) :
           i + 1 \in DOMAIN queue /\ Tail(queue)[i] = queue[i + 1]
    BY <2>1
  <2> QED BY <1>0, <1>b, <2>1, <2>2
<1>6. ASSUME NEW s \in Server, SwitchOff(s) \/ Restart(s) \/ Synced(s) PROVE AuthenticInv'
  BY <1>0, <1>6, <1>b DEF SwitchOff, Restart, Synced
<1>7. ASSUME NEW s \in Server, Crash(s) PROVE AuthenticInv'
  BY <1>7, DieAuthentic DEF Crash
<1>8. ASSUME NEW s \in Server, Boot(s) PROVE AuthenticInv'
  <2>1. AuthenticStore(Reloaded(store[s]), issued)
    BY <1>0, RestartAuthentic
  <2>2. /\ store' = [store EXCEPT ![s] = Reloaded(store[s])]
        /\ UNCHANGED <<reply, issued, tasks, queue>>
    BY <1>8 DEF Boot
  <2> QED BY <1>0, <1>a, <2>1, <2>2
<1>9. ASSUME NEW s \in Server, ReplayRecord(s) PROVE AuthenticInv'
  <2> DEFINE op == store[s].log[cursor[s]]
             tab == ReplayEffect(store[s].table, op)
             new == [store[s] EXCEPT !.table = tab, !.count = store[s].count + 1]
  <2>1. store' = [store EXCEPT ![s] = new] /\ UNCHANGED <<reply, issued, tasks, queue>>
    BY <1>9 DEF ReplayRecord
  <2>2. cursor[s] \in DOMAIN store[s].log
    BY <1>0, <1>9 DEF ReplayRecord, SaneStore
  <2>3. op \in issued \cup {AdminOp}
    BY <1>0, <2>2 DEF AuthenticStore, AuthenticFiles
  <2>4. store[s].table \in Table /\ AuthenticTable(store[s].table, issued)
    BY <1>0 DEF SaneStore, AuthenticStore
  <2> HIDE DEF op
  <2>5. AuthenticTable(tab, issued)
    BY <1>0, <2>3, <2>4, EffectAuthentic
  <2> HIDE DEF tab
  <2>6. new.table = tab /\ new.ckpt = store[s].ckpt /\ new.log = store[s].log
    BY <1>0 DEF SaneStore
  <2>7. AuthenticStore(new, issued)
    BY <1>0, <2>5, <2>6 DEF AuthenticStore
  <2> HIDE DEF new
  <2> QED BY <1>0, <1>a, <2>1, <2>7
<1>10. ASSUME NEW s \in Server, Booted(s) PROVE AuthenticInv'
  <2>1. AuthenticStore(Execute(store[s], AdminOp), issued)
    BY <1>0, ExecuteAuthentic
  <2>2. PICK st : /\ st \in {store[s], Execute(store[s], AdminOp)}
                  /\ store' = [store EXCEPT ![s] = st]
    BY <1>10 DEF Booted
  <2>3. UNCHANGED <<reply, issued, tasks, queue>> /\ AuthenticStore(st, issued)
    BY <1>0, <1>10, <2>1, <2>2 DEF Booted
  <2> QED BY <1>0, <1>a, <2>2, <2>3
<1>11. ASSUME NEW s \in Server, SyncRequest(s) PROVE AuthenticInv'
  <2>1. CASE Die(s)
    BY <1>11, <2>1, DieAuthentic DEF SyncRequest
  <2>2. CASE UNCHANGED <<store, reply, tasks, queue>>
    BY <1>0, <1>11, <1>b, <2>2 DEF SyncRequest
  <2>3. CASE /\ reply' = [reply EXCEPT ![s] = Answer(store[Primary], store[s])]
             /\ UNCHANGED <<store, tasks, queue>>
    <3> DEFINE a == Answer(store[Primary], store[s])
    <3>1. AuthenticFiles(a.ckpt, a.log, issued)
      BY <1>0, ServerFacts, AnswerAuthentic
    <3> HIDE DEF a
    <3>2. reply' = [reply EXCEPT ![s] = a] /\ UNCHANGED <<store, tasks, queue, issued>>
      BY <1>11, <2>3 DEF a, SyncRequest
    <3>3. \A r \in Server : AuthenticFiles(reply'[r].ckpt, reply'[r].log, issued)
      BY <1>0, <3>1, <3>2
    <3> QED BY <1>0, <3>2, <3>3 DEF AuthenticInv, Authentic, AuthenticStore
  <2> QED BY <1>11, <2>1, <2>2, <2>3 DEF SyncRequest
<1>12. ASSUME NEW s \in Server, Install(s) PROVE AuthenticInv'
  <2> DEFINE r == reply[s]
             replaced == [store[s] EXCEPT !.ckpt = r.ckpt, !.table = r.ckpt.table,
                                          !.version = r.ckpt.version, !.log = r.log]
             extended == [store[s] EXCEPT !.log = store[s].log \o r.log]
  <2>1. AuthenticStore(replaced, issued) /\ AuthenticStore(extended, issued)
    <3>1. /\ r \in SaneReply /\ AuthenticFiles(r.ckpt, r.log, issued)
          /\ store[s] \in SaneStore /\ AuthenticStore(store[s], issued)
      BY <1>0
    <3> HIDE DEF r
    <3> QED BY <3>1, InstallAuthentic
  <2>2. /\ store' = [store EXCEPT ![s] = IF r.whole THEN replaced ELSE extended]
        /\ reply' = [reply EXCEPT ![s] = NoReply]
        /\ UNCHANGED <<issued, tasks, queue>>
    BY <1>12 DEF Install
  <2> HIDE DEF replaced, extended
  <2>3. \A q \in Server : AuthenticStore(store'[q], issued)
    BY <1>0, <2>1, <2>2
  <2>4. \A q \in Server : AuthenticFiles(reply'[q].ckpt, reply'[q].log, issued)
    BY <1>0, <2>2, EmptyAuthenticFiles
  <2> QED BY <1>0, <2>2, <2>3, <2>4 DEF AuthenticInv, Authentic, AuthenticStore
<1>13. CASE UNCHANGED vars
  BY <1>0, <1>13, <1>b DEF vars
<1> QED
  BY <1>1, <1>2, <1>3, <1>4, <1>5, <1>6, <1>7, <1>8, <1>9, <1>10, <1>11, <1>12, <1>13
     DEF Next, Multicast, PrimaryQueue, Recover

(* Whatever clients send, and through any crashes, switch-offs, replays and *)
(* synchronisations, no server ever holds in a cell anything that no        *)
(* acknowledged command wrote there, or lists in a mailbox a mail that was  *)
(* not sent to it.                                                          *)
THEOREM NothingIsInvented == Spec => []Authentic
<1>1. Init => TypeInv /\ AuthenticInv
  BY InitType, InitAuthentic
<1>2. TypeInv /\ AuthenticInv /\ [Next]_vars => (TypeInv /\ AuthenticInv)'
  BY TypeStep, AuthenticStep
<1>3. AuthenticInv => Authentic
  BY DEF AuthenticInv
<1> QED BY <1>1, <1>2, <1>3, PTL DEF Spec

-----------------------------------------------------------------------------
(* No mail is listed twice (groups in which every server stays on).         *)

NoOutages == MayCrash = {} /\ MaySwitchOff = {}

\* A list that is one entry longer.
LEMMA AppendEntries ==
    ASSUME NEW s \in Seq(Time), NEW m \in Time, NEW r \in Seq(Time),
           Len(r) = Len(s) + 1, r[Len(s) + 1] = m, \A i \in 1..Len(s) : r[i] = s[i]
    PROVE  /\ \A i \in DOMAIN r : (i \in DOMAIN s /\ r[i] = s[i]) \/ r[i] = m
           /\ Ext!IsInjective(s) /\ (\A i \in DOMAIN s : s[i] # m) => Ext!IsInjective(r)
<1> DEFINE n == Len(s)
<1>1. n \in Nat /\ DOMAIN s = 1..n
  OBVIOUS
<1>2. Len(r) = n + 1 /\ r[n + 1] = m /\ \A i \in 1..n : r[i] = s[i]
  OBVIOUS
<1> HIDE DEF n
<1>3. DOMAIN r = 1..(n + 1) /\ \A i \in 1..(n + 1) : i \in 1..n \/ i = n + 1
  BY <1>1, <1>2
<1>4. Ext!IsInjective(s) => \A i, j \in 1..n : s[i] = s[j] => i = j
  BY <1>1 DEF Ext!IsInjective
<1>5. Ext!IsInjective(s) /\ (\A i \in 1..n : s[i] # m)
         => \A i, j \in 1..(n + 1) : r[i] = r[j] => i = j
  BY <1>2, <1>3, <1>4
<1>6. Ext!IsInjective(s) /\ (\A i \in 1..n : s[i] # m) => Ext!IsInjective(r)
  BY <1>3, <1>5 DEF Ext!IsInjective
<1> QED BY <1>1, <1>2, <1>3, <1>6

\* A command lists no mail but its own, and that one once.
LEMMA EffectLists ==
    ASSUME NEW tab \in Table, NEW op \in Op, Harmless(op)
    PROVE  /\ \A m \in Time : Lists(Effect(tab, op), m) => Lists(tab, m) \/ m = op.time
           /\ (\A u \in User : Ext!IsInjective(Inbox(tab, u))) /\ ~Lists(tab, op.time)
                 => \A u \in User : Ext!IsInjective(Inbox(Effect(tab, op), u))
<1> DEFINE new == Effect(tab, op)
<1>0. op.time \in Time /\ op.id \in Time
  BY DEF Op
<1> SUFFICES ASSUME NEW u \in User
             PROVE  /\ \A m \in Time : HasMail(new, u, m) => HasMail(tab, u, m) \/ m = op.time
                    /\ Ext!IsInjective(Inbox(tab, u)) /\ ~HasMail(tab, u, op.time)
                          => Ext!IsInjective(Inbox(new, u))
  BY DEF Lists
<1> DEFINE s == Inbox(tab, u)
           r == Inbox(new, u)
<1>1. s \in Seq(Time)
  BY InboxType
<1>2. \/ r = s \/ r = <<>> \/ r = Append(s, op.time)
      \/ (\E i \in DOMAIN s : s[i] = op.id) /\ r = Without(s, op.id)
  BY EffectInbox DEF HasMail
<1> SUFFICES /\ \A m \in Time : (\E i \in DOMAIN r : r[i] = m)
                                   => (\E i \in DOMAIN s : s[i] = m) \/ m = op.time
             /\ Ext!IsInjective(s) /\ ~(\E i \in DOMAIN s : s[i] = op.time)
                   => Ext!IsInjective(r)
  BY DEF HasMail
<1> HIDE DEF s, r, new
<1>3. CASE r = s
  BY <1>3
<1>4. CASE r = <<>>
  <2>1. DOMAIN r = {}
    BY <1>4
  <2> QED BY <2>1 DEF Ext!IsInjective
<1>5. CASE r = Append(s, op.time)
  <2>1. /\ \A i \in DOMAIN r : (i \in DOMAIN s /\ r[i] = s[i]) \/ r[i] = op.time
        /\ Ext!IsInjective(s) /\ (\A i \in DOMAIN s : s[i] # op.time) => Ext!IsInjective(r)
    <3>1. /\ r \in Seq(Time) /\ Len(r) = Len(s) + 1 /\ r[Len(s) + 1] = op.time
          /\ \A i \in 1..Len(s) : r[i] = s[i]
      BY <1>0, <1>1, <1>5, AppendProperties
    <3> QED BY <1>0, <1>1, <3>1, AppendEntries
  <2> QED BY <2>1
<1>6. CASE (\E i \in DOMAIN s : s[i] = op.id) /\ r = Without(s, op.id)
  <2>1. \A k \in DOMAIN r : \E i \in DOMAIN s : s[i] = r[k]
    BY <1>0, <1>1, <1>6, WithoutInjective
  <2>2. Ext!IsInjective(s) => Ext!IsInjective(r)
    BY <1>0, <1>1, <1>6, WithoutInjective
  <2> QED BY <2>1, <2>2
<1> QED BY <1>2, <1>3, <1>4, <1>5, <1>6

\* One server executes a command whose mail it does not list yet.
LEMMA ExecuteOnce ==
    ASSUME TypeInv, OnceInv, NEW d \in Server, NEW op \in SaneOp, Harmless(op),
           store' = [store EXCEPT ![d] = Execute(store[d], op)], phase' = phase,
           ~Lists(store[d].table, op.time)
    PROVE  /\ MailOnce'
           /\ \A s \in Server, m \in Time :
                 Lists(store'[s].table, m)
                    => Lists(store[s].table, m) \/ (s = d /\ m = op.time)
<1>1. /\ store[d].table \in Table /\ op \in Op
      /\ Execute(store[d], op).table = Effect(store[d].table, op)
  BY ExecuteFacts DEF TypeInv, SaneStore, SaneOp
<1>2. /\ store'[d].table = Effect(store[d].table, op)
      /\ \A s \in Server \ {d} : store'[s] = store[s]
  BY <1>1 DEF TypeInv
<1>3. \A s \in Server, u \in User : Ext!IsInjective(Inbox(store[s].table, u))
  BY DEF OnceInv, MailOnce
<1>4. \A u \in User : Ext!IsInjective(Inbox(store'[d].table, u))
  BY <1>1, <1>2, <1>3, EffectLists
<1>5. \A m \in Time : Lists(store'[d].table, m) => Lists(store[d].table, m) \/ m = op.time
  BY <1>1, <1>2, EffectLists
<1> QED BY <1>2, <1>3, <1>4, <1>5 DEF MailOnce

LEMMA InitOnce == Init => OnceInv
<1> SUFFICES ASSUME Init PROVE OnceInv
  OBVIOUS
<1>1. \A s \in Server, u \in User : Inbox(store[s].table, u) = <<>>
  <2>1. /\ EmptyTable \in Table /\ AdminOp \in Op /\ Harmless(AdminOp)
        /\ FreshStore.table = Effect(EmptyTable, AdminOp) /\ AdminOp.kind = "register"
    BY EmptyTableType, EmptyStoreType, AdminOpType, ExecuteFacts
       DEF FreshStore, EmptyStore, Harmless, SaneOp
  <2>2. ASSUME NEW u \in User PROVE Inbox(EmptyTable, u) = <<>>
    <3>1. EmptyTable[<<u, MailboxCol>>].val = Null
      BY CellTypes, Places DEF EmptyTable, NoEntry, NamedCol
    <3> QED BY <3>1, KvAssumption DEF Inbox, Time
  <2>3. ASSUME NEW u \in User PROVE Inbox(FreshStore.table, u) = <<>>
    <3>1. \A id \in Time : ~HasMail(EmptyTable, u, id)
      BY <2>2 DEF HasMail
    <3>2. AdminOp.id \in Time /\ AdminOp.kind # "putemail"
      BY <2>1 DEF Op
    <3> QED BY <2>1, <2>2, <3>1, <3>2, EffectInbox
  <2> QED BY <2>3 DEF Init
<1>2. \A s \in Server, m \in Time : ~Lists(store[s].table, m)
  BY <1>1 DEF Lists, HasMail
<1>3. MailOnce
  BY <1>1 DEF MailOnce, Ext!IsInjective
<1>4. tasks = {} /\ DOMAIN queue = {} /\ \A s \in Server : phase[s] = "on"
  BY DEF Init
<1> QED BY <1>2, <1>3, <1>4 DEF OnceInv, OneMessage, OnItsWay, NotThereYet

\* What is on its way to whom, when tasks and queue lose entries or destinations.
Goes(task, s) == s \in task.left \/ (Primary \in task.left /\ s \notin {Primary, task.at})

LEMMA AwaitsIs ==
    \A m : \A s \in Server :
        Awaits(s, m) <=> \/ \E task \in tasks : task.op.time = m /\ Goes(task, s)
                         \/ \E i \in DOMAIN queue : queue[i].op.time = m /\ s \in queue[i].left
BY DEF Awaits, Goes

\* After server d executed a command, no mail is awaited that was not awaited
\* before, and d does not await the command's any more.
LEMMA NotThereStays ==
    ASSUME TypeInv, OnceInv, NEW d \in Server, NEW op \in SaneOp, Harmless(op),
           store' = [store EXCEPT ![d] = Execute(store[d], op)], phase' = phase, now' = now,
           Awaits(d, op.time), op.time <= now,
           \A s \in Server, m \in Time :
               Awaits(s, m)' => Awaits(s, m) /\ ~(s = d /\ m = op.time)
    PROVE  MailOnce' /\ NotThereYet'
<1>1. op.time \in Time /\ now \in Nat
  BY KvAssumption DEF SaneOp, Op, TypeInv, Time
<1>2. ~Lists(store[d].table, op.time)
  BY <1>1 DEF OnceInv, NotThereYet
<1>3. /\ MailOnce'
      /\ \A s \in Server, m \in Time :
            Lists(store'[s].table, m) => Lists(store[s].table, m) \/ (s = d /\ m = op.time)
  BY <1>2, ExecuteOnce
<1>4. ASSUME NEW s \in Server, NEW m \in Time, Awaits(s, m)' \/ m > now
      PROVE  ~Lists(store'[s].table, m)
  <2>1. ~(s = d /\ m = op.time)
    BY <1>1, <1>4 DEF Time
  <2>2. ~Lists(store[s].table, m)
    BY <1>4 DEF OnceInv, NotThereYet
  <2> QED BY <1>3, <2>1, <2>2
<1> QED BY <1>3, <1>4 DEF NotThereYet

LEMMA OnceClientCommand ==
    ASSUME TypeInv, TypeInv', OnceInv, NEW s \in Server, ClientCommand(s)
    PROVE  OnceInv'
<1> USE DEF TypeInv
<1>1. PICK op \in Requests(now + 1) :
          /\ store' = [store EXCEPT ![s] = Execute(store[s], op)]
          /\ IF Recorded(store[s].table, op)
             THEN /\ tasks' = tasks \cup {[op |-> op, at |-> s, left |-> Destinations(s)]}
                  /\ issued' = issued \cup {op}
             ELSE UNCHANGED <<tasks, issued>>
  BY DEF ClientCommand
<1>2. now + 1 \in Time /\ now' = now + 1 /\ now \in Nat /\ now \in Time
  BY KvAssumption DEF ClientCommand, Time
<1>3. op \in SaneOp /\ op.time = now + 1 /\ Harmless(op)
  BY <1>2, RequestType, RequestHarmless DEF SaneOp
<1>4. phase' = phase /\ queue' = queue
  BY DEF ClientCommand
<1> DEFINE new == [op |-> op, at |-> s, left |-> Destinations(s)]
<1>5. new.op = op /\ new.at = s /\ new.left = Destinations(s)
  OBVIOUS
<1>6. tasks' \subseteq tasks \cup {new}
  BY <1>1
<1> HIDE DEF new
<1>7. /\ \A task \in tasks : task.op.time <= now /\ task.op.time \in Nat
      /\ \A i \in DOMAIN queue : queue[i].op.time <= now /\ queue[i].op.time \in Nat
  <2>1. \A task \in tasks : task.op.time \in Nat
    BY DEF SaneTask, SaneOp, Op, Time
  <2>2. \A i \in DOMAIN queue : queue[i] \in SaneMessage
    OBVIOUS
  <2>3. \A i \in DOMAIN queue : queue[i].op.time \in Nat
    BY <2>2 DEF SaneMessage, SaneOp, Op, Time
  <2> QED BY <2>1, <2>3 DEF OnceInv, OnItsWay
<1>8. /\ MailOnce'
      /\ \A r \in Server, m \in Time :
            Lists(store'[r].table, m) => Lists(store[r].table, m) \/ (r = s /\ m = now + 1)
  <2>1. ~Lists(store[s].table, op.time)
    BY <1>2, <1>3 DEF OnceInv, NotThereYet
  <2> QED BY <1>1, <1>3, <1>4, <2>1, ExecuteOnce
<1>9. OneMessage'
  <2>0. /\ \A task \in tasks : task.op.time # now + 1
        /\ \A i \in DOMAIN queue : queue[i].op.time # now + 1
    BY <1>2, <1>7
  <2>1. ASSUME NEW t1 \in tasks', NEW t2 \in tasks', t1.op.time = t2.op.time PROVE t1 = t2
    BY <1>3, <1>5, <1>6, <2>0, <2>1 DEF OnceInv, OneMessage
  <2>2. ASSUME NEW task \in tasks', NEW i \in DOMAIN queue, queue[i].op.time = task.op.time
        PROVE  task.left = {} /\ task.at # Primary
    BY <1>3, <1>5, <1>6, <2>0, <2>2 DEF OnceInv, OneMessage
  <2> QED BY <1>4, <2>1, <2>2 DEF OnceInv, OneMessage
<1>10. OnItsWay'
  <2>1. ASSUME NEW task \in tasks'
        PROVE  /\ task.left \subseteq Destinations(task.at)
               /\ task.op.time <= now' /\ Harmless(task.op)
    BY <1>2, <1>3, <1>5, <1>6, <1>7 DEF OnceInv, OnItsWay
  <2>2. ASSUME NEW i \in DOMAIN queue PROVE queue[i].op.time <= now'
    BY <1>2, <1>7
  <2> QED BY <1>4, <2>1, <2>2 DEF OnceInv, OnItsWay
<1>11. ASSUME NEW r \in Server, NEW m \in Time, Awaits(r, m)' \/ m > now'
       PROVE  ~Lists(store'[r].table, m)
  <2>1. CASE m > now'
    <3>1. m > now /\ m # now + 1
      BY <1>2, <2>1 DEF Time
    <3> QED BY <1>8, <3>1 DEF OnceInv, NotThereYet
  <2>2. CASE Awaits(r, m)
    <3>1. m <= now
      BY <1>7, <2>2 DEF Awaits
    <3>2. m # now + 1
      BY <1>2, <3>1 DEF Time
    <3> QED BY <1>8, <2>2, <3>2 DEF OnceInv, NotThereYet
  <2>3. CASE m = now + 1 /\ Goes(new, r)
    <3>1. r # s
      BY <1>5, <2>3 DEF Goes, Destinations, Secondary
    <3>2. ~Lists(store[r].table, m)
      BY <1>2, <2>3 DEF OnceInv, NotThereYet
    <3> QED BY <1>8, <3>1, <3>2
  <2>4. Awaits(r, m)' => Awaits(r, m) \/ (m = now + 1 /\ Goes(new, r))
    BY <1>3, <1>4, <1>5, <1>6 DEF Awaits, Goes
  <2> QED BY <1>11, <2>1, <2>2, <2>3, <2>4
<1> QED BY <1>4, <1>8, <1>9, <1>10, <1>11 DEF OnceInv, NotThereYet

LEMMA OnceForward ==
    ASSUME TypeInv, OnceInv, NEW task \in tasks, Forward(task)
    PROVE  OnceInv'
<1> USE DEF TypeInv
<1> DEFINE d == First(task.left)
           op == task.op
           rest == [task EXCEPT !.left = task.left \ {d}]
           message == [op |-> task.op, left |-> Secondary \ {task.at}]
<1>1. /\ task \in SaneTask /\ op \in SaneOp /\ d \in Server /\ d \in task.left
      /\ task.at \in Server
  BY FirstFacts DEF SaneTask, Forward
<1>2. phase[d] = "on" /\ phase' = phase /\ now' = now
  BY <1>1 DEF OnceInv, Forward
<1>3. /\ store' = [store EXCEPT ![d] = Execute(store[d], op)]
      /\ tasks' = (tasks \ {task}) \cup {rest}
      /\ queue' = queue \/ (d = Primary /\ queue' = Append(queue, message))
  BY <1>2 DEF Forward, Receive, Queued
<1>4. rest.op = op /\ rest.at = task.at /\ rest.left = task.left \ {d}
  BY <1>1 DEF SaneTask
<1>5. message.op = op /\ message.left = Secondary \ {task.at} /\ message \in SaneMessage
  BY <1>1, ServerFacts DEF SaneMessage
<1>6. task.left \subseteq Destinations(task.at) /\ op.time <= now /\ Harmless(op)
  BY DEF OnceInv, OnItsWay
<1> HIDE DEF d, op, rest, message
<1>7. Primary \in task.left => task.left = {Primary} /\ d = Primary /\ task.at # Primary
  BY <1>1, <1>6 DEF Destinations, Secondary
<1>8. /\ \A i \in DOMAIN queue : i \in DOMAIN queue' /\ queue'[i] = queue[i]
      /\ \A i \in DOMAIN queue' : \/ i \in DOMAIN queue
                                  \/ d = Primary /\ queue'[i] = message /\ i = Len(queue) + 1
  BY <1>3, <1>5
\* No other message carries this command.
<1>9. /\ \A t \in tasks \ {task} : t.op.time # op.time
      /\ \A i \in DOMAIN queue : queue[i].op.time # op.time
  BY <1>1 DEF OnceInv, OneMessage, op
<1>10. OneMessage'
  <2>1. ASSUME NEW t1 \in tasks', NEW t2 \in tasks', t1.op.time = t2.op.time PROVE t1 = t2
    BY <1>3, <1>4, <1>9, <2>1 DEF OnceInv, OneMessage
  <2>2. ASSUME NEW i \in DOMAIN queue', NEW j \in DOMAIN queue',
               queue'[i].op.time = queue'[j].op.time
        PROVE  i = j
    BY <1>5, <1>8, <1>9, <2>2 DEF OnceInv, OneMessage
  <2>3. ASSUME NEW t \in tasks', NEW i \in DOMAIN queue', queue'[i].op.time = t.op.time
        PROVE  t.left = {} /\ t.at # Primary
    <3>1. CASE i \in DOMAIN queue
      <4>1. queue'[i] = queue[i] /\ t \in tasks
        BY <1>3, <1>4, <1>8, <1>9, <2>3, <3>1
      <4> QED BY <2>3, <3>1, <4>1 DEF OnceInv, OneMessage
    <3>2. CASE d = Primary /\ queue'[i] = message
      <4>1. t = rest
        BY <1>3, <1>5, <1>9, <2>3, <3>2
      <4> QED BY <1>1, <1>4, <1>7, <3>2, <4>1
    <3> QED BY <1>8, <3>1, <3>2
  <2> QED BY <2>1, <2>2, <2>3 DEF OneMessage
<1>11. OnItsWay'
  <2>1. ASSUME NEW t \in tasks'
        PROVE  t.left \subseteq Destinations(t.at) /\ t.op.time <= now' /\ Harmless(t.op)
    BY <1>2, <1>3, <1>4, <1>6 DEF OnceInv, OnItsWay
  <2>2. ASSUME NEW i \in DOMAIN queue'
        PROVE  /\ queue'[i].left \subseteq Secondary
               /\ queue'[i].op.time <= now' /\ Harmless(queue'[i].op)
    BY <1>2, <1>5, <1>6, <1>8 DEF OnceInv, OnItsWay
  <2> QED BY <2>1, <2>2 DEF OnItsWay
<1>12. ASSUME NEW r \in Server, NEW m \in Time, Awaits(r, m)'
       PROVE  Awaits(r, m) /\ ~(r = d /\ m = op.time)
  <2>1. CASE \E t \in tasks \ {task} : t.op.time = m /\ Goes(t, r)
    BY <1>9, <2>1 DEF Awaits, Goes
  <2>2. CASE \E i \in DOMAIN queue : queue[i].op.time = m /\ r \in queue[i].left
    BY <1>9, <2>2 DEF Awaits
  <2>3. CASE m = op.time /\ Goes(rest, r)
    <3>1. Goes(task, r) /\ r # d
      BY <1>1, <1>4, <1>7, <2>3 DEF Goes
    <3> QED BY <2>3, <3>1 DEF Awaits, Goes, op
  <2>4. CASE d = Primary /\ m = op.time /\ r \in message.left
    <3>1. Goes(task, r) /\ r # d
      BY <1>1, <1>5, <2>4 DEF Goes, Secondary
    <3> QED BY <2>4, <3>1 DEF Awaits, Goes, op
  <2>5. \/ \E t \in tasks' : t.op.time = m /\ Goes(t, r)
        \/ \E i \in DOMAIN queue' : queue'[i].op.time = m /\ r \in queue'[i].left
    BY <1>12 DEF Awaits, Goes
  <2> QED BY <1>3, <1>4, <1>5, <1>8, <2>1, <2>2, <2>3, <2>4, <2>5
<1>13. Awaits(d, op.time)
  BY <1>1 DEF Awaits, op
<1>14. MailOnce' /\ NotThereYet'
  BY <1>1, <1>2, <1>3, <1>6, <1>12, <1>13, NotThereStays
<1> QED BY <1>2, <1>10, <1>11, <1>14 DEF OnceInv

LEMMA OnceReturn ==
    ASSUME OnceInv, NEW task \in tasks, Return(task)
    PROVE  OnceInv'
<1>1. /\ tasks' = tasks \ {task}
      /\ UNCHANGED <<store, phase, queue, now>>
  BY DEF Return
<1>2. \A s \in Server, m \in Time : Awaits(s, m)' => Awaits(s, m)
  BY <1>1 DEF Awaits
<1>3. OneMessage' /\ OnItsWay' /\ MailOnce'
  BY <1>1 DEF OnceInv, OneMessage, OnItsWay, MailOnce
<1>4. NotThereYet'
  BY <1>1, <1>2 DEF OnceInv, NotThereYet
<1> QED BY <1>1, <1>3, <1>4 DEF OnceInv

LEMMA OnceQueueForward ==
    ASSUME TypeInv, OnceInv, QueueForward
    PROVE  OnceInv'
<1> USE DEF TypeInv
<1> DEFINE d == First(queue[1].left)
           op == queue[1].op
<1>1. /\ Head(queue) = queue[1] /\ 1 \in DOMAIN queue /\ queue[1] \in SaneMessage
      /\ queue[1].left # {}
  BY DEF QueueForward
<1>2. op \in SaneOp /\ d \in Server /\ d \in queue[1].left
  BY <1>1, FirstFacts DEF SaneMessage
<1>3. phase[d] = "on"
  BY <1>2 DEF OnceInv
<1>4. /\ store' = [store EXCEPT ![d] = Execute(store[d], op)]
      /\ queue' = [queue EXCEPT ![1].left = queue[1].left \ {d}]
      /\ UNCHANGED <<phase, tasks, now>>
  BY <1>1, <1>3 DEF QueueForward, Receive
<1>5. /\ DOMAIN queue' = DOMAIN queue
      /\ \A i \in DOMAIN queue : queue'[i].op = queue[i].op
      /\ \A i \in DOMAIN queue : queue'[i].left \subseteq queue[i].left
      /\ queue'[1].left = queue[1].left \ {d}
  <2> HIDE DEF d
  <2>1. queue'[1] = [queue[1] EXCEPT !.left = queue[1].left \ {d}]
    BY <1>1, <1>4
  <2>2. queue'[1].op = queue[1].op /\ queue'[1].left = queue[1].left \ {d}
    BY <1>1, <2>1 DEF SaneMessage
  <2>3. DOMAIN queue' = DOMAIN queue /\ \A i \in DOMAIN queue : i # 1 => queue'[i] = queue[i]
    BY <1>1, <1>4
  <2> QED BY <2>2, <2>3
<1>6. op.time <= now /\ Harmless(op)
  BY <1>1 DEF OnceInv, OnItsWay
<1>7. \A i \in DOMAIN queue : queue[i].op.time = op.time => i = 1
  BY <1>1 DEF OnceInv, OneMessage
<1>8. \A task \in tasks : task.op.time = op.time => task.left = {}
  BY <1>1 DEF OnceInv, OneMessage
<1>9. Awaits(d, op.time)
  BY <1>1, <1>2 DEF Awaits
<1> HIDE DEF d, op
<1>10. OneMessage' /\ OnItsWay'
  BY <1>4, <1>5 DEF OnceInv, OneMessage, OnItsWay
<1>11. ASSUME NEW s \in Server, NEW m \in Time, Awaits(s, m)'
       PROVE  Awaits(s, m) /\ ~(s = d /\ m = op.time)
  <2>1. CASE \E task \in tasks : task.op.time = m /\ Goes(task, s)
    BY <1>8, <2>1 DEF Awaits, Goes
  <2>2. CASE \E i \in DOMAIN queue : queue'[i].op.time = m /\ s \in queue'[i].left
    BY <1>5, <1>7, <2>2 DEF Awaits
  <2> QED BY <1>4, <1>5, <1>11, <2>1, <2>2 DEF Awaits, Goes
<1>12. MailOnce' /\ NotThereYet'
  BY <1>2, <1>4, <1>6, <1>9, <1>11, NotThereStays
<1> QED BY <1>4, <1>10, <1>12 DEF OnceInv

LEMMA OnceQueueErase ==
    ASSUME TypeInv, OnceInv, QueueErase
    PROVE  OnceInv'
<1>1. /\ UNCHANGED <<store, phase, tasks, now>> /\ queue' = Tail(queue)
      /\ queue \in Seq(SaneMessage) /\ queue # <<>>
  BY DEF QueueErase, TypeInv
<1>2. \A i \in DOMAIN queue' : i + 1 \in DOMAIN queue /\ queue'[i] = queue[i + 1] /\ i \in Int
  BY <1>1
<1>3. \A s \in Server, m \in Time : Awaits(s, m)' => Awaits(s, m)
  BY <1>1, <1>2 DEF Awaits
<1>4. OneMessage'
  <2>1. \A i, j \in DOMAIN queue' : queue'[i].op.time = queue'[j].op.time => i = j
    <3>1. \A i, j \in DOMAIN queue' :
             queue'[i].op.time = queue'[j].op.time => i + 1 = j + 1
      BY <1>2 DEF OnceInv, OneMessage
    <3> QED BY <1>2, <3>1
  <2> QED BY <1>1, <1>2, <2>1 DEF OnceInv, OneMessage
<1>5. OnItsWay' /\ MailOnce'
  BY <1>1, <1>2 DEF OnceInv, OnItsWay, MailOnce
<1>6. NotThereYet'
  BY <1>1, <1>3 DEF OnceInv, NotThereYet
<1> QED BY <1>1, <1>4, <1>5, <1>6 DEF OnceInv

LEMMA OnceStep ==
    ASSUME NoOutages, TypeInv, OnceInv, [Next]_vars
    PROVE  OnceInv'
<1>1. TypeInv'
  BY TypeStep
<1>2. ASSUME NEW s \in Server, ClientCommand(s) PROVE OnceInv'
  BY <1>1, <1>2, OnceClientCommand
<1>3. ASSUME Multicast PROVE OnceInv'
  BY <1>3, OnceForward, OnceReturn DEF Multicast
<1>4. ASSUME PrimaryQueue PROVE OnceInv'
  BY <1>4, OnceQueueForward, OnceQueueErase DEF PrimaryQueue
<1>5. ASSUME NEW s \in Server, SwitchOff(s) \/ Restart(s) \/ Crash(s) \/ Recover(s)
      PROVE  FALSE
  <2>1. phase[s] = "on" /\ s \notin MayCrash /\ s \notin MaySwitchOff
    BY DEF OnceInv, NoOutages
  <2> QED BY <1>5, <2>1 DEF SwitchOff, Restart, Crash, Recover, Boot, ReplayRecord, Replaying,
                            Booted, SyncRequest, Install, Synced
<1>6. CASE UNCHANGED vars
  BY <1>6 DEF vars, OnceInv, MailOnce, OneMessage, OnItsWay, NotThereYet, Awaits
<1> QED BY <1>2, <1>3, <1>4, <1>5, <1>6 DEF Next

(* MailOnce, for groups without outages: however the handlers of the        *)
(* servers and primaryq_func interleave, and with any mix of commands,      *)
(* forwarding delivers a mail to every mailbox at most once.                *)
THEOREM NoMailTwice ==
    ASSUME NoOutages
    PROVE  Spec => []MailOnce
<1>1. Init => TypeInv /\ OnceInv
  BY InitType, InitOnce
<1>2. TypeInv /\ OnceInv /\ [Next]_vars => (TypeInv /\ OnceInv)'
  BY TypeStep, OnceStep
<1>3. OnceInv => MailOnce
  BY DEF OnceInv
<1> QED BY <1>1, <1>2, <1>3, PTL DEF Spec

=============================================================================
