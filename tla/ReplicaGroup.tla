---------------------------- MODULE ReplicaGroup ----------------------------
(***************************************************************************)
(* A replication group: a primary and its secondaries, each with a table,  *)
(* a log file and a checkpoint file (src/backend/backend_server.cc:        *)
(* client_handler_backend_server, multicast_primitives, primaryq_func,     *)
(* sync_with_primary, handle_sync_request, run_backend_server).            *)
(*                                                                         *)
(* Every server accepts commands.  A server that recorded a client's       *)
(* command forwards it, with its timestamp: the primary to each secondary  *)
(* in turn, a secondary to the primary only.  The primary puts what it     *)
(* recorded for a secondary into primary_queue, from which one thread      *)
(* forwards it to the other secondaries.  Nothing is sent again: a message *)
(* to a server that is down or switched off is lost.  A secondary that     *)
(* starts, or is switched on again, asks the primary for its checkpoint or *)
(* for the end of its log.                                                 *)
(*                                                                         *)
(* A command and its write_log are one step here, and so is the start of a *)
(* process up to the end of replay_log's input; DurableStore is the same   *)
(* server with the threads inside these steps.                             *)
(***************************************************************************)
EXTENDS KvStore

CONSTANTS
    GroupSize,           \* num_server_in_group, 3 in the code
    Admin,               \* the row "admin@penncloud"
    CheckpointInterval,  \* CHECKPOINT_INTERVAL
    MayCrash,            \* the servers that may crash
    MaySwitchOff,        \* the servers that an administrator may switch off
    MaxOutages           \* bound on crashes and switch-offs

Server    == 1..GroupSize
Primary   == 1
Secondary == Server \ {Primary}

ASSUME GroupAssumption ==
    /\ GroupSize \in Nat \ {0}
    /\ Admin \in User
    /\ CheckpointInterval \in Nat \ {0}
    /\ MayCrash \subseteq Server
    /\ MaySwitchOff \subseteq Server
    /\ MaxOutages \in Nat

VARIABLES
    store,    \* per server: the KeyValueStore_obj and its files
    phase,    \* per server: what the process is doing
    cursor,   \* per server: the next record replay_log reads
    reply,    \* per server: the primary's answer to sync_request
    late,     \* switched-off servers that still serve old connections
    tasks,    \* handlers that are inside multicast_primitives
    queue,    \* primary_queue
    now,      \* the clock of the machine
    outages,
    issued    \* history: the commands clients had acknowledged

vars == <<store, phase, cursor, reply, late, tasks, queue, now, outages, issued>>

-----------------------------------------------------------------------------
(* One server's store.                                                      *)

NoCheckpoint == [version |-> 0, table |-> EmptyTable]
CheckpointFile == [version : Nat, table : Table]

Store == [table : Table, log : Seq(Op), count : Nat, version : Nat,
          ckpt : CheckpointFile]

(* write_log: the command that finds the log full is in the checkpoint.     *)
WriteLog(st, op) ==
    IF st.count >= CheckpointInterval
    THEN [st EXCEPT !.log = <<>>, !.count = 0, !.version = st.version + 1,
                    !.ckpt = [version |-> st.version + 1, table |-> Saved(st.table)]]
    ELSE [st EXCEPT !.log = Append(st.log, op), !.count = st.count + 1]

(* execute_command_in_buffer                                                *)
Execute(st, op) ==
    LET applied == [st EXCEPT !.table = Effect(st.table, op)]
    IN  IF Recorded(st.table, op) THEN WriteLog(applied, op) ELSE applied

AdminOp    == RegisterOp(Admin, Root, 0)
EmptyStore == [table |-> EmptyTable, log |-> <<>>, count |-> 0, version |-> 0,
               ckpt |-> NoCheckpoint]
FreshStore == Execute(EmptyStore, AdminOp)

(* What a crash leaves, and what the constructor reads first.               *)
Killed(st)   == [st EXCEPT !.table = EmptyTable, !.version = 0, !.count = 0]
Reloaded(st) == [st EXCEPT !.table = st.ckpt.table, !.version = st.ckpt.version]

-----------------------------------------------------------------------------
Phase == {"down", "booting", "starting", "on", "off", "restarting", "fetched",
          "replaying"}

NoReply == [whole |-> FALSE, ckpt |-> NoCheckpoint, log |-> <<>>]
Reply   == [whole : BOOLEAN, ckpt : CheckpointFile, log : Seq(Op)]

Task    == [op : Op, at : Server, left : SUBSET Server]
Message == [op : Op, left : SUBSET Server]

TypeOK ==
    /\ store \in [Server -> Store]
    /\ phase \in [Server -> Phase]
    /\ cursor \in [Server -> Nat \ {0}]
    /\ reply \in [Server -> Reply]
    /\ late \in SUBSET Server
    /\ tasks \in SUBSET Task
    /\ queue \in Seq(Message)
    /\ now \in Time
    /\ outages \in 0..MaxOutages
    /\ issued \in SUBSET Op

(* All servers were started for the first time and are idle.                *)
Init ==
    /\ store = [s \in Server |-> FreshStore]
    /\ phase = [s \in Server |-> "on"]
    /\ cursor = [s \in Server |-> 1]
    /\ reply = [s \in Server |-> NoReply]
    /\ late = {}
    /\ tasks = {}
    /\ queue = <<>>
    /\ now = 0
    /\ outages = 0
    /\ issued = {}

-----------------------------------------------------------------------------
(* Commands of clients.                                                     *)

(* A new connection is served when the server is on, an old one also later. *)
Serves(s) == phase[s] = "on" \/ s \in late

(* Mutation of Destinations: a secondary forwards to the other secondaries. *)
DestinationsSideways(s) == Secondary \ {s}

Destinations(s) == IF s = Primary THEN Secondary ELSE {Primary}

(* client_handler_backend_server: stamp, execute and answer; the handler is *)
(* then in multicast_primitives.                                            *)
ClientCommand(s) ==
    /\ Serves(s)
    /\ now < MaxTime
    /\ now' = now + 1
    /\ \E op \in Requests(now + 1) :
          /\ store' = [store EXCEPT ![s] = Execute(store[s], op)]
          /\ IF Recorded(store[s].table, op)
             THEN /\ tasks' = tasks \cup {[op |-> op, at |-> s, left |-> Destinations(s)]}
                  /\ issued' = issued \cup {op}
             ELSE UNCHANGED <<tasks, issued>>
    /\ UNCHANGED <<phase, cursor, reply, late, queue, outages>>

-----------------------------------------------------------------------------
(* Forwarding.                                                              *)

(* multicast_primitives goes through the servers in the order of their      *)
(* numbers.                                                                 *)
First(left) == CHOOSE d \in left : \A e \in left : d <= e

(* Server d gets a forwarded command on a new connection.                   *)
Receive(d, op) ==
    store' = IF phase[d] = "on"
             THEN [store EXCEPT ![d] = Execute(store[d], op)] ELSE store

(* Mutations of Queued: a secondary's commands go no further; they go back  *)
(* to the sender as well.                                                   *)
QueuedNever(d, op, sender) == queue

QueuedEcho(d, op, sender) ==
    IF d = Primary /\ phase[d] = "on" /\ Recorded(store[d].table, op)
    THEN Append(queue, [op |-> op, left |-> Secondary])
    ELSE queue

(* The primary queues what it recorded, for all but the sender.             *)
Queued(d, op, sender) ==
    IF d = Primary /\ phase[d] = "on" /\ Recorded(store[d].table, op)
    THEN Append(queue, [op |-> op, left |-> Secondary \ {sender}])
    ELSE queue

Forward(task) ==
    LET d == First(task.left)
    IN  /\ task.left # {}
        /\ Receive(d, task.op)
        /\ queue' = Queued(d, task.op, task.at)
        /\ tasks' = (tasks \ {task}) \cup {[task EXCEPT !.left = @ \ {d}]}
        /\ UNCHANGED <<phase, cursor, reply, late, now, outages, issued>>

(* The handler returns from multicast_primitives.                           *)
Return(task) ==
    /\ task.left = {}
    /\ tasks' = tasks \ {task}
    /\ UNCHANGED <<store, phase, cursor, reply, late, queue, now, outages, issued>>

Running == phase[Primary] \notin {"down", "booting", "starting"}

(* primaryq_func, at the front of the queue; it goes on while the server is *)
(* switched off.                                                            *)
QueueForward ==
    /\ Running
    /\ queue # <<>>
    /\ Head(queue).left # {}
    /\ LET d == First(Head(queue).left)
       IN  /\ Receive(d, Head(queue).op)
           /\ queue' = [queue EXCEPT ![1].left = @ \ {d}]
    /\ UNCHANGED <<phase, cursor, reply, late, tasks, now, outages, issued>>

(* Mutation of QueueErase: the front is forwarded and stays.                *)
QueueEraseNot ==
    /\ Running
    /\ queue # <<>>
    /\ Head(queue).left = {}
    /\ UNCHANGED vars

QueueErase ==
    /\ Running
    /\ queue # <<>>
    /\ Head(queue).left = {}
    /\ queue' = Tail(queue)
    /\ UNCHANGED <<store, phase, cursor, reply, late, tasks, now, outages, issued>>

-----------------------------------------------------------------------------
(* Outages.                                                                 *)

(* "switchoff": new connections are refused; a client may still have one.   *)
SwitchOff(s) ==
    /\ s \in MaySwitchOff
    /\ outages < MaxOutages
    /\ outages' = outages + 1
    /\ phase[s] = "on"
    /\ phase' = [phase EXCEPT ![s] = "off"]
    /\ \/ late' = late \cup {s}
       \/ UNCHANGED late
    /\ UNCHANGED <<store, cursor, reply, tasks, queue, now, issued>>

(* "restart": the primary is on at once, a secondary synchronises first.    *)
Restart(s) ==
    /\ phase[s] = "off"
    /\ IF s = Primary
       THEN /\ phase' = [phase EXCEPT ![s] = "on"]
            /\ late' = late \ {s}
       ELSE /\ phase' = [phase EXCEPT ![s] = "restarting"]
            /\ UNCHANGED late
    /\ UNCHANGED <<store, cursor, reply, tasks, queue, now, outages, issued>>

(* The process dies, with its threads and its queue.                        *)
Die(s) ==
    /\ store' = [store EXCEPT ![s] = Killed(@)]
    /\ phase' = [phase EXCEPT ![s] = "down"]
    /\ cursor' = [cursor EXCEPT ![s] = 1]
    /\ reply' = [reply EXCEPT ![s] = NoReply]
    /\ late' = late \ {s}
    /\ tasks' = {task \in tasks : task.at # s}
    /\ queue' = IF s = Primary THEN <<>> ELSE queue

Crash(s) ==
    /\ s \in MayCrash
    /\ outages < MaxOutages
    /\ outages' = outages + 1
    /\ phase[s] # "down"
    /\ Die(s)
    /\ UNCHANGED <<now, issued>>

(* The constructor: load_checkpoint, then replay_log.                       *)
Boot(s) ==
    /\ phase[s] = "down"
    /\ phase' = [phase EXCEPT ![s] = "booting"]
    /\ store' = [store EXCEPT ![s] = Reloaded(@)]
    /\ cursor' = [cursor EXCEPT ![s] = 1]
    /\ UNCHANGED <<reply, late, tasks, queue, now, outages, issued>>

Replaying(s) == phase[s] \in {"booting", "replaying"}

(* replay_log, one record; it never resets log_count.                       *)
ReplayRecord(s) ==
    /\ Replaying(s)
    /\ cursor[s] <= Len(store[s].log)
    /\ store' = [store EXCEPT
                    ![s].table = ReplayEffect(@, store[s].log[cursor[s]]),
                    ![s].count = @ + 1]
    /\ cursor' = [cursor EXCEPT ![s] = @ + 1]
    /\ UNCHANGED <<phase, reply, late, tasks, queue, now, outages, issued>>

(* The end of the constructor; the administrator is registered if missing.  *)
Booted(s) ==
    /\ phase[s] = "booting"
    /\ cursor[s] > Len(store[s].log)
    /\ store' = [store EXCEPT ![s] = IF HasUser(store[s].table, Admin) THEN @
                                     ELSE Execute(@, AdminOp)]
    /\ phase' = [phase EXCEPT ![s] = IF s = Primary THEN "on" ELSE "starting"]
    /\ UNCHANGED <<cursor, reply, late, tasks, queue, now, outages, issued>>

-----------------------------------------------------------------------------
(* Synchronisation of a secondary.                                          *)

(* handle_sync_request: everything to a server with an older checkpoint,    *)
(* else what is in the log beyond the requester's log_count; its own, which *)
(* bounds the loop, is the length of its log (CounterMatchesLog).           *)
Answer(p, st) ==
    IF st.version < p.version
    THEN [whole |-> TRUE, ckpt |-> p.ckpt, log |-> p.log]
    ELSE [NoReply EXCEPT !.log = SubSeq(p.log, st.count + 1, Len(p.log))]

(* sync_with_primary up to the answer.  No answer comes from a primary that *)
(* does not listen; the refusal of one that is switched off is read as the  *)
(* length of a checkpoint, which is too long for the stack.                 *)
SyncRequest(s) ==
    /\ phase[s] \in {"starting", "restarting"}
    /\ \/ /\ phase[Primary] = "on"
          /\ reply' = [reply EXCEPT ![s] = Answer(store[Primary], store[s])]
          /\ phase' = [phase EXCEPT ![s] = "fetched"]
          /\ UNCHANGED <<store, cursor, late, tasks, queue>>
       \/ /\ phase[Primary] \in {"down", "booting"}
          /\ phase' = [phase EXCEPT ![s] = "on"]
          /\ late' = late \ {s}
          /\ UNCHANGED <<store, cursor, reply, tasks, queue>>
       \/ /\ phase[Primary] = "off"
          /\ Die(s)
    /\ UNCHANGED <<now, outages, issued>>

(* The answer overwrites or extends the local files; then the whole local   *)
(* log is replayed.                                                         *)
Install(s) ==
    LET r == reply[s]
        replaced == [store[s] EXCEPT !.ckpt = r.ckpt, !.table = r.ckpt.table,
                                     !.version = r.ckpt.version, !.log = r.log]
        extended == [store[s] EXCEPT !.log = store[s].log \o r.log]
    IN  /\ phase[s] = "fetched"
        /\ store' = [store EXCEPT ![s] = IF r.whole THEN replaced ELSE extended]
        /\ phase' = [phase EXCEPT ![s] = IF r.whole \/ r.log # <<>>
                                         THEN "replaying" ELSE "on"]
        /\ late' = IF phase'[s] = "on" THEN late \ {s} ELSE late
        /\ cursor' = [cursor EXCEPT ![s] = 1]
        /\ reply' = [reply EXCEPT ![s] = NoReply]
        /\ UNCHANGED <<tasks, queue, now, outages, issued>>

Synced(s) ==
    /\ phase[s] = "replaying"
    /\ cursor[s] > Len(store[s].log)
    /\ phase' = [phase EXCEPT ![s] = "on"]
    /\ late' = late \ {s}
    /\ UNCHANGED <<store, cursor, reply, tasks, queue, now, outages, issued>>

-----------------------------------------------------------------------------
Multicast == \E task \in tasks : Forward(task) \/ Return(task)
PrimaryQueue == QueueForward \/ QueueErase
Recover(s) ==
    \/ Boot(s) \/ ReplayRecord(s) \/ Booted(s)
    \/ SyncRequest(s) \/ Install(s) \/ Synced(s)

Next ==
    \/ \E s \in Server : ClientCommand(s) \/ SwitchOff(s) \/ Restart(s) \/ Crash(s)
    \/ Multicast
    \/ PrimaryQueue
    \/ \E s \in Server : Recover(s)

Spec == Init /\ [][Next]_vars

FairSpec ==
    /\ Spec
    /\ WF_vars(Multicast)
    /\ WF_vars(PrimaryQueue)
    /\ \A s \in Server : WF_vars(Recover(s))
-----------------------------------------------------------------------------
(* Properties.                                                              *)

Settled == tasks = {} /\ queue = <<>> /\ \A s \in Server : phase[s] = "on"

(* When every server is on and nothing is on its way, all replicas hold the *)
(* same cells: forwarding in any order, and synchronisation, replicate the  *)
(* data (multicast_primitives, primaryq_func, sync_with_primary).  A        *)
(* mailbox is excepted: every server computes its own list.                 *)
Converged ==
    Settled => \A s, d \in Server, c \in Cell :
        c[2] # MailboxCol => store[s].table[c] = store[d].table[c]

(* A put that any server acknowledged is at the primary, or a handler is    *)
(* about to forward it there: a primary without outages never misses one,   *)
(* whatever secondaries are switched off and on again.                      *)
PrimaryHasAll ==
    \A op \in issued : Lasting(op) =>
        \/ Reflects(store[Primary].table, op)
        \/ \E task \in tasks : task.op = op /\ Primary \in task.left

(* What a replica holds was put there by a client: in memory, after a       *)
(* restart and after a synchronisation no cell has a value or a time that   *)
(* no acknowledged command gave it, and a mailbox lists only mails that     *)
(* were sent to it.                                                         *)
WrittenBy(op, c, entry) ==
    /\ c[1] = op.user /\ entry.time = op.time
    /\ \/ op.kind \in {"put", "cput"} /\ c[2] = op.col /\ entry.val = op.val
       \/ op.kind = "register" /\ c[2] = PasswordCol /\ entry.val = op.val
       \/ op.kind = "register" /\ c[2] \in {CurDirCol, RootCol} /\ entry.val = Root
       \/ op.kind = "register" /\ c[2] = MailboxCol /\ entry.val = <<>>
       \/ op.kind = "logout" /\ c[2] = CurDirCol /\ entry.val = Root
       \/ op.kind = "putemail" /\ c[2] = MailCol(op.time) /\ entry.val = op.val
       \/ op.kind \in {"putemail", "deleteemail"} /\ c[2] = MailboxCol

AuthenticCells(tab, ops) ==
    \A c \in Cell :
        tab[c] \in {NoEntry, FreshStore.table[c]} \/ \E op \in ops : WrittenBy(op, c, tab[c])

AuthenticLists(tab, ops) ==
    \A u \in User : \A i \in DOMAIN Inbox(tab, u) :
        \E op \in ops : op.kind = "putemail" /\ op.user = u /\ op.time = Inbox(tab, u)[i]

AuthenticTable(tab, ops) == AuthenticCells(tab, ops) /\ AuthenticLists(tab, ops)

Authentic == \A s \in Server : AuthenticTable(store[s].table, issued)

(* Its inductive strengthening: nothing else is in the files, in the answers *)
(* to sync_request and on its way either.                                   *)
AuthenticFiles(ckpt, log, ops) ==
    /\ AuthenticTable(ckpt.table, ops)
    /\ \A i \in DOMAIN log : log[i] \in ops \cup {AdminOp}

AuthenticInv ==
    /\ Authentic
    /\ \A op \in issued : Harmless(op)
    /\ \A s \in Server : AuthenticFiles(store[s].ckpt, store[s].log, issued)
    /\ \A s \in Server : AuthenticFiles(reply[s].ckpt, reply[s].log, issued)
    /\ \A task \in tasks : task.op \in issued
    /\ \A i \in DOMAIN queue : queue[i].op \in issued

(* While a server is on, what it answers for a cell never goes back to an   *)
(* older write, whatever arrives from clients and other servers, and late.  *)
NeverBack ==
    [][\A s \in Server, c \in Cell :
          phase[s] = "on" /\ phase'[s] = "on" /\ c[2] \notin Erasable =>
             store'[s].table[c].time >= store[s].table[c].time]_vars

(* No mailbox of a server that is on lists a mail twice: a forwarded        *)
(* command does not come back to the server that sent it, nor twice to any  *)
(* other.                                                                   *)
MailOnce ==
    \A s \in Server, u \in User :
        phase[s] = "on" => Ext!IsInjective(Inbox(store[s].table, u))

(* Its inductive strengthening, while every server stays on: a mail that is *)
(* still to come to a server is in none of its mailboxes, and comes once.   *)
Lists(tab, m) == \E u \in User : HasMail(tab, u, m)

Awaits(s, m) ==
    \/ \E task \in tasks :
          /\ task.op.time = m
          /\ s \in task.left \/ (Primary \in task.left /\ s \notin {Primary, task.at})
    \/ \E i \in DOMAIN queue : queue[i].op.time = m /\ s \in queue[i].left

(* A command has one handler, or its handler is done and it has one entry   *)
(* of the queue; it goes where its sender's commands go.                    *)
OneMessage ==
    /\ \A t1, t2 \in tasks : t1.op.time = t2.op.time => t1 = t2
    /\ \A i, j \in DOMAIN queue : queue[i].op.time = queue[j].op.time => i = j
    /\ \A task \in tasks, i \in DOMAIN queue :
          queue[i].op.time = task.op.time => task.left = {} /\ task.at # Primary

OnItsWay ==
    /\ \A task \in tasks : /\ task.left \subseteq Destinations(task.at)
                           /\ task.op.time <= now /\ Harmless(task.op)
    /\ \A i \in DOMAIN queue : /\ queue[i].left \subseteq Secondary
                               /\ queue[i].op.time <= now /\ Harmless(queue[i].op)

NotThereYet ==
    \A s \in Server, m \in Time : Awaits(s, m) \/ m > now => ~Lists(store[s].table, m)

OnceInv ==
    /\ \A s \in Server : phase[s] = "on"
    /\ MailOnce
    /\ OneMessage
    /\ OnItsWay
    /\ NotThereYet

(* Everything accepted is passed on: the handlers leave                     *)
(* multicast_primitives and primary_queue runs empty.                       *)
Drains == <>[](tasks = {} /\ queue = <<>>)
=============================================================================
