# PennCloud: TLA+ models, checks and proofs

PennCloud (`src/`) is a small web cloud: accounts, webmail and file storage in the
browser, a replicated key-value store behind it, and an SMTP server, a POP3 server and a
mail relay beside it. This directory holds TLA+ modules of its stateful parts, TLC
configurations for small instances, and theorems with proofs for TLAPS.

    tlc -workers 2 -config durable_puts.cfg MCDurableStore.tla     # a run
    tlapm MailSpoolProofs.tla                                      # a module of proofs

Contents: 1 the system, 2 the modules, 3 the runs, 4 the proofs, 5 where the code departs
from what one would expect, 6 what is not modelled, 7 the plan.


## 1. The system

### Components, their state and their operations

| component | code | state | operations |
|---|---|---|---|
| key-value table | `backend/kvs.cc`, `kvs.h` | `table[row][column]`, each column with a `_LAST_MODIFY` stamp | `kvs_put`, `kvs_cput`, `kvs_delete`, `kvs_sign_up`, `kvs_log_out`, mail and file commands; reads |
| log, checkpoint, recovery | `backend/kvs.cc` | log file, checkpoint file, `log_count`, `version_num`, `LOG_MUTEX` | `write_log`, `dump_checkpoint`, `load_checkpoint`, `replay_log` |
| backend server, replication group | `backend/backend_server.cc`, `backend_main.cc` | `switched_on`, `is_primary`, `primary_queue`, a store | client commands, forwarding, switchoff, restart, synchronisation |
| file tree of a user | `backend/kvs.cc` | a folder per cell (parent, entries), files, `CUR_DIR` | upload, mkdir, mv, rm, cd, rename, logout |
| backend master | `backend/backend_master.cc` | per connection a handler; `all_kvs_mapping` stays empty | getserver, heartbeat, quit |
| load balancer | `frontend/load_balancer.cc` | the globals `redirect_server_port`, `min_connections` | redirect, heartbeat |
| frontend server | `frontend/httpserver.cc`, `frontend_to_client.cc`, `utils.cc` | `switched_on`, `user_servers`, `persistent_connections`, one socket to the master; in the backend's cells the session of each user | login, register, pages, mails, files, logout, administration, switching |
| SMTP server | `email_service/smtp.cc` | per connection: state, text, recipients; mailbox files, flock, mutexes | HELO .. QUIT, delivery |
| POP3 server | `email_service/pop3.cc` | per connection: state, user, emails, marks; the same files | USER .. QUIT, rewriting of the maildrop |
| relay | `email_service/relay.cc` | the file `mqueue`, `emails`, `marked_deleted` | read, deliver, rewrite, once a second |
| common functions | `common/common_functions.cc` | none | stamps and their comparison, sockets, url coding, hash |
| user interface | `UI_interface/` | none | static pages |

### How they interact

A browser asks the load balancer, which asks every frontend for its number of connections
and redirects the browser to the one with the fewest. The frontend starts a thread per
connection. For each request the thread opens a connection to a backend server of the user:
the one in `user_servers`, or one that the master names. The master hashes the user's name
to a group, asks the servers of the group for their status and hashes again among those that
are on. All threads of a frontend use one connection to the master; the administrator's page
asks for its heartbeat on the same one. A frontend sends its backend server text commands;
files go base64-encoded, in chunks. The servers form groups
of three; the first of a group is its primary. A server executes a client's command,
appends it to its log (every so many records the log is replaced by a checkpoint of the
table) and forwards it with its timestamp: the primary to every secondary, a secondary to
the primary, whose thread `primaryq_func` passes it on. Forwarding is one attempt over a
new connection; a server that is down or switched off misses it and asks the primary for
checkpoint and log when it comes back (`sync_with_primary`). A mail to an outside address
is appended to `mqueue`, which the relay reads, delivers over SMTP and rewrites. The SMTP
and the POP3 server are separate processes on the same mailbox files, which they lock with
`flock` between processes and with mutexes between the threads of one.

### What is hard here, and what makes each part correct

- *Table.* Commands of several connections and several servers arrive in orders of their
  own; stamps decide. Correct: a cell never goes back to an older write.
- *Durability.* The table operation and `write_log` are two steps, a checkpoint is written
  over the old one, and a crash falls anywhere. Correct: what was acknowledged is there
  after a restart, a restart succeeds, the counter is the length of the log.
- *Replication.* Lost messages, switch-offs, synchronisation against a moving primary.
  Correct: replicas agree once nothing is on its way, the primary misses nothing, nothing
  is invented, forwarding ends.
- *Files.* A tree kept in cells that name each other, changed several cells at a time, with
  the current folder used as a working variable of `rm`, and rebuilt with new ids after a
  restart. Correct: it looks like a file system, also after a restart.
- *Routing.* Servers come and go while they are asked; threads share a socket and a map of
  servers without a lock. Correct: a user's commands always reach the group that has the
  user's rows, whatever is switched off, and neither the master nor the frontend dies of it.
- *Sessions.* The cell of the session is in the group of the user that the *cookie* names.
  Correct: who logged in last is let in, from any connection.
- *Balancing.* Scans of the frontends overlap and share their result. Correct: a browser is
  sent to a frontend that is said to be on, a scan alone finds the least loaded, nobody is
  sent round for ever.
- *Transfer.* Two readers with a variable that has no value, a search for an end line in the
  bytes of the file, sizes cut in two different ways. Correct: the bytes come back.
- *Mail servers.* Two processes, two kinds of lock, files that are truncated and written
  again. Correct: no session loses or doubles a mail, no lock is left behind.
- *Relay.* A file that is appended to while it is rewritten, vectors that outlive the round
  they belong to. Correct: a mail leaves the queue when it is delivered, and only then.

`PROJECT.json` lists the hazards one by one, each at its line, with the properties that
cover it.


## 2. The modules

| module | extends | models |
|---|---|---|
| `Cells` | | an entry of the table, `kvs_put`, `kvs_delete` |
| `KvStore` | `Cells` | the table, the commands on it and what `replay_log` makes of each, as operators |
| `DurableStore` | `KvStore` | one server: threads, `write_log` step by step, the two files, crash and recovery |
| `ReplicaGroup` | `KvStore` | a replication group: stores, forwarding, `primary_queue`, outages, synchronisation |
| `FileSystem` | | abstract: a tree of paths with a current folder |
| `FileTree` | `Cells` | the file commands on cells, the log, restarts |
| `FileTreeShown` | `FileTree` | what a user sees of the cells; implements `FileSystem` |
| `Maildrop` | | abstract: maildrops, sessions that exclude each other, mails on their way |
| `MailSpool` | | the SMTP and the POP3 server with files, flocks and mutexes; implements `Maildrop` |
| `Relay` | | `mqueue`, the backends that append to it, the relay's rounds and crashes |
| `Master` | | groups, the handler of a frontend's connection, servers that come and go |
| `Frontend` | `Master` | a frontend's threads, the shared connection, `user_servers`, accounts and sessions; composed with the master |
| `LoadBalancer` | | the balancer's scans access by access, the frontends' counters |
| `Transfer` | | a file from a form through base64 and chunks to every server of a group and back |
| `KvStoreProofs`, `DurableStoreProofs`, `ReplicaGroupProofs`, `MailSpoolProofs`, `RelayProofs`, `FrontendProofs`, `LoadBalancerProofs` | the module named | theorems |
| `FileProofs` | `FileTree`, `Transfer` | theorems |
| `MC...` | | values for TLC |

**Cells, KvStore.** A cell and its `_LAST_MODIFY` column are one entry `[val, time]`; a
missing cell has time 0, so `kvs_put`'s test is one comparison. Whether a row exists is an
entry of its own (`RowCol`): `kvs_put` makes the row (`Insert`), `kvs_delete` leaves it when
it erases the last column, so that `table.count(user)` (`HasUser`) goes on counting it until
a checkpoint is dumped and loaded (`Saved`). A mailbox is the list of its mails' ids.
`Effect(tab, op)` is the table operation of a command, `Succeeds` its result, `Recorded`
whether the handler goes on to `write_log` and the multicast, and `ReplayEffect` the branch
of `replay_log` (there is none for logout).

**DurableStore.** A worker thread goes idle -> stamped (`Request`) -> applied (`Apply`) ->
through `write_log` (`BeginAppend`, `EndAppend`, or `TruncateLog`, `OpenCheckpoint`,
`DumpVersion`, `DumpRow` per row, `CloseCheckpoint`) -> idle (`Finish`), which is when the
client is answered. The thread `Main` signs the administrator up before the server listens.
`logFile` may end in a torn record, the checkpoint file is none, empty, partial or whole;
`damaged` says that a crash has cut one of them, `dropped` that a dump met a row without
columns, and `Intact` that neither has happened. `Crash` takes memory and threads;
`LoadCheckpoint`, `ReplayRecord`, `SignUpAdmin`, `Listen` are the constructor and the start.
The process aborts where the code would (`stoul` of a cut record, a checkpoint that breaks
off).

**ReplicaGroup.** Each server has a store (table, log, counter, version, checkpoint) and a
phase. A handler that is in `multicast_primitives` is a task with the servers it has still
to reach; `primary_queue` is a sequence whose head is being forwarded while others are
pushed. Executing a command and its `write_log` is one step here (the steps are
`DurableStore`'s). `late` are the servers that are off and have a connection that was
opened while they were on, which goes on being served. `SyncRequest`, `Install`,
`ReplayRecord`, `Synced` are `sync_with_primary` and the handler of restart.

**FileTree, FileTreeShown.** A row's cells: folders `[parent, entries]`, files, `CUR_DIR`.
The commands are operators on the row; `NewId` stands for `get_timestamp` and gives equal
tables the same id (`Room`: there is a free one). `Removal` is `kvs_rm`, which calls itself
with `CUR_DIR` changed: a recursive function with `MaxId + 1` levels, as many as folders can
be below one another; where the code would call itself without end, `Endless` stops it. The
name `.` makes `kvs_rm` empty the current folder and answer +OK whatever was in it
(`kvs.cc:271-278`). Entries that are themselves called `.` or `..` are excluded
(`TreeAssumption`, section 5). `Request` gives a command its stamp, `Execute` applies it and
writes the log, `Restart` is a crash and a recovery. `Shown` and `AbsolutePath` in
`FileTreeShown` (what `kvs_ls`, `kvs_download` and `get_absolute_path` return) are the
refinement mapping to `FileSystem`; they are recursive operators and in a module of their
own, so that `FileTree` can be proved about.

**MailSpool.** A connection of the SMTP server is a record with the protocol state and the
place in the delivery loop (`flock`, `mutex`, `append`, `unlock` for each recipient); one of
the POP3 server has the place in PASS (`flock`, `trylock`, `load`) or QUIT (`quit`,
`write` mail by mail, `unlock`). Steps that wait for the client are separate from steps of
the server. Mail texts are sequences of the numbers of the mails whose lines they are.
The refinement mapping to `Maildrop`: a file that is being rewritten still stands for what
its session read, a session is open from the reading to the release of the flock, the
outbox of a connection is the recipients to go.

**Relay.** Mails are numbers in the order of saving. `Read`, one of `Accepted`,
`Unanswered`, `Failed` per mail, `Truncate`, `Write` make a round; `Save` happens at any
moment. `Block` ends the rounds of a relay that has used up its descriptors: every round
opens `mqueue` and none closes it (`relay.cc:291`), and then `select` waits for nothing
without a timeout. It may come in any round, since the limit of a process is its user's. What
the relay writes at offset 0 over mails that were appended after the
truncation destroys the first of them and as many more as it is long (`Overwritten`). The
ghost `exposed` has the mails for which the code gives no guarantee; the invariant `Kept`
is that only these can be lost.

**Master, Frontend.** `toMaster` and `fromMaster` are the two directions of the shared
connection, `master` the handler: `GetServer`, `Poll` server by server, `AnswerServer`, or
`DivideByZero` when nobody answered. A frontend thread goes through `Connect` (the cached
server), `Ask`, `Receive` (`SetBackendSocket`), `CheckSession` (`compareSessionId`) and the
handler of its request; between two of these steps everything else may happen. The answer a
thread receives is the next line, whoever asked for it. `req[b].name` is the user the server
was sought for, `req[b].row` the one whose cells the command is about: they differ for a
form that is sent with the cookie of somebody else, and for a mail until its handler seeks
the recipient's server. A session identifier is the browser that got it. A request to switch
a server is `SwitchSelf` for this frontend; for another server its effect is `Switch` (or
`SwitchFrontend`, when it arrives here) at any moment, and the thread that asked ends with
the administrator's page or with an error (`SwitchOther`). The administrator's page asks the
load balancer on a second shared socket (`AskBalancer`), then the master (`AskHeartbeat`),
and takes a field of both answers for every server (`ShowAdmin`); where a field is missing,
because one did not answer, the line was another's, or `substr` cut it (`MaxFields`), the
process may end.

No socket to a server is ever closed, neither by the master (`backend_master.cc:102`) nor by a
frontend (`utils.cc:245`, 302). So any `Poll` and any `Connect` may find no descriptor, which
is the answer of a server that is off; from then on `accept` may fail, too, which ends the
process (`AcceptEnds`, `AcceptExits`). When that begins depends on the limit of the process and
on what was closed meanwhile, so the models leave it open. `BreakPipe` is SIGPIPE: a write of a
handler whose server or browser has gone. The ghosts: `exhausted` and `starved` (the master, the
frontend was once without a descriptor), `cut` (a write had nobody at the other end),
`overlapped` (two exchanges on a shared socket were under way at once), `mixed` (a form with
another user's cookie), `steady` (servers that never changed), `last` (who logged in last);
`balancer` says that the socket to the balancer works.

**LoadBalancer.** Every access of `get_frontend_status` to the two globals is a step
(`Reset`, `Clear`, `Compare`, `SetPort`, `SetLeast`), and so is the question to a frontend
(`Ask`). A browser that was redirected visits the frontend (`Visit`), is sent back by one
that was switched off (`Return`) or meets an error (`Fail`). `counted` is the size of
`persistent_connections`: it grows with the first request of every connection, of a
redirected browser (`Arrive`, unless it has one open) or of one that comes by itself (`Open`),
falls when a request is not HTTP/1.1 (`Drop`), and keeps a browser that hangs up. A frontend
that dies between the connection and its answer makes `stoi` throw (`Die`): a browser's scan
ends without an answer, that of `heartbeat_func` ends the process (`End`). A question without a
descriptor reads as a frontend that is dead (`short` in `Ask`), and then `accept` may end the
process (`AcceptEnds`). Ghosts: the frontends `heard` of during a scan, whether a scan ran
`alone`, whether any two `crossed`, whether a descriptor was missing (`spent`), and per frontend
the connections that were opened without the balancer (`direct`) and counted down (`dropped`).

**Transfer.** The part of the form is read character by character; `prev` takes any value at
the start of a line (`Wild`), because the code gives it none. `encode` and `decode` are the
arithmetic of base64: the bytes of a group, or its digits, are one number (`Triple`, `Quad`)
of which each digit or byte is a quotient and a remainder. `UploadSizes` and `DownloadSizes`
are the two ways in which frontend and servers cut. A server passes the file on with what it
sends for a download (`Receivers`). An upload ends in `Store`, `Refuse`, or `Swallow`:
command and chunks are one stream of bytes, and the server's read of the command may take
the first bytes of a chunk with it. Between servers `Store` only: the sender waits a second
before each chunk (`backend_server.cc:413`, 450), and the model assumes that within this
second the command is read. `FILE_CHUNK_SIZE` is 8 here so that files of up to five bytes
have one chunk, exactly one, and more than one. Its specification is `TransferSpec` because
`FileProofs` extends `FileTree` as well.

Every module has one type invariant (`Transfer` none in its run: the types are part of the
inductive invariant in `FileProofs`). Definitions marked "Mutation of X" are variants of X
with a plausible bug; each property of a passing run is violated by one of them.


## 3. The runs

| run | instance | properties | shows |
|---|---|---|---|
| `durable_puts` | 2 threads, put and logout, 3 stamps, checkpoint after 2 records, 2 crashes | `Durable`, `DurableInv`, `StartsAgain`, `CounterMatchesLog`, `LogProgress`, `ComesUp` | no acknowledged put is lost unless a crash cuts a file; restarts succeed; `log_count` is right; nobody stays in `write_log` |
| `durable_exact` | 1 thread, 2 rows, every command that `replay_log` knows, 4 stamps, 2 crashes | `RecoveryExact`, `MailDurable` | the table after recovery is the table before the crash, and mails stay, unless an emptied row was dumped |
| `durable_dump` | as above, puts | `DurableAtAnyCrash` **violated** | the window between truncated log and finished checkpoint |
| `group_puts` | 3 servers, puts and mails, 3 stamps | `Converged`, `MailOnce` | every order of forwarding converges, except mailboxes; nothing is delivered twice |
| `group_outage` | 3 servers, secondaries switch off | `PrimaryHasAll`, `Drains` | the primary misses no put; forwarding ends |
| `group_outages` | 2 servers, both crash and switch off; every command | `Authentic`, `NeverBack` | no invented values, no answer goes back |
| `file_tree` | names a and b, a new user and one with `/a/b/a`, 4 commands, checkpoint after 2, 1 crash | `TreeInv`, `Tidy`, `ImplementsFileSystem` | the cells are a file system; a restart is invisible |
| `mail_spool` | 1 mailbox, 1 sender with up to 2 recipients, 2 readers, 2 crashes | `MutexFree`, `SessionView`, `SpoolInv`, `ImplementsMaildrop`, `Served` | the locking scheme works |
| `relay` | 4 mails, 2 crashes | `RelayInv`, `Kept`, `NotSentTwice`, `InOrder`, `Tried` | what can and what cannot happen to a queued mail |
| `frontend` | 2 browsers, 2 users in 2 groups of 2 servers, one of which comes and goes, 1 fault of any kind, 3 requests of 7 kinds | `FrontendInv`, `RightServer`, `AccountsAtHome`, `LastLoginHolds`, `MasterStays`, `FrontendStays`, `GetsServer` | users reach the group that has their rows, sessions hold, nobody dies but of the faults named, who looks for a server finds one |
| `balancer` | 2 browsers, 1 heartbeat, 2 frontends, 1 fault (one of them changes or dies, or a descriptor is missing), 3 requests, connections or drops | `LeastLoaded`, `HeardOf`, `EvenLoad`, `Answered` | what overlapping scans can and cannot spoil |
| `transfer` | all files of up to 5 bytes over CR, LF, dash and 255, 3 servers | `ComesBack`, `Completes` | every plain file comes back, every upload ends or is swallowed with its command |

**Bounds.** `MaxTime` counts the commands, `MaxCrashes` and `MaxOutages` the failures,
`CheckpointInterval` (2 for the code's larger constant) makes a checkpoint come after two
records, so that three commands exercise an append, a full log, a truncation and a dump.
Three stamps are enough for two commands that overtake each other and a third that meets the
result; a second crash is one during or after a recovery. Three servers are the smallest
group with a secondary that is neither sender nor primary (the code's groups have three).
`group_outages` has one row and two stamps; `Authentic` was also checked by hand with two
rows (2.6 million states) and with three stamps of mails, deletions and logouts (5.8
million). In `file_tree` the second starting point has two levels of folders, so that the
recursion of `rm` goes inside itself; four commands are a change of folder, two operations
and a look from elsewhere. In `mail_spool` the two entries of the recipients list may name
the same mailbox; a run with two mailboxes (302 000 states) was made by hand and passes. In
`relay` four mails are one delivered, one written back, one saved during the round and one
after it. In `frontend` the two users' hashes fall into different groups and the
administrator's is one of them; three requests are a registration, a request by another
browser in between and a login or page that meets the result. The one fault is a switch of a
server or of the frontend between any two steps, a call without a descriptor, a balancer
that does not answer or a write to somebody who left. The server that comes and goes is of
the second group, so that the second user's cached server, its choice or half of the group
can be off. In `balancer` three scans may overlap at any access, or two while a browser
connects by itself, and `MAX_CONNECTIONS` 3 is reached. In `transfer` five bytes hold a line
that looks like an end line, a CR and LF in every position, and encodings of 0 to 12
characters against chunks of 8. `CHECK_DEADLOCK FALSE` is set because the bounded clients
may stop asking.

**Fairness.** Weak fairness of the server's own threads, never of clients, crashes or
switch-offs: a thread that can take its next step is scheduled by the kernel.
`DurableStore`: `Apply`, the steps of `write_log`, and the start of a process that is down
(an operator's restart; `ComesUp` says no more than that the recovery ends). `ReplicaGroup`:
the handlers in `multicast_primitives`, `primaryq_func`, recovery. `MailSpool`: weak
fairness, and strong fairness for waiting on a lock that others take and release (the kernel
queues `flock` waiters), under which `Served` holds except behind a session whose client is
idle. `Relay`: the relay's round; each delivery ends because the peer answers or hangs up,
which is an assumption: the code sets no timeout. A relay that has died stays down and one
without descriptors stays blocked; `Tried` says so. `Frontend`: the threads and the master's
handler; `GetsServer` excepts a connection that is closed or was shared by two exchanges, a
frontend that has ended, and one that was without a descriptor (`starved`). `LoadBalancer`:
the browsers' threads and the browsers that follow a redirect. `Transfer`: every step.

**Violation.** `durable_dump` is listed under "findings" in `PROJECT.json` with the line of
the code that does it and the comment that says otherwise.


## 4. The proofs

All theorems hold for any number of threads, users, servers, mailboxes, connections,
commands and crashes, under the named assumptions of the modules (constants are naturals or
sets of the right kind, special values are not members of the sets they are kept apart from;
checkpoint intervals are positive).

- `KvStoreProofs`: what `Put`, `Erase` and each command do to types, stamps and mailboxes.
  The lemma that carries most of the rest is `EffectAsRecent`: no command gives a cell that
  no command may erase an older stamp, so a put once reflected stays reflected. The erasable
  cells are the sessions and the mails. `WithoutKeeps` and `EffectInbox` say what a command
  can do to a mail list: one mail more or one less, and no other changes.
- `DurableStoreProofs`: `DurableInvariant`, from which follow `TypeCorrect`,
  `AcknowledgedPutsAreDurable`, `RestartsSucceed` and `CounterIsRight`.
  `Durable` speaks of servers that are up; to be inductive it needs to know where an
  acknowledged put is in between. `DurableInv` is `TypeOK` and: who is inside `write_log`
  holds `LOG_MUTEX` (`ThreadInv`); a torn record is only at the end of the log and under
  somebody's hands (`LogInv`); what is acknowledged is in memory (`MemoryInv`), and on disk
  in the checkpoint or in the log except while a dump is under way, then in the rows dumped
  so far (`DiskInv`); during recovery it is in the table or in the rest of the log
  (`ReplayInv`); an unfinished checkpoint has a thread that is dumping or a crash behind it
  (`FileInv`); `log_count` is the number of records but for the one being appended, also
  record by record during a replay (`CounterInv`).
  On recovery: `ExactInvariant`, `RecoveryIsExact`, `MailsAreDurable`. `Rebuild(base,
  log)` is the table that a restart makes of checkpoint and log; `ExactInv` says that it is
  the table in memory but for a command that is not logged yet (`TableInv`), that a restart
  has replayed a prefix of it (`RecoveryInv`), and where acknowledged mails are (`MailInv`).
  A command that fails is not logged though it may have erased a mail's text
  (`kvs_delete_mail`): `Coherent` says why that changes nothing here. What the recursion of
  `Rebuild` does at one more record is proved from the least length at which it would fail.
  Hypotheses: one thread that serves (`OneThread`) and no `logout`. With two
  threads TLC refutes both properties: a command applied between the dump of its row
  and its own log record is in neither file or is replayed on top of itself, and of two
  mails stamped in one order and applied in the other the earlier is acknowledged and
  refused. A logout is logged and not replayed, so a restart is not exact; of `MailDurable`
  TLC finds no counterexample with logouts (3.4 million states), but the proof goes by the
  exact recovery. Both properties speak of `Intact` files: a dump that met an emptied row has
  lost the row (section 5). A row that exists is part of the table in `RecoveryExact`, so the
  commands' tests of `table.count(user)` come out the same in a replay.
- `ReplicaGroupProofs`: `TypeCorrect`; `AnswersNeverGoBack` from `EffectAsRecent` and the
  fact that a server that is on changes its table by `Execute` only;
  `PrimaryNeverMissesAPut` for a primary without outages.
  - `PutsConverge`, for servers that stay on, puts, and mails to one row: every server has,
    of each command it received, the cell or a later write of it (`Holds`); every command is
    at a server or in a task or the queue on its way there (`Reached`); every cell is as it
    was first or some command wrote it (`Written`); stamps differ (`Issued`). With mails to
    a second row TLC refutes it: a mail that overtakes the first cell of its receiver is
    refused by one server and stored by the others.
  - `NothingIsInvented`, for any commands and through any crashes, switch-offs and
    synchronisations: what holds of the tables must hold of every checkpoint, log, answer to
    `sync_request`, task and message (`AuthenticInv`), since a restart or an installation
    makes a table of them. `WrittenBy` says which cells each command writes, and with what;
    a list of mails is judged by its entries (`AuthenticLists`), as each server computes it.
    A command that the table refused is not among the acknowledged and may still have erased
    a mail (`RefusedAuthentic`).
  - `NoMailTwice`, for servers that stay on and any commands: a mail that is still to come
    to a server is in none of its lists (`NotThereYet`), and it comes once: a command has
    one task, or one entry of the queue after its task is done (`OneMessage`), and goes to
    nobody else (`OnItsWay`). With an outage TLC refutes it (section 5).
- `MailSpoolProofs`: `SpoolInvariant` by one step per action; `TypeCorrect`,
  `NoTrylockFails` and `SessionsSeeTheFile` follow. `SpoolImplementsMaildrop` proves
  `Spec => ImplementsMaildrop`: initial states map to initial states, and with `SpoolInv`
  every step maps to the step of `Maildrop` of the same name or to a stutter. The lemmas on
  `absDrop`, `absSession` and `absOutbox` say which part of the mapping an action leaves
  alone; the flock makes the `CHOOSE` in `absDrop` unique.

- `FrontendProofs`: `FrontendInvariant`, from which follow `ThreadsReachTheirGroup`,
  `AccountsStayAtHome`, `LastLoginsHold`, `MasterNeverDivides` and `FrontendNeverCrashes`.
  `RightServer` is about what a thread has received; to be inductive it needs to know where
  the thread's request is. `ChannelInv`: as long as exchanges did not overlap there is at
  most one, and it is in exactly one of three places, in the queue of requests
  (`Requested`), in the hands of the handler (`Handled`) or in the queue of answers
  (`Replied`), with nothing but farewells behind it; `PollInv`: the handler's list has
  servers of the asked group only and, as long as the master always had a descriptor, all of
  those asked that never changed. The lemmas on
  groups (`Pick` stays in a group, groups are disjoint) are arithmetic for any group size.
  `RequestInv` ties the row of a form to the user whose server was sought, `AccountsAtHome`
  and `LastLoginHolds` follow with `RightServer`; it also says that only without the balancer
  a page is without its answer. The conditions of `MasterNeverDivides` (`exhausted`) and
  `FrontendNeverCrashes` (`starved`, `balancer`, `cut`, fewer than `MaxFields` servers,
  `Regular`) are the ways in which the code does end these processes, all of them steps of the
  model (section 5); the theorems say that there is no other. `ThreadsReachTheirGroup`,
  `AccountsStayAtHome` and `LastLoginsHold` have none of these conditions but `Regular`.
- `FileProofs`, the tree: `TreeInvariant`, `FilesStayTidy`, `RestartRebuilds`. `Tidy` says
  that every cell is listed once and hangs from the root; what the commands preserve is
  `Tree`, in parts that each command disturbs one or two of: the root is there (`Rooted`),
  an entry names a cell of its kind, a folder's parent lists it (`Linked`), nothing is
  listed twice (`NoDoubles`), nothing that exists is unlisted (`NoOrphans`), and no set of
  folders is closed under parents (`Acyclic`). `TreeInv` adds the types, among which that no
  stamp is in the future (so that `kvs_put` refuses none of a command's own writes), that a
  command that waits has the latest stamp and does not move a folder into itself (`Asked`),
  and that checkpoint and log give the table (`Recoverable`), without which a restart could
  make any.
  - `kvs_rm` is an induction on the number of folders below the one it is called for: what
    is left is the tree without the cells `Below` the entry (`Removed`). Its loop has an
    invariant of its own, that the entries removed so far are gone with all below them, and
    that the folder is current again after each call.
  - `kvs_mv` keeps `Acyclic` because the folder it moves is not on the way of the target to
    the root (`OnWay`), which is the condition that `IntoItself` states.
  - Recursive functions are related to their equations by one lemma (`RunExists`), and
    inductions are written as least counterexamples.
  - Hypotheses (`OneAtATime`): one connection; no folder is moved into itself; nobody logs
    out whose server is started again. Section 5 has what the code does without each of
    them.
- `FileProofs`, the contents: `TransferInvariant`, `FilesComeBack`, `DecodeEncode`. `LineInv`
  locates the reader: what it has not read is the rest of what was sent, its line the last
  of what it has read. `PlainInv` says where it is in a plain file: before it, within it
  with the lines so far as content, beyond it with all of them, or waiting for ever; that no
  line of a plain file begins with a line feed is what keeps the variable without a value
  from being looked at. `CopyInv`: every copy, on its way or stored, is the encoding of what
  was read, and its chunks add up to its length (for both ways of cutting, any chunk size).
  `DecodeEncode` is about strings of bytes of any length; groups are independent of each
  other, so it needs no induction. The theorem is for files, groups and chunks of any size,
  and any boundary. `TransferInv` was checked by TLC for boundaries with 0, 1, 2, 3, 5 and 8
  dashes and chunks of 3 and 8 before it was proved.
- `RelayProofs`: `RelayInvariant`, `TypeCorrect`, `MailsAreKept`, `NothingIsSentTwice`,
  `MailsStayInOrder`. What was read is still the file, with what was saved since behind it,
  until the truncation (`ReadInv`); a mail that the relay knows to be delivered is marked
  and not tried again (`ConfirmedInv`); what may be lost is among the `exposed`
  (`ExposedInv`).
- `LoadBalancerProofs`: `BalancerInvariant`, `OnlyHeardOf`, `AloneGetsLeast`,
  `LoadStaysEven`. The invariant has three parts that are proved one after the other.
  `HeardInv`: whatever stands in `redirect_server_port` was heard of during every scan that
  has passed its own reset, which holds for any overlap because a scan begins with what the
  others have heard of. `AloneInv`: a scan that runs alone has in the globals the fewest of
  the answers so far (`FewestBefore`), with one clause per place between two accesses.
  `EvenPart`: the load of a frontend is what it counts and the browsers on their way to it;
  the answers of a scan that goes on alone bound the loads of the frontends it has asked
  (`BoundInv`), so that the frontend it picks is not ahead of the others by more than the
  number of browsers. Connections that were opened without the balancer (`direct`) and those
  counted down (`dropped`) are on the other side of each of these inequalities: they may
  grow while a scan is under way, which only makes the bounds weaker, never wrong (`Eased`).
  `LoadStaysEven` is about what the balancer adds; it holds as long as no frontend reads as
  dead for want of a descriptor (`spent`).

**Only model-checked:**

- All liveness (`LogProgress`, `ComesUp`, `Drains`, `Served`, `Tried`, `GetsServer`,
  `Answered`, `Completes`), which is beyond the prover.
- `ImplementsFileSystem`: the paths of the refinement mapping are recursive operators, for
  which the prover has no backend. What it rests on, that the cells are a tree, is proved.
- `DurableAtAnyCrash`, which is violated.


## 5. Where the code departs from what one would expect

With a violating run: `durable_dump` above. Without one; where a bound or a condition is
named, the counterexample appears without it:

- A put forwarded while a secondary is between the primary's answer and `switched_on = true`
  is refused and never sent again (`backend_server.cc:1100`; `Converged` with 2 servers, one
  outage), although line 50 says that the data are synchronised with the primary. The answer
  is the primary's log beyond the requester's count of its own log (`backend_server.cc:195`),
  and the two logs hold different commands.
- The second mail of an SMTP connection carries the text of the first one in it and goes to
  its recipients, too: only RSET empties `mail_data` and `recipients_list` (`smtp.cc:241`).
- Logout is logged, and `replay_log` has no branch for it (`kvs.cc:560-619`): after a restart
  the session and the current folder are back (`RecoveryExact` with `logout` in `Kinds`;
  `ImplementsFileSystem` likewise).
- After a synchronisation the whole local log is replayed onto a table that has it already
  (`backend_server.cc:130`), and a mail is listed twice (`MailOnce` with an outage).
- A row that `kvs_delete` emptied counts as a user until a checkpoint drops it
  (`kvs.cc:86-100`, 531-541, 638-659): put a session, delete it, a checkpoint, a mail that is
  acknowledged, a crash; the checkpoint makes no row, and the replay refuses the mail
  (`RecoveryExact`, `MailDurable` without `dropped`; the row must not have been registered).
- With two threads a mail may be acknowledged and refused by its stamp (`MailDurable` with
  two workers): `kvs_send_mail` ignores the result of `kvs_put`. Mailboxes of replicas
  differ (`Converged` without its exception).
- `kvs_delete` leaves no tombstone, so a logout and a put of the session that arrive in
  different orders leave replicas different (`Converged` with `logout`).
- A mail to an outside address is queued and usually answered -ERR, because `kvs_send_mail`
  finds no such user (`backend_server.cc:583-595`).
- A folder can be moved below itself; the answer is +OK and it is gone from every listing
  (`Tidy` with `moveinto` in `Kinds`). Moving a name that does not exist to the current
  folder answers +OK.
- Two connections of one user whose stamps and executions are in different orders
  (`Connection = {c1, c2}`): `mkdir` and `upload` answer +OK and are not listed, `mv` lists
  twice, `rm` leaves an entry without a cell, and `rm` of a folder under a newer `CUR_DIR`
  calls itself without end (`Endless`).
- The frontend passes on any name. A file or folder called `.` makes a later `kvs_rm` that
  meets it call itself without end: the loop of `kvs_rm(".")` comes to the entry and calls
  `kvs_rm(".")` for the same folder (`kvs.cc:271-275`); a folder called `..` cannot be
  entered (`kvs.cc:314`). `TreeAssumption` keeps both out of `Name`.
- SMTP: a line of text that begins like a command is answered and dropped
  (`smtp.cc:105-183`); a recipient whose file cannot be opened gets 554 and then 250
  (`smtp.cc:197-242`).
- POP3: a line of text that begins with "From " splits the mail (`pop3.cc:191`).
- Relay: a mail saved during a round is lost at the truncation or overwritten; a mail at a
  position marked in the round before is dropped even if it fails now (`relay.cc:314`); a
  crash while writing costs what was not written; the "From " lines are indexed from the
  first round of the process on and go with the wrong mails; sending on a refused
  connection kills the process (`relay.cc:235-241`). `Kept` allows these ways and no others.
- Relay: `mqueue` is opened in every round and never closed (`relay.cc:291`), nor is the
  socket of a mail (line 215). With the usual limit of 1024 descriptors `open` answers -1
  after some 17 minutes; `FD_SET` of that is not defined and `select` (line 295), which has
  no timeout, waits for ever. A mail in the queue is not tried any more (`Tried` without
  `"blocked"`).
- Master: a group without a server that is on makes it divide by zero (`backend_master.cc:237`);
  it dies, and with it the search for servers (`MasterStays` without its condition). A client
  that hangs up leaves its handler reading 0 bytes for ever (line 190).
- Master: `get_backend_socks` never closes the sockets on which it asks (`backend_master.cc:102`;
  `get_backend_status` does). After some 340 `getserver` requests to groups of three no server
  can be asked, and line 237 divides by zero with every server on (`MasterStays` without
  `exhausted`); `accept` fails then, too, and the process ends (line 430).
- Frontend: every request leaves its sockets to backend servers open (`utils.cc:245`, 302;
  `httpserver.cc:364`, 483). After some 300 of them `socket` fails, and the loop at
  `utils.cc:311`, which asks for another server until one answers, goes round for ever with
  all servers on (`GetsServer` without `starved`); the next `accept` that fails ends the
  frontend (`httpserver.cc:711-714`).
- Frontend: no handler for SIGPIPE is set. A server that goes during an upload
  (`frontend_to_client.cc:679`, `do_write` in `common_functions.cc:384`) or a browser that
  hangs up during a download (`httpserver.cc:434-438`) or after an unknown command (line
  628) ends the process. A server that goes during a download, after the sizes, leaves the
  thread in `do_read`, which does not end on 0 bytes (`common_functions.cc:354-366`).
- Frontend: the administrator's page first asks the load balancer, on a second socket that
  all threads share without a lock (`frontend_to_client.cc:1137`), and reads a field of the
  answer for every frontend (line 1278), also if there is no answer: with the balancer down
  the page may end the process. Of the master's answer it keeps 32 characters (`substr(4,
  sizeof(buffer))`, line 1162), which are 16 servers.
- Frontend: two threads that exchange with the master at once may read each other's answers
  (`utils.cc:233-235`), also two halves of them, and the wrong server is cached for good
  (`RightServer` without `overlapped`). The administrator's page takes fields of a heartbeat
  that may be another line (`frontend_to_client.cc:1238`).
- A frontend that switches itself off sends `quit` to the master and does not read the answer
  (`frontend_to_client.cc:1051`). Switched on again, it has no connection to the master: users
  it does not know all go to server 1, whatever their group, and a second switch-off may end
  it by SIGPIPE (`Regular` excepts a closed connection).
- A form that is sent with another user's cookie is handled on that user's server
  (`httpserver.cc:474`): the account is made, and the session stored, in a group where the
  user's later requests do not look (`AccountsAtHome`, `LastLoginHolds` without `mixed`).
- `user_servers` is an unlocked map, and an insert does not replace an entry that another
  thread made meanwhile (`utils.cc:326-333`).
- Between `compareSessionId` and the handler (`httpserver.cc:372`) another login or logout may
  come: the handler runs with a session that has ended.
- Balancer: overlapping scans may send a browser to port -1 while frontends are on, or to
  the most loaded one (`LeastLoaded` without `alone`). `persistent_connections` counts every
  connection that was ever opened (`httpserver.cc:580-584`), also by browsers that the
  balancer did not send and by browsers that have hung up, where the comment at
  `httpserver.cc:530` says "the number of connections"; only a request that is not HTTP/1.1
  is taken off (lines 630-633). So the counts drift apart without the balancer (`EvenLoad`
  without `direct` and `dropped`), and at `MAX_CONNECTIONS` everybody is sent to port -1. It
  is a `std::set` that all threads change without a lock.
- Balancer: a frontend that dies between `connect` and its answer makes `stoi("")` throw
  (`load_balancer.cc:223-234`). `Thread_Running` catches it and closes the browser's connection;
  `heartbeat_func` does not, and the balancer ends.
- Balancer: no socket to a frontend is closed (`load_balancer.cc:216`). With a scan every two
  seconds all frontends read as dead after a while, everybody is sent to port -1 (`EvenLoad`
  without `spent`), and the next browser ends the process (lines 328-332).
- Transfer: a stored file has the end of the line before the boundary appended (CR LF); a
  line feed at the start of a line may swallow what is before it, depending on a variable
  without a value (`utils.cc:152-157`); a line that begins like an end line ends the file
  there (line 162); with a boundary of fewer than five leading dashes what is left of the
  end line is not recognised and the reader waits for ever (`httpserver.cc:222`,
  `BoundaryDashes`); a request whose file part has no line at all is refused by the server
  (`backend_server.cc:651`).
- Transfer: the frontend sends the chunks of an upload right behind the command
  (`frontend_to_client.cc:674-680`). The server's read of the command
  (`backend_server.cc:955`) may put their first bytes into its own buffer; `do_read` (line
  666) then waits for ever for as many others, and the browser for its answer (`Completes`
  without `"swallowed"`).


## 6. What is not modelled

- The bytes of commands: splitting of lines in buffers, url coding, the HTML of pages. In
  `Transfer` the bytes of files are.
- The table operations of one command are one step. The code takes no lock around them;
  two of them at once are undefined behaviour of `unordered_map`, and two mails at once may
  overwrite each other's list.
- `primary_queue` and `user_servers` are used by several threads without a lock; the models
  take each operation on them as atomic. A line on the shared connection is read whole.
- The accept loops (arguments of new threads are locals that the next connection
  overwrites), signal handlers, failing `flock`, and `open` where it fails for
  another reason than the relay's.
- Replication and routing are modelled apart: in `Frontend` the rows of a user are those of a
  group, whose servers agree; in `Transfer` no server is switched off.
- A configuration whose servers do not fill the last group: the master would read beyond the
  list (`MasterAssumption` excludes it).
- Lines of more than 1 000 000 bytes, which the frontend's readers cut; the user interface,
  which has no state.


## 7. The plan

Done: every component with state has a module; every safety invariant that a run checks has
a theorem, and so have the refinement of `Maildrop` and the action properties.

Next, in this order:

1. `FileSystem`: what it promises is a tree (every folder on the way to a path exists, the
   current folder too), for any names and commands.
2. A module for the steps inside `kvs_send_mail`, two threads on one mailbox.
3. Two restarts at once in `ReplicaGroup`, and `Transfer` with servers that are off.
