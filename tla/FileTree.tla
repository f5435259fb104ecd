------------------------------ MODULE FileTree ------------------------------
(***************************************************************************)
(* The files of one user in the table of a backend server                  *)
(* (src/backend/kvs.cc: kvs_upload, kvs_mkdir, kvs_mv, kvs_rm, kvs_cd,     *)
(* kvs_rename; src/backend/backend_server.cc: execute_command_in_buffer).  *)
(*                                                                         *)
(* A folder is a cell with the id of its parent and a list of entries; an  *)
(* entry names a cell by its id, which is a column.  The current folder is *)
(* a cell too, CUR_DIR, and kvs_rm uses it to walk the folder it removes.  *)
(* A put older than a cell is refused and no command looks at that.        *)
(*                                                                         *)
(* The log holds the commands; replaying it gives new ids to what it       *)
(* creates.  No command looks at an id: NewId takes a free one, for equal  *)
(* tables the same, so that a table that was rebuilt can be compared with  *)
(* the one that was lost.  Writing the log is one step here: the steps of  *)
(* write_log and of recovery are in DurableStore.tla.                      *)
(*                                                                         *)
(* Recursion is written with functions, so that FileProofs.tla can         *)
(* reason about it; what a user sees of the cells is in FileTreeShown.tla. *)
(***************************************************************************)
EXTENDS Cells, Sequences

Ext == INSTANCE SequencesExt

CONSTANTS
    Name,                \* names of files and folders
    Connection,          \* connections that serve the user
    Kinds,               \* bound: the commands that are sent
    Earlier,             \* what the user may have done before: sequences of commands
    MaxTime,             \* bound: the commands from then on
    MaxId,               \* bound: the cells of files and of folders
    MaxDepth,            \* bound: length of the paths that move is given
    CheckpointInterval,  \* records after which write_log dumps the table
    MaxCrashes,          \* bound: the crashes
    NoCommand

ASSUME TreeAssumption ==
    /\ {MaxTime, MaxId, MaxDepth, MaxCrashes} \subseteq Nat
    /\ CheckpointInterval \in Nat \ {0}
    /\ {".", ".."} \cap Name = {}

VARIABLES
    table,       \* the user's row
    log,         \* commands since the checkpoint
    checkpoint,
    clock,       \* the latest timestamp
    request,     \* the command each connection is working on
    ok,          \* whether the last command was answered +OK
    crashes

vars == <<table, log, checkpoint, clock, request, ok, crashes>>

CurDirCol == [type |-> "CUR_DIR", id |-> 0]
RootCol   == [type |-> "ROOT", id |-> 0]
DirCol    == [type : {"DIR"}, id : 1..MaxId]
FileCol   == [type : {"FILE"}, id : 1..MaxId]
Folder    == {RootCol} \cup DirCol
Column    == {CurDirCol} \cup Folder \cup FileCol

FolderCell == [parent : Column, entries : Seq([name : Name, dir : BOOLEAN, id : Column])]
FileCell   == [text : Nat]
Value      == {Null} \cup Column \cup FolderCell \cup FileCell
Table      == [Column -> [val : Value, time : Nat]]

ASSUME NullAssumption == Null \notin Column \cup FolderCell \cup FileCell

-----------------------------------------------------------------------------
(* Folders.                                                                 *)

(* Directory_file of a cell; a cell that does not exist reads as a folder   *)
(* without a parent and without entries.                                    *)
Dir(t, c) ==
    IF c \in Column /\ Present(t, c) THEN t[c].val ELSE [parent |-> Null, entries |-> <<>>]

Cwd(t)  == t[CurDirCol].val
Here(t) == Dir(t, Cwd(t))

At(d, n)    == {i \in DOMAIN d.entries : d.entries[i].name = n}
Has(d, n)   == At(d, n) # {}
Entry(d, n) == d.entries[Ext!Min(At(d, n))]

With(d, e)    == [d EXCEPT !.entries = Append(@, e)]
Without(d, n) == [d EXCEPT !.entries = Ext!RemoveAt(@, Ext!Min(At(d, n)))]

Subfolders(d, n) == {e \in Ext!ToSet(d.entries) : e.name = n /\ e.dir}

(* resolve_absolute_path: the folders that it passes; Null is the code's    *)
(* empty string.                                                            *)
Step(t, c, n) ==
    LET found == Subfolders(Dir(t, c), n)
    IN  IF found = {} THEN Null ELSE (CHOOSE e \in found : TRUE).id

Walk(t, path) ==
    LET walk[i \in 0..Len(path)] ==
            IF i = 0 THEN RootCol ELSE Step(t, walk[i - 1], path[i])
    IN  walk

Resolve(t, path) == Walk(t, path)[Len(path)]

-----------------------------------------------------------------------------
(* The commands, as operators on tables; m is the timestamp of the command. *)

(* "FILE_" or "DIR_" and get_timestamp: an id that no cell has.             *)
NewId(t, cols) == CHOOSE c \in cols : ~Present(t, c)

Create(t, n, id, dir, val, m) ==
    Put(Put(t, id, val, m), Cwd(t), With(Here(t), [name |-> n, dir |-> dir, id |-> id]), m)

Upload(t, n, m) == Create(t, n, NewId(t, FileCol), FALSE, [text |-> m], m)

MakeDir(t, n, m) ==
    Create(t, n, NewId(t, DirCol), TRUE, [parent |-> Cwd(t), entries |-> <<>>], m)

(* Mutation of Move: the parent of a moved folder stays.                    *)
MoveKeepsParent(t, n, to, m) ==
    Put(Put(t, to, With(Dir(t, to), Entry(Here(t), n)), m), Cwd(t), Without(Here(t), n), m)

(* kvs_mv reads the two folders before it writes any cell.                  *)
Move(t, n, to, m) ==
    LET e       == Entry(Here(t), n)
        adopted == IF e.dir THEN Put(t, e.id, [Dir(t, e.id) EXCEPT !.parent = to], m) ELSE t
    IN  Put(Put(adopted, to, With(Dir(t, to), e), m), Cwd(t), Without(Here(t), n), m)

(* Mutation of Remove: what is in a folder stays.                           *)
RemoveFlat(t, n, m) ==
    IF n = "." THEN t
    ELSE Put(Erase(t, Entry(Here(t), n).id, m), Cwd(t), Without(Here(t), n), m)

(* The loop of kvs_rm over the names in a folder, with what removes a name. *)
Emptied(rm, t, names) ==
    LET emptied[i \in 0..Len(names)] ==
            IF i = 0 THEN t ELSE rm[emptied[i - 1]][names[i].name]
    IN  emptied[Len(names)]

(* kvs_rm: a folder becomes the current one while its entries are removed.  *)
RemoveEntry(rm, t, n, m) ==
    LET here   == Cwd(t)
        e      == Entry(Here(t), n)
        inside == Put(t, CurDirCol, e.id, m)
        left   == IF e.dir
                  THEN Put(Emptied(rm, inside, Here(inside).entries), CurDirCol, here, m)
                  ELSE t
    IN  Put(Erase(left, e.id, m), here, Without(Here(t), n), m)

(* rm[k] is kvs_rm of an entry with k calls left; folders are at most MaxId deep.       *)
Removal(m) ==
    LET rm[k \in 0..(MaxId + 1)] ==
            [t \in Table |-> [n \in Name |->
                IF k = 0 THEN t ELSE RemoveEntry(rm[k - 1], t, n, m)]]
    IN  rm

(* The name "." stands for all that is in the current folder.               *)
Remove(t, n, m) ==
    LET rm == Removal(m)[MaxId + 1]
    IN  IF n = "." THEN Emptied(rm, t, Here(t).entries) ELSE rm[t][n]

ChangeDir(t, n, m) ==
    Put(t, CurDirCol, IF n = ".." THEN Here(t).parent ELSE Entry(Here(t), n).id, m)

(* The name changes in its place.                                           *)
Rename(t, old, new, m) ==
    Put(t, Cwd(t),
        [Here(t) EXCEPT !.entries[Ext!Min(At(Here(t), old))].name = new], m)

-----------------------------------------------------------------------------
(* A command is [kind, name, arg, time]: arg is the path of a move or the   *)
(* new name of a renaming.                                                  *)

Op(kind, n, arg, m) == [kind |-> kind, name |-> n, arg |-> arg, time |-> m]

(* Commands that answer +OK without a change.                               *)
Idle(t, op) ==
    \/ op.kind = "move" /\ Resolve(t, op.arg) = Cwd(t)
    \/ op.kind = "rename" /\ op.arg = op.name

(* The result of the operation.                                             *)
Succeeds(t, op) ==
    LET here == Here(t)
    IN  \/ Idle(t, op)
        \/ op.kind \in {"uploadfile", "makedir"} /\ ~Has(here, op.name)
        \/ /\ op.kind = "move"
           /\ Resolve(t, op.arg) # Null
           /\ ~Has(Dir(t, Resolve(t, op.arg)), op.name)
           /\ Has(here, op.name)
        \/ op.kind = "remove" /\ (op.name = "." \/ Has(here, op.name))
        \/ op.kind = "changedir" /\ (op.name = ".." \/ Subfolders(here, op.name) # {})
        \/ op.kind = "rename" /\ Has(here, op.name) /\ ~Has(here, op.arg)
        \/ op.kind = "logout"

Effect(t, op) ==
    IF Idle(t, op) \/ ~Succeeds(t, op) THEN t
    ELSE CASE op.kind = "uploadfile" -> Upload(t, op.name, op.time)
           [] op.kind = "makedir"    -> MakeDir(t, op.name, op.time)
           [] op.kind = "move"       -> Move(t, op.name, Resolve(t, op.arg), op.time)
           [] op.kind = "remove"     -> Remove(t, op.name, op.time)
           [] op.kind = "changedir"  -> ChangeDir(t, op.name, op.time)
           [] op.kind = "rename"     -> Rename(t, op.name, op.arg, op.time)
           [] op.kind = "logout"     -> Put(t, CurDirCol, RootCol, op.time)

(* replay_log has a branch for every command but logout.                    *)
Replay(t, ops) ==
    LET run[i \in 0..Len(ops)] ==
            IF i = 0 THEN t
            ELSE IF ops[i].kind = "logout" THEN run[i - 1]
            ELSE Effect(run[i - 1], ops[i])
    IN  run[Len(ops)]

(* A folder is to be removed and CUR_DIR is newer than the command: kvs_rm  *)
(* does not get into the folder and calls itself without end.               *)
Endless(t, op) ==
    /\ op.kind = "remove"
    /\ \E e \in Ext!ToSet(Here(t).entries) : e.dir /\ op.name \in {e.name, "."}
    /\ t[CurDirCol].time > op.time

(* The folder that is moved is on the path of its destination.              *)
IntoItself(t, op) ==
    /\ op.kind = "move"
    /\ Has(Here(t), op.name)
    /\ Resolve(t, op.arg) # Null
    /\ \E i \in 0..Len(op.arg) : Walk(t, op.arg)[i] = Entry(Here(t), op.name).id

(* There is an id left for what the command creates (a bound: MaxId).       *)
Room(t, op) ==
    /\ op.kind = "uploadfile" => \E c \in FileCol : ~Present(t, c)
    /\ op.kind = "makedir" => \E c \in DirCol : ~Present(t, c)

-----------------------------------------------------------------------------
(* The server.                                                              *)

Path == UNION {[1..k -> Name] : k \in 0..MaxDepth}

Commands(m) ==
    {Op(k, n, <<>>, m) : k \in {"uploadfile", "makedir"}, n \in Name}
    \cup {Op("remove", n, <<>>, m) : n \in Name \cup {"."}}
    \cup {Op("changedir", n, <<>>, m) : n \in Name \cup {".."}}
    \cup {Op("rename", n, new, m) : n \in Name, new \in Name}
    \cup {Op("move", n, path, m) : n \in Name, path \in Path}
    \cup {Op("logout", "none", <<>>, m)}

(* kvs_sign_up.                                                             *)
NewUser ==
    [c \in Column |->
        CASE c = CurDirCol -> [val |-> RootCol, time |-> 0]
          [] c = RootCol   -> [val |-> [parent |-> RootCol, entries |-> <<>>], time |-> 0]
          [] OTHER         -> NoEntry]

(* What the user did before could be done, one command after the other.     *)
ASSUME EarlierAssumption ==
    \A ops \in Earlier :
        /\ ops \in Seq(Commands(0))
        /\ \A i \in DOMAIN ops :
            LET t == Replay(NewUser, SubSeq(ops, 1, i - 1))
            IN  ops[i].kind # "logout" /\ Room(t, ops[i]) /\ ~IntoItself(t, ops[i])

Init ==
    /\ \E ops \in Earlier : table = Replay(NewUser, ops)
    /\ log = <<>>
    /\ checkpoint = table
    /\ clock = 0
    /\ request = [c \in Connection |-> NoCommand]
    /\ ok = TRUE
    /\ crashes = 0

(* A command arrives and gets its timestamp.                                *)
Request(c) ==
    /\ request[c] = NoCommand
    /\ clock < MaxTime
    /\ clock' = clock + 1
    /\ \E op \in Commands(clock + 1) :
        /\ op.kind \in Kinds
        /\ IntoItself(table, op) => "moveinto" \in Kinds
        /\ request' = [request EXCEPT ![c] = op]
    /\ UNCHANGED <<table, log, checkpoint, ok, crashes>>

(* Mutation of WriteLog: the counter is compared one too late.              *)
WriteLogLate(op) ==
    IF Len(log) > CheckpointInterval
    THEN log' = <<>> /\ checkpoint' = table'
    ELSE log' = Append(log, op) /\ UNCHANGED checkpoint

(* write_log: a full log is emptied and the table dumped instead.           *)
WriteLog(op) ==
    IF Len(log) >= CheckpointInterval
    THEN log' = <<>> /\ checkpoint' = table'
    ELSE log' = Append(log, op) /\ UNCHANGED checkpoint

Execute(c) ==
    LET op == request[c]
    IN  /\ op # NoCommand
        /\ ~Endless(table, op)
        /\ Room(table, op)
        /\ table' = Effect(table, op)
        /\ ok' = Succeeds(table, op)
        /\ IF Succeeds(table, op) THEN WriteLog(op) ELSE UNCHANGED <<log, checkpoint>>
        /\ request' = [request EXCEPT ![c] = NoCommand]
        /\ UNCHANGED <<clock, crashes>>

(* The process dies and is started again.                                   *)
Restart ==
    /\ crashes < MaxCrashes
    /\ crashes' = crashes + 1
    /\ table' = Replay(checkpoint, log)
    /\ request' = [c \in Connection |-> NoCommand]
    /\ UNCHANGED <<log, checkpoint, clock, ok>>

Next == Restart \/ \E c \in Connection : Request(c) \/ Execute(c)

Spec == Init /\ [][Next]_vars

-----------------------------------------------------------------------------
(* The invariants.                                                          *)

(* A table whose cells have the values of their columns, none newer than m. *)
Typed(t, m) ==
    /\ t \in Table
    /\ \A c \in Column : t[c].time <= m
    /\ Cwd(t) \in Folder
    /\ \A c \in Folder : Present(t, c) => t[c].val \in FolderCell
    /\ \A c \in FileCol : Present(t, c) => t[c].val \in FileCell

TypeOK ==
    /\ Typed(table, clock)
    /\ Len(log) <= CheckpointInterval
    /\ clock \in 0..MaxTime
    /\ crashes \in 0..MaxCrashes

(* Where the folders list cells: folder and position.                       *)
Listings(t) == UNION {{d} \X DOMAIN Dir(t, d).entries : d \in Folder}
Item(t, l)  == Dir(t, l[1]).entries[l[2]]

(* The root is its own parent, and the current folder exists.               *)
Rooted(t) ==
    /\ Present(t, RootCol)
    /\ Dir(t, RootCol).parent = RootCol
    /\ Present(t, Cwd(t))

(* An entry names a cell of its kind, and a folder the one that lists it.   *)
Linked(t) ==
    \A l \in Listings(t) :
        LET e == Item(t, l)
        IN  /\ e.id \in IF e.dir THEN DirCol ELSE FileCol
            /\ Present(t, e.id)
            /\ e.dir => Dir(t, e.id).parent = l[1]

NoDoubles(t) ==
    \A l1, l2 \in Listings(t) :
        \/ Item(t, l1).id = Item(t, l2).id
        \/ l1[1] = l2[1] /\ Item(t, l1).name = Item(t, l2).name
        => l1 = l2

NoOrphans(t) ==
    \A c \in DirCol \cup FileCol :
        Present(t, c) => \E l \in Listings(t) : Item(t, l).id = c

(* No folders that hold each other: some parent is outside of every set.    *)
Acyclic(t) ==
    \A S \in SUBSET {c \in DirCol : Present(t, c)} :
        S # {} => \E c \in S : Dir(t, c).parent \notin S

Tree(t) == Rooted(t) /\ Linked(t) /\ NoDoubles(t) /\ NoOrphans(t) /\ Acyclic(t)

(* Every cell of a file or a folder is listed once, by a folder that is its *)
(* parent and hangs from the root, and no folder has a name twice: removing *)
(* leaves nothing behind, moving and renaming neither double nor lose an    *)
(* entry, replay creates nothing twice (kvs_rm, kvs_mv, replay_log).        *)
Tidy ==
    /\ Present(table, Cwd(table))
    /\ \A c \in DirCol \cup FileCol :
        LET places == {l \in Listings(table) : Item(table, l).id = c}
        IN  IF Present(table, c)
            THEN \E l \in places :
                    /\ places = {l}
                    /\ Item(table, l).dir <=> c \in DirCol
                    /\ c \in DirCol => Dir(table, c).parent = l[1]
            ELSE places = {}
    /\ \A d \in Folder : \A n \in Name : \A i, j \in At(Dir(table, d), n) : i = j
    /\ Acyclic(table)

(* What is asked is a command of now, and nothing is moved into itself but  *)
(* on purpose.                                                              *)
Asked ==
    \A c \in Connection : request[c] # NoCommand =>
        /\ request[c] \in Commands(clock)
        /\ request[c].kind \in Kinds
        /\ IntoItself(table, request[c]) => "moveinto" \in Kinds

(* The files of the server hold the table.                                  *)
Recoverable ==
    /\ \A i \in DOMAIN log : log[i] \in UNION {Commands(m) : m \in 0..clock}
    /\ table = Replay(checkpoint, log)

(* The inductive invariant: the cells are a tree that no command is older   *)
(* than, and the log rebuilds it.                                           *)
TreeInv == TypeOK /\ Tree(table) /\ Asked /\ Recoverable
=============================================================================
