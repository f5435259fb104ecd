------------------------------ MODULE KvStore ------------------------------
(***************************************************************************)
(* The key-value table of one backend server and the commands that change  *)
(* it (class KeyValueStore_obj, src/backend/kvs.cc), as operators on       *)
(* tables.  The modules that have a server in them (DurableStore,          *)
(* ReplicaGroup) extend this one.                                          *)
(*                                                                         *)
(* A cell is a (row, column) pair; the row is a user.  Cells.tla says what *)
(* an entry of the table is.                                               *)
(*                                                                         *)
(* A mailbox is the list of the identifiers of its mails (the subject,     *)
(* sender and time of an entry travel with its identifier); a mail's       *)
(* identifier is the timestamp of the command that sent it.                *)
(***************************************************************************)
EXTENDS Cells, Sequences

Ext == INSTANCE SequencesExt

CONSTANTS
    User,      \* the rows
    Val,       \* values of ordinary cells and contents of mails
    Root,      \* the value "ROOT"
    Kinds,     \* bound: the commands that clients send
    MaxTime    \* bound: the latest timestamp that is issued

ASSUME KvAssumption ==
    /\ Root \in Val
    /\ MaxTime \in Nat
    /\ Null \notin Val
    /\ Null \notin Seq(0..MaxTime)

Time == 0..MaxTime

(* The columns the frontend and the commands use.                          *)
PasswordCol == <<"PASSWORD", 0>>
SidCol      == <<"SID", 0>>
CurDirCol   == <<"CUR_DIR", 0>>
RootCol     == <<"ROOT", 0>>
MailboxCol  == <<"MAILBOX", 0>>
MailCol(id) == <<"MAIL", id>>

NamedCol == {PasswordCol, SidCol, CurDirCol, RootCol, MailboxCol}
Column   == NamedCol \cup {MailCol(id) : id \in Time}
Cell     == User \X Column

(* Beside the cells a table keeps, for every user, whether it has a row: the *)
(* entry of the place <<u, RowCol>>.                                        *)
RowCol == <<"", 0>>
Place  == User \X (Column \cup {RowCol})
Made   == [val |-> Root, time |-> 0]

Value      == Val \cup Seq(Time)
Entry      == [val : Value, time : Time]
Table      == [Place -> Entry \cup {NoEntry}]
EmptyTable == [c \in Place |-> NoEntry]

HasColumn(tab, u) == \E col \in Column : Present(tab, <<u, col>>)

(* table.count(user): a row that a put made is there, also when all of its  *)
(* columns were erased since.                                               *)
HasUser(tab, u) == Present(tab, <<u, RowCol>>) \/ HasColumn(tab, u)

(* kvs_put: table[row] makes the row.  kvs_delete (Erase) leaves it.        *)
Insert(tab, c, v, m) == [Put(tab, c, v, m) EXCEPT ![<<c[1], RowCol>>] = Made]

(* What a checkpoint says of a table: dump_checkpoint writes a row without  *)
(* columns, and load_checkpoint makes no row for it.                        *)
Emptied(tab, u) == HasUser(tab, u) /\ ~HasColumn(tab, u)

Saved(tab) ==
    [c \in Place |-> IF c[2] = RowCol /\ Emptied(tab, c[1]) THEN NoEntry ELSE tab[c]]

-----------------------------------------------------------------------------
(* Commands.  One record shape for all of them; a field that a command does *)
(* not use has its default.                                                 *)

Kind == {"none", "put", "cput", "delete", "register", "logout", "putemail",
         "deleteemail"}

Op == [kind : Kind, user : User, col : Column, old : Val, val : Val,
       id : Time, time : Time]

Command(kind, u, m) ==
    [kind |-> kind, user |-> u, col |-> PasswordCol, old |-> Root,
     val |-> Root, id |-> 0, time |-> m]

PutOp(u, col, v, m)       == [Command("put", u, m) EXCEPT !.col = col, !.val = v]
CputOp(u, col, v1, v2, m) == [Command("cput", u, m) EXCEPT !.col = col, !.old = v1,
                                                           !.val = v2]
DeleteOp(u, col, m)       == [Command("delete", u, m) EXCEPT !.col = col]
RegisterOp(u, pwd, m)     == [Command("register", u, m) EXCEPT !.val = pwd]
LogoutOp(u, m)            == Command("logout", u, m)
MailOp(u, body, m)        == [Command("putemail", u, m) EXCEPT !.val = body]
DeleteMailOp(u, id, m)    == [Command("deleteemail", u, m) EXCEPT !.id = id]

(* What clients ask for at time m: the frontend puts passwords and session  *)
(* identifiers, deletes sessions only, and names mails that were sent.      *)
PutRequests(m) ==
    {PutOp(u, col, v, m) : u \in User, v \in Val \ {Root}, col \in {PasswordCol, SidCol}}
CputRequests(m) ==
    {CputOp(u, PasswordCol, v1, v2, m) : u \in User, v1 \in Val, v2 \in Val}
DeleteRequests(m) == {DeleteOp(u, SidCol, m) : u \in User}
AccountRequests(m) ==
    {RegisterOp(u, Root, m) : u \in User} \cup {LogoutOp(u, m) : u \in User}
MailRequests(m)   == {MailOp(u, v, m) : u \in User, v \in Val \ {Root}}
UnmailRequests(m) == {DeleteMailOp(u, id, m) : u \in User, id \in 1..(m - 1)}

Requests(m) ==
    {op \in PutRequests(m) \cup CputRequests(m) \cup DeleteRequests(m)
            \cup AccountRequests(m) \cup MailRequests(m) \cup UnmailRequests(m) :
        op.kind \in Kinds}

(* The columns that some command may erase, and commands that erase no other. *)
Erasable == {SidCol} \cup {MailCol(id) : id \in Time}
Sane(op) == op.kind = "delete" => op.col \in Erasable

-----------------------------------------------------------------------------
(* The table operations.                                                    *)

(* kvs_cput: when the comparison succeeds the result of kvs_put is ignored. *)
CputMatches(tab, c, v1) == Present(tab, c) /\ tab[c].val = v1

SignUp(tab, u, pwd, m) ==
    Insert(Insert(Insert(Insert(tab, <<u, PasswordCol>>, pwd, m),
                         <<u, CurDirCol>>, Root, m),
                  <<u, RootCol>>, Root, m),
           <<u, MailboxCol>>, <<>>, m)

LogOut(tab, u, m) ==
    Insert(Erase(tab, <<u, SidCol>>, m), <<u, CurDirCol>>, Root, m)

(* The mail list of a mailbox cell; anything else reads as an empty list.   *)
Inbox(tab, u) ==
    LET v == tab[<<u, MailboxCol>>].val IN IF v \in Seq(Time) THEN v ELSE <<>>

(* The list without the first entry that names the mail.                    *)
Without(s, id) == Ext!RemoveAt(s, Ext!Min({i \in DOMAIN s : s[i] = id}))

HasMail(tab, u, id) == \E i \in DOMAIN Inbox(tab, u) : Inbox(tab, u)[i] = id

(* Mutation of SendMail: the list is replaced instead of extended.          *)
SendMailOverwrites(tab, u, body, m) ==
    Insert(Insert(tab, <<u, MailCol(m)>>, body, m), <<u, MailboxCol>>, <<m>>, m)

SendMail(tab, u, body, m) ==
    Insert(Insert(tab, <<u, MailCol(m)>>, body, m),
           <<u, MailboxCol>>, Append(Inbox(tab, u), m), m)

(* kvs_delete_mail erases the body before it looks for the mail in the list. *)
DeleteMail(tab, u, id, m) ==
    LET erased == Erase(tab, <<u, MailCol(id)>>, m)
    IN  IF HasMail(tab, u, id)
        THEN Insert(erased, <<u, MailboxCol>>, Without(Inbox(tab, u), id), m)
        ELSE erased

-----------------------------------------------------------------------------
(* Whether a command returns true to its handler.                           *)
Succeeds(tab, op) ==
    CASE op.kind = "cput"        -> CputMatches(tab, <<op.user, op.col>>, op.old)
      [] op.kind = "register"    -> ~HasUser(tab, op.user)
      [] op.kind = "logout"      -> HasUser(tab, op.user)
      [] op.kind = "putemail"    -> HasUser(tab, op.user)
      [] op.kind = "deleteemail" -> HasMail(tab, op.user, op.id)
      [] OTHER                   -> TRUE

(* The table a command leaves behind.                                       *)
Effect(tab, op) ==
    CASE op.kind = "put" -> Insert(tab, <<op.user, op.col>>, op.val, op.time)
      [] op.kind = "cput" ->
            IF Succeeds(tab, op)
            THEN Insert(tab, <<op.user, op.col>>, op.val, op.time) ELSE tab
      [] op.kind = "delete" -> Erase(tab, <<op.user, op.col>>, op.time)
      [] op.kind = "register" ->
            IF Succeeds(tab, op) THEN SignUp(tab, op.user, op.val, op.time) ELSE tab
      [] op.kind = "logout" ->
            IF Succeeds(tab, op) THEN LogOut(tab, op.user, op.time) ELSE tab
      [] op.kind = "putemail" ->
            IF Succeeds(tab, op)
            THEN SendMail(tab, op.user, op.val, op.time) ELSE tab
      [] op.kind = "deleteemail" -> DeleteMail(tab, op.user, op.id, op.time)
      [] OTHER -> tab

(* Mutation of ReplayEffect: a branch of replay_log is missing.             *)
ReplayForgetsCput(tab, op) ==
    IF op.kind \in {"logout", "cput"} THEN tab ELSE Effect(tab, op)

(* What replay_log does with a record: it has no branch for "logout".       *)
ReplayEffect(tab, op) == IF op.kind = "logout" THEN tab ELSE Effect(tab, op)

(* Whether the handler goes on to write_log and asks for the multicast: put *)
(* and delete ignore the result of the table operation, every other command *)
(* stops when it failed.                                                    *)
Recorded(tab, op) == op.kind \in {"put", "delete"} \/ Succeeds(tab, op)

-----------------------------------------------------------------------------
(* For the properties.                                                      *)

(* Commands that write no column but the frontend's own.                    *)
Harmless(op) == op.kind \in {"put", "cput", "delete"} => op.col \in {PasswordCol, SidCol}

(* Commands whose effect nothing but a later write may take away again, and *)
(* tables that hold the effect or a later write.                            *)
Lasting(op) == op.kind = "put" /\ op.col \notin Erasable

Reflects(tab, op) ==
    LET c == <<op.user, op.col>> IN Present(tab, c) /\ tab[c].time >= op.time
=============================================================================
