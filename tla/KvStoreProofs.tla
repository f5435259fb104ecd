--------------------------- MODULE KvStoreProofs ---------------------------
(* Facts about the table operations of KvStore, used by the proofs about    *)
(* the modules that have a server in them.                                  *)
EXTENDS KvStore, TLAPS, SequenceTheorems, WellFoundedInduction

LEMMA Places ==
    /\ Cell \subseteq Place
    /\ \A u \in User : <<u, RowCol>> \in Place \ Cell
    /\ \A c \in Place : c[2] # RowCol => c \in Cell
    /\ \A c \in Cell : c[1] \in User /\ c[2] # RowCol
<1>1. RowCol \notin Column
  BY DEF RowCol, Column, NamedCol, PasswordCol, SidCol, CurDirCol, RootCol, MailboxCol,
         MailCol
<1> QED BY <1>1 DEF Cell, Place

(* A cell of the table type is absent or holds a value.                     *)
LEMMA EntryShape ==
    ASSUME NEW tab \in Table, NEW c \in Cell
    PROVE  /\ tab[c].time \in Time
           /\ tab[c].time > 0 => Present(tab, c)
BY Places, KvAssumption DEF Table, Entry, NoEntry, Present, Time, Value

LEMMA EmptyTableType == EmptyTable \in Table
BY DEF EmptyTable, Table

LEMMA ColumnTypes ==
    /\ PasswordCol \in Column /\ SidCol \in Column /\ CurDirCol \in Column
    /\ RootCol \in Column /\ MailboxCol \in Column
    /\ \A id \in Time : MailCol(id) \in Column
BY DEF Column, NamedCol

(* kvs_put keeps the type, and changes no cell but its own.                *)
LEMMA PutType ==
    ASSUME NEW tab \in Table, NEW c \in Cell, NEW v \in Value, NEW m \in Time
    PROVE  /\ Put(tab, c, v, m) \in Table
           /\ Insert(tab, c, v, m) \in Table
           /\ \A d \in Cell : Insert(tab, c, v, m)[d] = Put(tab, c, v, m)[d]
           /\ <<c[1], RowCol>> \in Place \ Cell
           /\ Insert(tab, c, v, m)[<<c[1], RowCol>>] = Made
<1>1. [val |-> v, time |-> m] \in Entry /\ Made \in Entry
  BY KvAssumption DEF Entry, Made, Value, Time
<1>2. Put(tab, c, v, m) \in Table
  BY <1>1 DEF Put, Table
<1>3. <<c[1], RowCol>> \in Place \ Cell
  BY Places
<1> QED BY <1>1, <1>2, <1>3, Places DEF Insert, Table

LEMMA InsertIs ==
    ASSUME NEW tab \in Table, NEW c \in Cell, NEW v \in Value, NEW m \in Time
    PROVE  /\ \A d \in Cell : d # c => Insert(tab, c, v, m)[d] = tab[d]
           /\ tab[c].time <= m => /\ Insert(tab, c, v, m)[c].val = v
                                  /\ Insert(tab, c, v, m)[c].time = m
           /\ ~(tab[c].time <= m) => Insert(tab, c, v, m)[c] = tab[c]
<1>1. \A d \in Cell : Insert(tab, c, v, m)[d] = Put(tab, c, v, m)[d]
  BY PutType
<1>2. CASE tab[c].time <= m
  <2>1. Put(tab, c, v, m) = [tab EXCEPT ![c] = [val |-> v, time |-> m]]
    BY <1>2 DEF Put
  <2> QED BY <1>1, <1>2, <2>1, Places DEF Table
<1>3. CASE ~(tab[c].time <= m)
  <2>1. Put(tab, c, v, m) = tab
    BY <1>3 DEF Put
  <2> QED BY <1>1, <1>3, <2>1
<1> QED BY <1>2, <1>3

LEMMA InsertEntry ==
    ASSUME NEW tab \in Table, NEW c \in Cell, NEW v \in Value, NEW m \in Time
    PROVE  Insert(tab, c, v, m)[c] \in {tab[c], [val |-> v, time |-> m]}
<1>1. Insert(tab, c, v, m)[c] = Put(tab, c, v, m)[c]
  BY PutType
<1>2. Put(tab, c, v, m)[c] \in {tab[c], [val |-> v, time |-> m]}
  BY Places DEF Put, Table
<1> QED BY <1>1, <1>2

LEMMA HasUserStays ==
    ASSUME NEW tab \in Table, NEW c \in Cell, NEW v \in Value, NEW m \in Time, NEW u \in User,
           HasUser(tab, u)
    PROVE  HasUser(Insert(tab, c, v, m), u)
<1> DEFINE new == Insert(tab, c, v, m)
<1>1. /\ \A d \in Cell : d # c => new[d] = tab[d]
      /\ tab[c].time <= m => new[c].val = v
      /\ ~(tab[c].time <= m) => new[c] = tab[c]
      /\ <<u, RowCol>> \in Place /\ <<u, RowCol>> \notin Cell
      /\ v # Null
  BY InsertIs, Places, KvAssumption DEF Value, Time
<1>2. new[<<u, RowCol>>] = tab[<<u, RowCol>>] \/ new[<<u, RowCol>>] = Made
  <2>1. Put(tab, c, v, m) \in Table /\ Put(tab, c, v, m)[<<u, RowCol>>] = tab[<<u, RowCol>>]
    BY <1>1, PutType DEF Put, Table
  <2> QED BY <1>1, <2>1 DEF Insert, Table
<1>3. \A col \in Column : Present(tab, <<u, col>>) => Present(new, <<u, col>>)
  BY <1>1 DEF Present, Cell
<1>4. Made.val # Null
  BY KvAssumption DEF Made
<1> QED BY <1>2, <1>3, <1>4 DEF HasUser, HasColumn, Present

(* It never takes a cell back in time or away, and leaves its own cell at   *)
(* its own time or later.                                                   *)
LEMMA PutFacts ==
    ASSUME NEW tab \in Table, NEW c \in Cell, NEW v \in Value, NEW m \in Time
    PROVE  /\ Insert(tab, c, v, m) \in Table
           /\ \A d \in Cell : /\ Insert(tab, c, v, m)[d].time >= tab[d].time
                              /\ Present(tab, d) => Present(Insert(tab, c, v, m), d)
           /\ Insert(tab, c, v, m)[c].time >= m
           /\ Present(Insert(tab, c, v, m), c)
<1> DEFINE new == Insert(tab, c, v, m)
<1>1. /\ tab[c].time \in Time
      /\ tab[c].time > 0 => Present(tab, c)
  BY EntryShape
<1>2. \A d \in Cell : tab[d].time \in Time
  BY EntryShape
<1>3. v # Null
  BY KvAssumption DEF Value, Time
<1>4. new \in Table
  BY PutType
<1>5. /\ \A d \in Cell : d # c => new[d] = tab[d]
      /\ tab[c].time <= m => new[c].val = v /\ new[c].time = m
      /\ ~(tab[c].time <= m) => new[c] = tab[c]
  BY InsertIs
<1> HIDE DEF new
<1>6. new[c].time >= tab[c].time /\ Present(new, c) /\ new[c].time >= m
  <2>1. CASE tab[c].time <= m
    BY <1>2, <1>3, <1>5, <2>1, KvAssumption DEF Present, Time
  <2>2. CASE ~(tab[c].time <= m)
    <3>1. tab[c].time > m /\ m >= 0
      BY <1>1, <2>2, KvAssumption DEF Time
    <3>2. tab[c].time > 0
      BY <1>1, <3>1, KvAssumption DEF Time
    <3> QED BY <1>1, <1>5, <2>2, <3>1, <3>2, KvAssumption DEF Time, Present
  <2> QED BY <2>1, <2>2
<1>7. \A d \in Cell : new[d].time >= tab[d].time /\ (Present(tab, d) => Present(new, d))
  <2>1. \A d \in Cell : d # c => new[d].time >= tab[d].time /\ (Present(tab, d) => Present(new, d))
    BY <1>2, <1>5, KvAssumption DEF Time, Present
  <2> QED BY <1>6, <2>1
<1>8. /\ new \in Table
      /\ \A d \in Cell : new[d].time >= tab[d].time /\ (Present(tab, d) => Present(new, d))
      /\ new[c].time >= m
      /\ Present(new, c)
  BY <1>4, <1>6, <1>7
<1> QED BY <1>8 DEF new

(* A checkpoint has every cell of the table; it differs in emptied rows.    *)
LEMMA SavedFacts ==
    ASSUME NEW tab \in Table
    PROVE  /\ Saved(tab) \in Table
           /\ \A c \in Cell : Saved(tab)[c] = tab[c]
           /\ \A u \in User : ~Emptied(tab, u) =>
                 Saved(tab)[<<u, RowCol>>] = tab[<<u, RowCol>>]
BY Places DEF Saved, Table

(* kvs_delete keeps the type and touches no other cell.                     *)
LEMMA EraseFacts ==
    ASSUME NEW tab \in Table, NEW c \in Cell, NEW m \in Time
    PROVE  /\ Erase(tab, c, m) \in Table
           /\ \A d \in Cell \ {c} : Erase(tab, c, m)[d] = tab[d]
BY Places DEF Erase, Table

LEMMA InboxType ==
    ASSUME NEW tab \in Table, NEW u \in User
    PROVE  Inbox(tab, u) \in Seq(Time)
BY DEF Inbox
LEMMA LastingColumns ==
    {PasswordCol, CurDirCol, RootCol, MailboxCol} \cap Erasable = {}
BY DEF Erasable, PasswordCol, CurDirCol, RootCol, MailboxCol, SidCol, MailCol

(* A table that is at least as recent as another one on every lasting cell. *)
AsRecent(new, old) ==
    \A c \in Cell : c[2] \notin Erasable =>
        /\ new[c].time >= old[c].time
        /\ Present(old, c) => Present(new, c)

LEMMA AsRecentReflexive == ASSUME NEW tab \in Table PROVE AsRecent(tab, tab)
BY EntryShape DEF AsRecent, Time

LEMMA AsRecentTransitive ==
    ASSUME NEW t1 \in Table, NEW t2 \in Table, NEW t3 \in Table,
           AsRecent(t2, t1), AsRecent(t3, t2)
    PROVE  AsRecent(t3, t1)
<1>1. \A c \in Cell : t1[c].time \in Time /\ t2[c].time \in Time /\ t3[c].time \in Time
  BY EntryShape
<1> QED BY <1>1, KvAssumption DEF AsRecent, Time

LEMMA PutAsRecent ==
    ASSUME NEW tab \in Table, NEW c \in Cell, NEW v \in Value, NEW m \in Time
    PROVE  Insert(tab, c, v, m) \in Table /\ AsRecent(Insert(tab, c, v, m), tab)
BY PutFacts DEF AsRecent

LEMMA EraseAsRecent ==
    ASSUME NEW tab \in Table, NEW c \in Cell, NEW m \in Time, c[2] \in Erasable
    PROVE  Erase(tab, c, m) \in Table /\ AsRecent(Erase(tab, c, m), tab)
<1>1. \A d \in Cell : d[2] \notin Erasable => Erase(tab, c, m)[d] = tab[d]
  BY EraseFacts
<1>2. \A d \in Cell : tab[d].time >= tab[d].time
  BY EntryShape, KvAssumption DEF Time
<1> QED BY <1>1, <1>2, EraseFacts DEF AsRecent, Present

LEMMA SignUpAsRecent ==
    ASSUME NEW tab \in Table, NEW u \in User, NEW pwd \in Val, NEW m \in Time
    PROVE  SignUp(tab, u, pwd, m) \in Table /\ AsRecent(SignUp(tab, u, pwd, m), tab)
<1> DEFINE p1 == Insert(tab, <<u, PasswordCol>>, pwd, m)
           p2 == Insert(p1, <<u, CurDirCol>>, Root, m)
           p3 == Insert(p2, <<u, RootCol>>, Root, m)
           p4 == Insert(p3, <<u, MailboxCol>>, <<>>, m)
<1>0. /\ <<u, PasswordCol>> \in Cell /\ <<u, CurDirCol>> \in Cell
      /\ <<u, RootCol>> \in Cell /\ <<u, MailboxCol>> \in Cell
      /\ pwd \in Value /\ Root \in Value /\ <<>> \in Value
  BY ColumnTypes, KvAssumption DEF Cell, Value
<1>1. p1 \in Table /\ AsRecent(p1, tab)
  BY <1>0, PutAsRecent
<1> HIDE DEF p1
<1>2. p2 \in Table /\ AsRecent(p2, p1)
  BY <1>0, <1>1, PutAsRecent
<1> HIDE DEF p2
<1>3. p3 \in Table /\ AsRecent(p3, p2)
  BY <1>0, <1>2, PutAsRecent
<1> HIDE DEF p3
<1>4. p4 \in Table /\ AsRecent(p4, p3)
  BY <1>0, <1>3, PutAsRecent
<1> HIDE DEF p4
<1>5. AsRecent(p2, tab)
  BY <1>1, <1>2, AsRecentTransitive
<1>6. AsRecent(p3, tab)
  BY <1>1, <1>2, <1>3, <1>5, AsRecentTransitive
<1>7. AsRecent(p4, tab)
  BY <1>3, <1>4, <1>6, AsRecentTransitive
<1>8. SignUp(tab, u, pwd, m) = p4
  BY DEF SignUp, p4, p3, p2, p1
<1> QED BY <1>4, <1>7, <1>8

LEMMA LogOutAsRecent ==
    ASSUME NEW tab \in Table, NEW u \in User, NEW m \in Time
    PROVE  LogOut(tab, u, m) \in Table /\ AsRecent(LogOut(tab, u, m), tab)
<1> DEFINE e == Erase(tab, <<u, SidCol>>, m)
           p == Insert(e, <<u, CurDirCol>>, Root, m)
<1>0. /\ <<u, SidCol>> \in Cell /\ <<u, CurDirCol>> \in Cell /\ Root \in Value
      /\ SidCol \in Erasable
  BY ColumnTypes, KvAssumption DEF Cell, Value, Erasable
<1>1. e \in Table /\ AsRecent(e, tab)
  BY <1>0, EraseAsRecent
<1> HIDE DEF e
<1>2. p \in Table /\ AsRecent(p, e)
  BY <1>0, <1>1, PutAsRecent
<1> HIDE DEF p
<1>3. AsRecent(p, tab)
  BY <1>1, <1>2, AsRecentTransitive
<1> QED BY <1>2, <1>3 DEF LogOut, p, e

LEMMA SendMailAsRecent ==
    ASSUME NEW tab \in Table, NEW u \in User, NEW body \in Val, NEW m \in Time
    PROVE  SendMail(tab, u, body, m) \in Table /\ AsRecent(SendMail(tab, u, body, m), tab)
<1> DEFINE b == Insert(tab, <<u, MailCol(m)>>, body, m)
           p == Insert(b, <<u, MailboxCol>>, Append(Inbox(tab, u), m), m)
<1>0. /\ <<u, MailCol(m)>> \in Cell /\ <<u, MailboxCol>> \in Cell /\ body \in Value
      /\ Append(Inbox(tab, u), m) \in Value
  BY ColumnTypes, InboxType, AppendProperties DEF Cell, Value
<1>1. b \in Table /\ AsRecent(b, tab)
  BY <1>0, PutAsRecent
<1> HIDE DEF b
<1>2. p \in Table /\ AsRecent(p, b)
  BY <1>0, <1>1, PutAsRecent
<1> HIDE DEF p
<1>3. AsRecent(p, tab)
  BY <1>1, <1>2, AsRecentTransitive
<1> QED BY <1>2, <1>3 DEF SendMail, p, b
LEMMA LeastNat ==
    ASSUME NEW S \in SUBSET Nat, S # {}
    PROVE  \E i \in S : \A j \in S : i <= j
<1> DEFINE less == {ss \in Nat \X Nat : ss[1] < ss[2]}
<1>1. IsWellFoundedOn(less, Nat)
  <2>1. OpToRel(<, Nat) = less
    BY DEF OpToRel
  <2> QED BY <2>1, NatLessThanWellFounded, Zenon
<1>2. PICK i \in S : \A j \in S : ~(<<j, i>> \in less)
  <2> HIDE DEF less
  <2> QED BY <1>1, WFMin
<1>3. ASSUME NEW j \in S PROVE i <= j
  <2>1. i \in Nat /\ j \in Nat
    OBVIOUS
  <2>2. <<j, i>> \notin less
    BY <1>2
  <2>3. ~(j < i)
    BY <2>1, <2>2
  <2> QED BY <2>1, <2>3
<1> QED BY <1>3

LEMMA WithoutType ==
    ASSUME NEW s \in Seq(Time), NEW id \in Time, \E i \in DOMAIN s : s[i] = id
    PROVE  Without(s, id) \in Seq(Time)
<1> DEFINE at == {i \in DOMAIN s : s[i] = id}
           first == Ext!Min(at)
<1>1. at \subseteq Nat /\ at # {}
  OBVIOUS
<1>2. first \in DOMAIN s
  <2>1. PICK i \in at : \A j \in at : i <= j
    <3> HIDE DEF at
    <3> QED BY <1>1, LeastNat
  <2> QED BY <2>1 DEF Ext!Min
<1>3. Without(s, id) = Ext!RemoveAt(s, first)
  BY DEF Without
<1> HIDE DEF first
<1>4. SubSeq(s, 1, first - 1) \in Seq(Time) /\ SubSeq(s, first + 1, Len(s)) \in Seq(Time)
  BY <1>2, SubSeqProperties
<1> QED BY <1>3, <1>4, ConcatProperties DEF Ext!RemoveAt

LEMMA DeleteMailAsRecent ==
    ASSUME NEW tab \in Table, NEW u \in User, NEW id \in Time, NEW m \in Time
    PROVE  DeleteMail(tab, u, id, m) \in Table /\ AsRecent(DeleteMail(tab, u, id, m), tab)
<1> DEFINE e == Erase(tab, <<u, MailCol(id)>>, m)
           rest == Without(Inbox(tab, u), id)
           p == Insert(e, <<u, MailboxCol>>, rest, m)
<1>0. /\ <<u, MailCol(id)>> \in Cell /\ <<u, MailboxCol>> \in Cell
      /\ MailCol(id) \in Erasable
  BY ColumnTypes DEF Cell, Erasable
<1>1. e \in Table /\ AsRecent(e, tab)
  BY <1>0, EraseAsRecent
<1>2. CASE HasMail(tab, u, id)
  <2>1. rest \in Value
    BY <1>2, InboxType, WithoutType DEF HasMail, Value
  <2> HIDE DEF e, rest
  <2>2. p \in Table /\ AsRecent(p, e)
    BY <1>0, <1>1, <2>1, PutAsRecent
  <2> HIDE DEF p
  <2>3. AsRecent(p, tab)
    BY <1>1, <2>2, AsRecentTransitive
  <2> QED BY <1>2, <2>2, <2>3 DEF DeleteMail, p, e, rest
<1>3. CASE ~HasMail(tab, u, id)
  BY <1>1, <1>3 DEF DeleteMail
<1> QED BY <1>2, <1>3

(* No command, executed or replayed, takes a lasting cell back or away.     *)
THEOREM EffectAsRecent ==
    ASSUME NEW tab \in Table, NEW op \in Op, Sane(op)
    PROVE  Effect(tab, op) \in Table /\ AsRecent(Effect(tab, op), tab)
<1> DEFINE c == <<op.user, op.col>>
<1>0. /\ c \in Cell /\ op.user \in User /\ op.val \in Val /\ op.val \in Value
      /\ op.time \in Time /\ op.id \in Time /\ op.kind \in Kind
  BY DEF Op, Cell, Value
<1>1. AsRecent(tab, tab)
  BY AsRecentReflexive
<1>2. CASE op.kind = "put" \/ op.kind = "cput"
  <2>1. Insert(tab, c, op.val, op.time) \in Table /\ AsRecent(Insert(tab, c, op.val, op.time), tab)
    BY <1>0, PutAsRecent
  <2> QED BY <1>1, <1>2, <2>1 DEF Effect
<1>3. CASE op.kind = "delete"
  <2>1. c[2] \in Erasable
    BY <1>3 DEF Sane
  <2>2. Erase(tab, c, op.time) \in Table /\ AsRecent(Erase(tab, c, op.time), tab)
    BY <1>0, <2>1, EraseAsRecent
  <2> QED BY <1>3, <2>2 DEF Effect
<1>4. CASE op.kind = "register"
  BY <1>0, <1>1, <1>4, SignUpAsRecent DEF Effect
<1>5. CASE op.kind = "logout"
  BY <1>0, <1>1, <1>5, LogOutAsRecent DEF Effect
<1>6. CASE op.kind = "putemail"
  BY <1>0, <1>1, <1>6, SendMailAsRecent DEF Effect
<1>7. CASE op.kind = "deleteemail"
  BY <1>0, <1>7, DeleteMailAsRecent DEF Effect
<1>8. CASE op.kind = "none"
  BY <1>1, <1>8 DEF Effect
<1> QED BY <1>0, <1>2, <1>3, <1>4, <1>5, <1>6, <1>7, <1>8 DEF Kind

LEMMA ReplayAsRecent ==
    ASSUME NEW tab \in Table, NEW op \in Op, Sane(op)
    PROVE  ReplayEffect(tab, op) \in Table /\ AsRecent(ReplayEffect(tab, op), tab)
BY EffectAsRecent, AsRecentReflexive DEF ReplayEffect

(* What clients ask for.                                                    *)
LEMMA RequestType ==
    ASSUME NEW m \in Time, NEW op \in Requests(m)
    PROVE  op \in Op /\ op.time = m /\ op.kind # "none" /\ Sane(op)
<1>1. 1..(m - 1) \subseteq Time
  BY KvAssumption DEF Time
<1>2. PasswordCol \in Column /\ SidCol \in Column /\ Root \in Val /\ 0 \in Time
  BY ColumnTypes, KvAssumption DEF Time
<1>3. SidCol \in Erasable
  BY DEF Erasable
<1> USE DEF Command, Op, Kind, Sane
<1>4. CASE \E u \in User, v \in Val, col \in {PasswordCol, SidCol} : op = PutOp(u, col, v, m)
  BY <1>2, <1>4 DEF PutOp
<1>5. CASE \E u \in User, v1, v2 \in Val : op = CputOp(u, PasswordCol, v1, v2, m)
  BY <1>2, <1>5 DEF CputOp
<1>6. CASE \E u \in User : op = DeleteOp(u, SidCol, m)
  BY <1>2, <1>3, <1>6 DEF DeleteOp
<1>7. CASE \E u \in User : op = RegisterOp(u, Root, m) \/ op = LogoutOp(u, m)
  BY <1>2, <1>7 DEF RegisterOp, LogoutOp
<1>8. CASE \E u \in User, v \in Val : op = MailOp(u, v, m)
  BY <1>2, <1>8 DEF MailOp
<1>9. CASE \E u \in User, id \in 1..(m - 1) : op = DeleteMailOp(u, id, m)
  BY <1>1, <1>2, <1>9 DEF DeleteMailOp
<1> QED
  <2>1. op \in PutRequests(m) \cup CputRequests(m) \cup DeleteRequests(m)
              \cup AccountRequests(m) \cup MailRequests(m) \cup UnmailRequests(m)
    BY DEF Requests
  <2> QED
    BY <1>4, <1>5, <1>6, <1>7, <1>8, <1>9, <2>1
       DEF PutRequests, CputRequests, DeleteRequests, AccountRequests, MailRequests,
           UnmailRequests

(* A put is in the table it makes, and in every more recent one.            *)
LEMMA ReflectsStays ==
    ASSUME NEW old \in Table, NEW new \in Table, AsRecent(new, old),
           NEW op \in Op, Lasting(op), Reflects(old, op)
    PROVE  Reflects(new, op)
<1> DEFINE c == <<op.user, op.col>>
<1>1. c \in Cell /\ c[2] \notin Erasable /\ op.time \in Time
  BY DEF Op, Cell, Lasting
<1>2. new[c].time \in Time /\ old[c].time \in Time
  BY <1>1, EntryShape
<1>3. new[c].time >= old[c].time /\ Present(new, c) /\ old[c].time >= op.time
  BY <1>1 DEF AsRecent, Reflects
<1> QED BY <1>1, <1>2, <1>3, KvAssumption DEF Reflects, Time

LEMMA PutReflects ==
    ASSUME NEW tab \in Table, NEW op \in Op, Lasting(op)
    PROVE  Reflects(Effect(tab, op), op) /\ Reflects(ReplayEffect(tab, op), op)
<1> DEFINE c == <<op.user, op.col>>
<1>1. /\ c \in Cell /\ op.time \in Time /\ op.val \in Value /\ op.kind = "put"
  BY DEF Op, Cell, Lasting, Value
<1>2. Effect(tab, op) = Insert(tab, c, op.val, op.time)
  BY <1>1 DEF Effect
<1>3. ReplayEffect(tab, op) = Effect(tab, op)
  BY <1>1 DEF ReplayEffect
<1> QED BY <1>1, <1>2, <1>3, PutFacts DEF Reflects

-----------------------------------------------------------------------------
(* What the commands do to mailboxes.                                       *)

LEMMA ColumnsDiffer ==
    /\ \A id \in Time : MailCol(id) \notin NamedCol
    /\ \A id, j \in Time : MailCol(id) = MailCol(j) => id = j
    /\ MailboxCol \notin {PasswordCol, SidCol, CurDirCol, RootCol}
BY DEF NamedCol, MailCol, MailboxCol, PasswordCol, SidCol, CurDirCol, RootCol

LEMMA CellTypes ==
    ASSUME NEW u \in User
    PROVE  /\ \A col \in NamedCol : <<u, col>> \in Cell
           /\ \A id \in Time : <<u, MailCol(id)>> \in Cell
BY DEF Cell, Column

LEMMA PutCells ==
    ASSUME NEW tab \in Table, NEW c \in Cell, NEW v \in Value, NEW m \in Time
    PROVE  /\ \A d \in Cell \ {c} : Insert(tab, c, v, m)[d] = tab[d]
           /\ tab[c].time <= m => /\ Insert(tab, c, v, m)[c].val = v
                                     /\ Insert(tab, c, v, m)[c].time = m
BY InsertIs

\* The mailboxes and the mails of two tables are the same.
SameMail(new, old) ==
    \A u \in User :
        /\ new[<<u, MailboxCol>>] = old[<<u, MailboxCol>>]
        /\ \A id \in Time : new[<<u, MailCol(id)>>] = old[<<u, MailCol(id)>>]

LEMMA SameMailFacts ==
    ASSUME NEW new, NEW old, SameMail(new, old)
    PROVE  \A u \in User, id \in Time :
              /\ HasMail(new, u, id) <=> HasMail(old, u, id)
              /\ Present(new, <<u, MailCol(id)>>) <=> Present(old, <<u, MailCol(id)>>)
BY DEF SameMail, HasMail, Inbox, Present

LEMMA OtherColumns ==
    ASSUME NEW tab \in Table, NEW u \in User, NEW v \in Value, NEW m \in Time,
           NEW col \in NamedCol \ {MailboxCol}
    PROVE  SameMail(Insert(tab, <<u, col>>, v, m), tab) /\ SameMail(Erase(tab, <<u, col>>, m), tab)
<1>1. <<u, col>> \in Cell
  BY CellTypes
<1>2. \A w \in User : <<w, MailboxCol>> \in Cell /\ <<w, MailboxCol>> # <<u, col>>
  BY CellTypes DEF NamedCol
<1>3. \A w \in User, id \in Time :
         <<w, MailCol(id)>> \in Cell /\ <<w, MailCol(id)>> # <<u, col>>
  BY CellTypes, ColumnsDiffer
<1>4. \A d \in Cell : d # <<u, col>> => Insert(tab, <<u, col>>, v, m)[d] = tab[d]
  BY <1>1, InsertIs
<1>5. \A d \in Cell : d # <<u, col>> => Erase(tab, <<u, col>>, m)[d] = tab[d]
  BY <1>1, EraseFacts
<1>6. SameMail(Insert(tab, <<u, col>>, v, m), tab)
  BY <1>2, <1>3, <1>4, Zenon DEF SameMail
<1>7. SameMail(Erase(tab, <<u, col>>, m), tab)
  BY <1>2, <1>3, <1>5, Zenon DEF SameMail
<1> QED BY <1>6, <1>7

LEMMA SameMailTransitive ==
    ASSUME NEW t1, NEW t2, NEW t3, SameMail(t2, t1), SameMail(t3, t2)
    PROVE  SameMail(t3, t1)
BY DEF SameMail

\* Without leaves everything else in its order.
LEMMA WithoutIs ==
    ASSUME NEW s \in Seq(Time), NEW id \in Time, \E i \in DOMAIN s : s[i] = id
    PROVE  /\ Len(s) \in Nat \ {0} /\ DOMAIN s = 1..Len(s)
           /\ DOMAIN Without(s, id) = 1..(Len(s) - 1)
           /\ \E first \in 1..Len(s) :
                 /\ s[first] = id
                 /\ \A k \in 1..(Len(s) - 1) :
                       Without(s, id)[k] = IF k < first THEN s[k] ELSE s[k + 1]
<1> DEFINE at == {i \in DOMAIN s : s[i] = id}
           first == Ext!Min(at)
           n == Len(s)
<1>1. first \in at
  <2>1. at \subseteq Nat /\ at # {}
    OBVIOUS
  <2>2. PICK i \in at : \A k \in at : i <= k
    <3> HIDE DEF at
    <3> QED BY <2>1, LeastNat
  <2> QED BY <2>2 DEF Ext!Min
<1>2. Without(s, id) = Ext!RemoveAt(s, first)
  BY DEF Without
<1>3. first \in 1..n /\ s[first] = id /\ n \in Nat \ {0} /\ DOMAIN s = 1..n
  BY <1>1
<1> HIDE DEF first, at
<1> DEFINE front == SubSeq(s, 1, first - 1)
           back == SubSeq(s, first + 1, n)
<1>4. /\ front \in Seq(Time) /\ Len(front) = first - 1
      /\ \A k \in 1..(first - 1) : front[k] = s[k]
  <2>1. /\ SubSeq(s, 1, first - 1) \in Seq(Time)
        /\ Len(SubSeq(s, 1, first - 1)) =
              IF 1 <= first - 1 THEN (first - 1) - 1 + 1 ELSE 0
        /\ \A k \in 1..((first - 1) - 1 + 1) : SubSeq(s, 1, first - 1)[k] = s[1 + k - 1]
    BY <1>3, SubSeqProperties
  <2>2. /\ 1 <= first - 1 => (first - 1) - 1 + 1 = first - 1
        /\ ~(1 <= first - 1) => first - 1 = 0
        /\ \A k \in 1..(first - 1) : /\ k \in 1..((first - 1) - 1 + 1)
                                    /\ 1 + k - 1 = k
    BY <1>3
  <2> QED BY <2>1, <2>2
<1>5. /\ back \in Seq(Time) /\ Len(back) = n - first
      /\ \A k \in 1..(n - first) : back[k] = s[first + k]
  <2>1. /\ SubSeq(s, first + 1, n) \in Seq(Time)
        /\ Len(SubSeq(s, first + 1, n)) = IF first + 1 <= n THEN n - (first + 1) + 1 ELSE 0
        /\ \A k \in 1..(n - (first + 1) + 1) :
              SubSeq(s, first + 1, n)[k] = s[(first + 1) + k - 1]
    BY <1>3, SubSeqProperties
  <2>2. /\ first + 1 <= n => n - (first + 1) + 1 = n - first
        /\ ~(first + 1 <= n) => n - first = 0
        /\ \A k \in 1..(n - first) : /\ k \in 1..(n - (first + 1) + 1)
                                    /\ (first + 1) + k - 1 = first + k
    <3> HIDE DEF n
    <3> QED BY <1>3
  <2>3. back \in Seq(Time) /\ Len(back) = n - first
    BY <2>1, <2>2
  <2>4. ASSUME NEW k \in 1..(n - first) PROVE back[k] = s[first + k]
    BY <2>1, <2>2
  <2> QED BY <2>3, <2>4
<1> HIDE DEF front, back, n
<1>6. Without(s, id) = front \o back
  BY <1>2 DEF Ext!RemoveAt, front, back, n
<1>7. Len(front) + Len(back) = n - 1
  BY <1>3, <1>4, <1>5
<1>8. DOMAIN (front \o back) = 1..(n - 1)
  <2>1. /\ front \o back \in Seq(Time)
        /\ Len(front \o back) = Len(front) + Len(back)
    BY <1>4, <1>5, ConcatProperties
  <2>2. DOMAIN (front \o back) = 1..Len(front \o back)
    BY <2>1
  <2> QED BY <1>7, <2>1, <2>2
<1>9. \A k \in 1..(n - 1) :
         (front \o back)[k] = IF k <= first - 1 THEN front[k] ELSE back[k - (first - 1)]
  <2>1. \A k \in 1..(Len(front) + Len(back)) :
           (front \o back)[k] = IF k <= Len(front) THEN front[k] ELSE back[k - Len(front)]
    BY <1>4, <1>5, ConcatProperties
  <2> QED BY <1>4, <1>7, <2>1
<1>10. ASSUME NEW k \in 1..(n - 1)
       PROVE  (front \o back)[k] = IF k < first THEN s[k] ELSE s[k + 1]
  <2>1. CASE k < first
    <3>1. k \in 1..(first - 1) /\ k <= first - 1
      BY <1>3, <2>1
    <3> QED BY <1>4, <1>9, <2>1, <3>1
  <2>2. CASE ~(k < first)
    <3>1. /\ k - (first - 1) \in 1..(n - first) /\ ~(k <= first - 1)
          /\ first + (k - (first - 1)) = k + 1
      BY <1>3, <2>2
    <3> QED BY <1>5, <1>9, <2>2, <3>1
  <2> QED BY <2>1, <2>2
<1> QED BY <1>3, <1>6, <1>8, <1>10 DEF n

LEMMA WithoutKeeps ==
    ASSUME NEW s \in Seq(Time), NEW id \in Time, \E i \in DOMAIN s : s[i] = id,
           NEW j \in Time, j # id, \E i \in DOMAIN s : s[i] = j
    PROVE  \E i \in DOMAIN Without(s, id) : Without(s, id)[i] = j
<1> DEFINE n == Len(s)
           r == Without(s, id)
<1>1. n \in Nat \ {0} /\ DOMAIN s = 1..n /\ DOMAIN r = 1..(n - 1)
  BY WithoutIs
<1>2. PICK first \in 1..n : /\ s[first] = id
                            /\ \A k \in 1..(n - 1) :
                                  r[k] = IF k < first THEN s[k] ELSE s[k + 1]
  BY WithoutIs
<1> HIDE DEF n, r
<1>3. PICK i \in 1..n : s[i] = j
  BY <1>1
<1>4. CASE i < first
  <2>1. i \in 1..(n - 1)
    BY <1>1, <1>4
  <2> QED BY <1>1, <1>2, <1>3, <1>4, <2>1 DEF r
<1>5. CASE i > first
  <2>1. i - 1 \in 1..(n - 1) /\ ~(i - 1 < first) /\ (i - 1) + 1 = i
    BY <1>1, <1>5
  <2> QED BY <1>1, <1>2, <1>3, <2>1 DEF r
<1> QED BY <1>1, <1>2, <1>3, <1>4, <1>5

LEMMA WithoutInjective ==
    ASSUME NEW s \in Seq(Time), NEW id \in Time, \E i \in DOMAIN s : s[i] = id
    PROVE  /\ Ext!IsInjective(s) => Ext!IsInjective(Without(s, id))
           /\ \A k \in DOMAIN Without(s, id) : \E i \in DOMAIN s : s[i] = Without(s, id)[k]
<1> DEFINE n == Len(s)
           r == Without(s, id)
<1>1. n \in Nat \ {0} /\ DOMAIN s = 1..n /\ DOMAIN r = 1..(n - 1)
  BY WithoutIs
<1>2. PICK first \in 1..n : /\ s[first] = id
                            /\ \A k \in 1..(n - 1) :
                                  r[k] = IF k < first THEN s[k] ELSE s[k + 1]
  BY WithoutIs
<1>3. Ext!IsInjective(s) => \A i, j \in 1..n : s[i] = s[j] => i = j
  BY <1>1 DEF Ext!IsInjective
<1> HIDE DEF n, r
<1> DEFINE from(k) == IF k < first THEN k ELSE k + 1
<1>4. ASSUME NEW k \in 1..(n - 1) PROVE from(k) \in 1..n /\ r[k] = s[from(k)]
  BY <1>1, <1>2
<1>5. \A k, l \in 1..(n - 1) : from(k) = from(l) => k = l
  BY <1>1, <1>2
<1> HIDE DEF from
<1>6. Ext!IsInjective(s) => \A k, l \in 1..(n - 1) : r[k] = r[l] => k = l
  BY <1>3, <1>4, <1>5
<1>7. Ext!IsInjective(s) => Ext!IsInjective(r)
  BY <1>1, <1>6 DEF Ext!IsInjective
<1> QED BY <1>1, <1>4, <1>7 DEF r

\* No cell is newer than n.
Timely(tab, n) == \A c \in Cell : tab[c].time <= n

LEMMA PutTimely ==
    ASSUME NEW tab \in Table, NEW c \in Cell, NEW v \in Value, NEW m \in Time,
           NEW n \in Time, m <= n, Timely(tab, n)
    PROVE  /\ Insert(tab, c, v, m) \in Table
           /\ Timely(Insert(tab, c, v, m), n)
<1>1. Insert(tab, c, v, m) \in Table
  BY PutFacts
<1>2. \A d \in Cell : d # c => Insert(tab, c, v, m)[d] = tab[d]
  BY PutCells
<1>3. Insert(tab, c, v, m)[c].time <= n
  <2>1. CASE tab[c].time <= m
    BY <2>1, PutCells
  <2>2. CASE ~(tab[c].time <= m)
    BY <2>2, InsertIs DEF Timely
  <2> QED BY <2>1, <2>2
<1> QED BY <1>1, <1>2, <1>3 DEF Timely

LEMMA EraseTimely ==
    ASSUME NEW tab \in Table, NEW c \in Cell, NEW m \in Time, NEW n \in Time, Timely(tab, n)
    PROVE  /\ Erase(tab, c, m) \in Table
           /\ Timely(Erase(tab, c, m), n)
<1>1. 0 <= n
  BY KvAssumption DEF Time
<1>2. Erase(tab, c, m)[c] \in {tab[c], NoEntry}
  BY Places DEF Erase, Table
<1> QED BY <1>1, <1>2, EraseFacts DEF Timely, NoEntry

LEMMA SignUpTimely ==
    ASSUME NEW tab \in Table, NEW u \in User, NEW pwd \in Val, NEW m \in Time,
           NEW n \in Time, m <= n, Timely(tab, n)
    PROVE  SignUp(tab, u, pwd, m) \in Table /\ Timely(SignUp(tab, u, pwd, m), n)
<1> DEFINE p1 == Insert(tab, <<u, PasswordCol>>, pwd, m)
           p2 == Insert(p1, <<u, CurDirCol>>, Root, m)
           p3 == Insert(p2, <<u, RootCol>>, Root, m)
           p4 == Insert(p3, <<u, MailboxCol>>, <<>>, m)
<1>0. /\ <<u, PasswordCol>> \in Cell /\ <<u, CurDirCol>> \in Cell
      /\ <<u, RootCol>> \in Cell /\ <<u, MailboxCol>> \in Cell
      /\ pwd \in Value /\ Root \in Value /\ <<>> \in Value
  BY ColumnTypes, KvAssumption DEF Cell, Value
<1>1. p1 \in Table /\ Timely(p1, n)
  BY <1>0, PutTimely
<1> HIDE DEF p1
<1>2. p2 \in Table /\ Timely(p2, n)
  BY <1>0, <1>1, PutTimely
<1> HIDE DEF p2
<1>3. p3 \in Table /\ Timely(p3, n)
  BY <1>0, <1>2, PutTimely
<1> HIDE DEF p3
<1>4. p4 \in Table /\ Timely(p4, n)
  BY <1>0, <1>3, PutTimely
<1> QED BY <1>4 DEF SignUp, p3, p2, p1

\* A new account: nobody's mail is touched, and there is none of its own.
LEMMA SignUpMails ==
    ASSUME NEW tab \in Table, NEW u \in User, NEW pwd \in Val, NEW m \in Time,
           ~HasUser(tab, u)
    PROVE  \A w \in User, id \in Time :
              /\ HasMail(tab, w, id) => HasMail(SignUp(tab, u, pwd, m), w, id)
              /\ Present(SignUp(tab, u, pwd, m), <<w, MailCol(id)>>)
                    => Present(tab, <<w, MailCol(id)>>) /\ w # u
<1> DEFINE p1 == Insert(tab, <<u, PasswordCol>>, pwd, m)
           p2 == Insert(p1, <<u, CurDirCol>>, Root, m)
           p3 == Insert(p2, <<u, RootCol>>, Root, m)
           p4 == Insert(p3, <<u, MailboxCol>>, <<>>, m)
<1>0. /\ <<u, PasswordCol>> \in Cell /\ <<u, CurDirCol>> \in Cell
      /\ <<u, RootCol>> \in Cell /\ <<u, MailboxCol>> \in Cell
      /\ pwd \in Value /\ Root \in Value /\ <<>> \in Value
      /\ {PasswordCol, CurDirCol, RootCol} \subseteq NamedCol \ {MailboxCol}
  BY ColumnTypes, KvAssumption, ColumnsDiffer DEF Cell, Value, NamedCol
<1>1. p1 \in Table /\ SameMail(p1, tab)
  BY <1>0, PutFacts, OtherColumns
<1> HIDE DEF p1
<1>2. p2 \in Table /\ SameMail(p2, p1)
  BY <1>0, <1>1, PutFacts, OtherColumns
<1> HIDE DEF p2
<1>3. p3 \in Table /\ SameMail(p3, p2)
  BY <1>0, <1>2, PutFacts, OtherColumns
<1> HIDE DEF p3
<1>4. SameMail(p3, tab)
  BY <1>1, <1>2, <1>3, SameMailTransitive
<1>5. \A d \in Cell : d # <<u, MailboxCol>> => p4[d] = p3[d]
  BY <1>0, <1>3, PutCells
<1>6. SignUp(tab, u, pwd, m) = p4
  BY DEF SignUp, p3, p2, p1
<1> HIDE DEF p4
<1>7. ASSUME NEW w \in User, NEW id \in Time
      PROVE  /\ HasMail(tab, w, id) => HasMail(p4, w, id)
             /\ Present(p4, <<w, MailCol(id)>>) => Present(tab, <<w, MailCol(id)>>) /\ w # u
  <2>1. /\ <<w, MailCol(id)>> \in Cell /\ <<w, MailCol(id)>> # <<u, MailboxCol>>
        /\ <<w, MailboxCol>> \in Cell
    BY CellTypes, ColumnsDiffer DEF NamedCol
  <2>2. p4[<<w, MailCol(id)>>] = tab[<<w, MailCol(id)>>]
    BY <1>4, <1>5, <2>1 DEF SameMail
  <2>3. ~Present(tab, <<u, MailCol(id)>>) /\ ~Present(tab, <<u, MailboxCol>>)
    BY ColumnTypes DEF HasUser, HasColumn
  <2>4. CASE w = u
    <3>1. Inbox(tab, u) = <<>>
      BY <2>3, KvAssumption DEF Inbox, Present, Time
    <3> QED BY <2>2, <2>3, <2>4, <3>1 DEF HasMail, Present
  <2>5. CASE w # u
    <3>1. p4[<<w, MailboxCol>>] = tab[<<w, MailboxCol>>]
      BY <1>4, <1>5, <2>1, <2>5 DEF SameMail
    <3> QED BY <2>2, <2>5, <3>1 DEF HasMail, Inbox, Present
  <2> QED BY <2>4, <2>5
<1> QED BY <1>6, <1>7

\* A mail that is sent is in the mailbox, and takes no other away.
LEMMA SendMailFacts ==
    ASSUME NEW tab \in Table, NEW u \in User, NEW body \in Val, NEW m \in Time,
           NEW n \in Time, m <= n, Timely(tab, n), Timely(tab, m)
    PROVE  /\ SendMail(tab, u, body, m) \in Table
           /\ Timely(SendMail(tab, u, body, m), n)
           /\ HasMail(SendMail(tab, u, body, m), u, m)
           /\ \A w \in User, id \in Time :
                 /\ HasMail(tab, w, id) => HasMail(SendMail(tab, u, body, m), w, id)
                 /\ Present(SendMail(tab, u, body, m), <<w, MailCol(id)>>)
                       => Present(tab, <<w, MailCol(id)>>) \/ (w = u /\ id = m)
<1> DEFINE box == <<u, MailboxCol>>
           s == Inbox(tab, u)
           b == Insert(tab, <<u, MailCol(m)>>, body, m)
           p == Insert(b, box, Append(s, m), m)
<1>0. /\ <<u, MailCol(m)>> \in Cell /\ box \in Cell /\ body \in Value /\ s \in Seq(Time)
      /\ Append(s, m) \in Value /\ Append(s, m) \in Seq(Time)
      /\ box # <<u, MailCol(m)>>
  BY ColumnTypes, ColumnsDiffer, InboxType, AppendProperties DEF Cell, Value, NamedCol
<1> HIDE DEF s, box
<1>1. b \in Table /\ Timely(b, n) /\ \A d \in Cell : d # <<u, MailCol(m)>> => b[d] = tab[d]
  <2>1. b \in Table /\ Timely(b, n)
    BY <1>0, PutTimely
  <2>2. \A d \in Cell \ {<<u, MailCol(m)>>} : b[d] = tab[d]
    BY <1>0, PutCells
  <2> QED BY <2>1, <2>2
<1> HIDE DEF b
<1>2. b[box].time <= m
  BY <1>0, <1>1 DEF Timely
<1>3. /\ p \in Table /\ Timely(p, n)
      /\ \A d \in Cell : d # box => p[d] = b[d]
      /\ p[box].val = Append(s, m)
  <2> DEFINE longer == Append(s, m)
  <2>1. longer \in Value
    BY <1>0
  <2> HIDE DEF longer
  <2>2. Insert(b, box, longer, m) \in Table /\ Timely(Insert(b, box, longer, m), n)
    BY <1>0, <1>1, <2>1, PutTimely
  <2>3. /\ \A d \in Cell \ {box} : Insert(b, box, longer, m)[d] = b[d]
        /\ Insert(b, box, longer, m)[box].val = longer
    BY <1>0, <1>1, <1>2, <2>1, PutCells
  <2> QED BY <2>2, <2>3 DEF longer
<1>4. SendMail(tab, u, body, m) = p
  BY DEF SendMail, b, s, box
<1> HIDE DEF p
<1>5. Inbox(p, u) = Append(s, m)
  BY <1>0, <1>3 DEF Inbox, box
<1>6. HasMail(p, u, m)
  <2>1. /\ DOMAIN Append(s, m) = 1..(Len(s) + 1) /\ Append(s, m)[Len(s) + 1] = m
        /\ Len(s) + 1 \in 1..(Len(s) + 1)
    BY <1>0
  <2> QED BY <1>5, <2>1 DEF HasMail
<1>7. ASSUME NEW w \in User, NEW id \in Time
      PROVE  /\ HasMail(tab, w, id) => HasMail(p, w, id)
             /\ Present(p, <<w, MailCol(id)>>)
                   => Present(tab, <<w, MailCol(id)>>) \/ (w = u /\ id = m)
  <2>1. /\ <<w, MailCol(id)>> \in Cell /\ <<w, MailCol(id)>> # box
        /\ <<w, MailboxCol>> \in Cell /\ <<w, MailboxCol>> # <<u, MailCol(m)>>
        /\ <<w, MailCol(id)>> = <<u, MailCol(m)>> => w = u /\ id = m
        /\ w # u => <<w, MailboxCol>> # box
    BY CellTypes, ColumnsDiffer DEF NamedCol, box
  <2>2. CASE w = u
    <3>1. ASSUME NEW i \in DOMAIN s, s[i] = id
          PROVE  \E k \in DOMAIN Append(s, m) : Append(s, m)[k] = id
      <4>1. i \in DOMAIN Append(s, m) /\ Append(s, m)[i] = s[i]
        BY <1>0, <3>1
      <4> QED BY <3>1, <4>1
    <3>2. HasMail(tab, w, id) => HasMail(p, w, id)
      BY <1>5, <2>2, <3>1 DEF HasMail, s
    <3> QED BY <1>1, <1>3, <2>1, <3>2 DEF Present
  <2>3. CASE w # u
    <3>1. p[<<w, MailboxCol>>] = tab[<<w, MailboxCol>>]
      BY <1>1, <1>3, <2>1, <2>3
    <3>2. p[<<w, MailCol(id)>>] = tab[<<w, MailCol(id)>>]
      BY <1>1, <1>3, <2>1, <2>3
    <3> QED BY <3>1, <3>2 DEF HasMail, Inbox, Present
  <2> QED BY <2>2, <2>3
<1> QED BY <1>3, <1>4, <1>6, <1>7

\* A mail that is deleted is gone, its body included; no other one is.
LEMMA DeleteMailFacts ==
    ASSUME NEW tab \in Table, NEW u \in User, NEW id \in Time, NEW m \in Time,
           NEW n \in Time, m <= n, Timely(tab, n), Timely(tab, m), HasMail(tab, u, id)
    PROVE  /\ DeleteMail(tab, u, id, m) \in Table
           /\ Timely(DeleteMail(tab, u, id, m), n)
           /\ \A w \in User, j \in Time :
                 /\ HasMail(tab, w, j) /\ ~(w = u /\ j = id)
                       => HasMail(DeleteMail(tab, u, id, m), w, j)
                 /\ Present(DeleteMail(tab, u, id, m), <<w, MailCol(j)>>)
                       => Present(tab, <<w, MailCol(j)>>) /\ ~(w = u /\ j = id)
<1> DEFINE box == <<u, MailboxCol>>
           body == <<u, MailCol(id)>>
           s == Inbox(tab, u)
           rest == Without(s, id)
           e == Erase(tab, body, m)
           p == Insert(e, box, rest, m)
<1>0. /\ body \in Cell /\ box \in Cell /\ s \in Seq(Time) /\ box # body
      /\ \E i \in DOMAIN s : s[i] = id
  BY ColumnTypes, ColumnsDiffer, InboxType DEF Cell, Value, NamedCol, HasMail
<1> HIDE DEF s, box, body
<1>1. rest \in Seq(Time) /\ rest \in Value
  BY <1>0, WithoutType DEF Value
<1>2. /\ e \in Table /\ Timely(e, n) /\ \A d \in Cell : d # body => e[d] = tab[d]
      /\ ~Present(e, body)
  <2>1. ~Present(e, body)
    BY <1>0, Places DEF Timely, Erase, Present, NoEntry, Table
  <2> QED BY <1>0, <2>1, EraseTimely, EraseFacts
<1>3. e[box].time <= m
  BY <1>0, <1>2 DEF Timely
<1> HIDE DEF e, rest
<1>4. /\ p \in Table /\ Timely(p, n)
      /\ \A d \in Cell : d # box => p[d] = e[d]
      /\ p[box].val = rest
  BY <1>0, <1>1, <1>2, <1>3, PutTimely, PutCells
<1>5. DeleteMail(tab, u, id, m) = p
  BY DEF DeleteMail, e, rest, s, box, body
<1> HIDE DEF p
<1>6. Inbox(p, u) = rest
  BY <1>1, <1>4 DEF Inbox, box
<1>7. ASSUME NEW w \in User, NEW j \in Time
      PROVE  /\ HasMail(tab, w, j) /\ ~(w = u /\ j = id) => HasMail(p, w, j)
             /\ Present(p, <<w, MailCol(j)>>)
                   => Present(tab, <<w, MailCol(j)>>) /\ ~(w = u /\ j = id)
  <2>1. /\ <<w, MailCol(j)>> \in Cell /\ <<w, MailCol(j)>> # box
        /\ <<w, MailboxCol>> \in Cell /\ <<w, MailboxCol>> # body
        /\ <<w, MailCol(j)>> = body <=> (w = u /\ j = id)
        /\ w # u => <<w, MailboxCol>> # box
    BY CellTypes, ColumnsDiffer DEF NamedCol, box, body
  <2>2. Present(p, <<w, MailCol(j)>>)
           => Present(tab, <<w, MailCol(j)>>) /\ ~(w = u /\ j = id)
    BY <1>2, <1>4, <2>1 DEF Present
  <2>3. CASE w = u
    <3>1. HasMail(tab, w, j) /\ j # id => \E i \in DOMAIN rest : rest[i] = j
      BY <1>0, <2>3, WithoutKeeps DEF HasMail, rest, s
    <3> QED BY <1>6, <2>2, <2>3, <3>1 DEF HasMail
  <2>4. CASE w # u
    <3>1. p[<<w, MailboxCol>>] = tab[<<w, MailboxCol>>]
      BY <1>2, <1>4, <2>1, <2>4
    <3> QED BY <2>2, <3>1 DEF HasMail, Inbox
  <2> QED BY <2>3, <2>4
<1> QED BY <1>4, <1>5, <1>7

\* What a command may do to the list of a mailbox.
LEMMA PutBox ==
    ASSUME NEW tab \in Table, NEW u \in User, NEW v \in Seq(Time), NEW m \in Time,
           NEW w \in User
    PROVE  LET new == Insert(tab, <<u, MailboxCol>>, v, m)
           IN  Inbox(new, w) = Inbox(tab, w) \/ (w = u /\ Inbox(new, w) = v)
<1> DEFINE new == Insert(tab, <<u, MailboxCol>>, v, m)
<1>1. /\ <<u, MailboxCol>> \in Cell /\ <<w, MailboxCol>> \in Cell /\ v \in Value
      /\ <<w, MailboxCol>> = <<u, MailboxCol>> => w = u
  BY CellTypes DEF NamedCol, Value
<1>2. \/ new[<<w, MailboxCol>>] = tab[<<w, MailboxCol>>]
      \/ w = u /\ new[<<w, MailboxCol>>].val = v
  BY <1>1, InsertIs
<1> QED BY <1>2 DEF Inbox

LEMMA SameInbox ==
    ASSUME NEW new, NEW old, SameMail(new, old), NEW u \in User
    PROVE  Inbox(new, u) = Inbox(old, u)
BY DEF SameMail, Inbox

\* A mail has a column of its own.
LEMMA BodyInbox ==
    ASSUME NEW new \in Table, NEW old \in Table, NEW u \in User, NEW id \in Time,
           \A d \in Cell \ {<<u, MailCol(id)>>} : new[d] = old[d], NEW w \in User
    PROVE  Inbox(new, w) = Inbox(old, w)
<1>1. <<w, MailboxCol>> \in Cell /\ <<w, MailboxCol>> # <<u, MailCol(id)>>
  BY CellTypes, ColumnsDiffer DEF NamedCol
<1> QED BY <1>1 DEF Inbox

LEMMA EffectInbox ==
    ASSUME NEW tab \in Table, NEW op \in Op, Harmless(op), NEW w \in User
    PROVE  LET old == Inbox(tab, w)
               new == Inbox(Effect(tab, op), w)
           IN  \/ new = old
               \/ new = <<>>
               \/ op.kind = "putemail" /\ w = op.user /\ new = Append(old, op.time)
               \/ HasMail(tab, w, op.id) /\ new = Without(old, op.id)
<1> DEFINE u == op.user
           c == <<u, op.col>>
           m == op.time
           Goal(new) == \/ Inbox(new, w) = Inbox(tab, w)
                        \/ Inbox(new, w) = <<>>
                        \/ /\ op.kind = "putemail" /\ w = u
                           /\ Inbox(new, w) = Append(Inbox(tab, w), m)
                        \/ /\ HasMail(tab, w, op.id)
                           /\ Inbox(new, w) = Without(Inbox(tab, w), op.id)
<1>0. /\ u \in User /\ op.val \in Val /\ op.val \in Value /\ m \in Time /\ op.id \in Time
      /\ op.kind \in Kind /\ Root \in Val /\ Root \in Value /\ <<>> \in Seq(Time)
  BY KvAssumption DEF Op, Value
<1> SUFFICES Goal(Effect(tab, op))
  OBVIOUS
<1>1. ASSUME NEW new, SameMail(new, tab) PROVE Goal(new)
  BY <1>1, SameInbox
<1>2. SameMail(tab, tab)
  BY DEF SameMail
<1>3. CASE op.kind \in {"put", "cput", "delete"}
  <2>1. op.col \in NamedCol \ {MailboxCol}
    BY <1>3, ColumnsDiffer DEF Harmless, NamedCol
  <2>2. SameMail(Insert(tab, c, op.val, m), tab) /\ SameMail(Erase(tab, c, m), tab)
    BY <1>0, <2>1, OtherColumns
  <2>3. Effect(tab, op) \in {tab, Insert(tab, c, op.val, m), Erase(tab, c, m)}
    BY <1>3, Zenon DEF Effect
  <2> HIDE DEF Goal
  <2> QED BY <1>1, <1>2, <2>2, <2>3
<1>4. CASE op.kind = "logout"
  <2> DEFINE e == Erase(tab, <<u, SidCol>>, m)
  <2>1. {SidCol, CurDirCol} \subseteq NamedCol \ {MailboxCol} /\ <<u, SidCol>> \in Cell
    BY <1>0, ColumnsDiffer, CellTypes DEF NamedCol
  <2>2. e \in Table /\ SameMail(e, tab)
    BY <1>0, <2>1, EraseFacts, OtherColumns
  <2> HIDE DEF e
  <2>3. SameMail(Insert(e, <<u, CurDirCol>>, Root, m), e)
    BY <1>0, <2>1, <2>2, OtherColumns
  <2>4. SameMail(LogOut(tab, u, m), tab)
    BY <2>2, <2>3, SameMailTransitive DEF LogOut, e
  <2>5. Effect(tab, op) \in {tab, LogOut(tab, u, m)}
    BY <1>4, Zenon DEF Effect
  <2> HIDE DEF Goal
  <2> QED BY <1>1, <1>2, <2>4, <2>5
<1>5. CASE op.kind = "register"
  <2> DEFINE p1 == Insert(tab, <<u, PasswordCol>>, op.val, m)
             p2 == Insert(p1, <<u, CurDirCol>>, Root, m)
             p3 == Insert(p2, <<u, RootCol>>, Root, m)
  <2>1. /\ {PasswordCol, CurDirCol, RootCol} \subseteq NamedCol \ {MailboxCol}
        /\ <<u, PasswordCol>> \in Cell /\ <<u, CurDirCol>> \in Cell /\ <<u, RootCol>> \in Cell
    BY <1>0, ColumnsDiffer, CellTypes DEF NamedCol
  <2>2. p1 \in Table /\ SameMail(p1, tab)
    BY <1>0, <2>1, PutFacts, OtherColumns
  <2> HIDE DEF p1
  <2>3. p2 \in Table /\ SameMail(p2, p1)
    BY <1>0, <2>1, <2>2, PutFacts, OtherColumns
  <2> HIDE DEF p2
  <2>4. p3 \in Table /\ SameMail(p3, p2)
    BY <1>0, <2>1, <2>3, PutFacts, OtherColumns
  <2> HIDE DEF p3
  <2>5. Inbox(p3, w) = Inbox(tab, w)
    BY <2>2, <2>3, <2>4, SameMailTransitive, SameInbox
  <2>6. Goal(Insert(p3, <<u, MailboxCol>>, <<>>, m))
    BY <1>0, <2>4, <2>5, PutBox
  <2>7. SignUp(tab, u, op.val, m) = Insert(p3, <<u, MailboxCol>>, <<>>, m)
    BY DEF SignUp, p1, p2, p3
  <2>8. Effect(tab, op) \in {tab, SignUp(tab, u, op.val, m)}
    BY <1>5, Zenon DEF Effect
  <2> HIDE DEF Goal
  <2> QED BY <1>1, <1>2, <2>6, <2>7, <2>8
<1>6. CASE op.kind = "putemail"
  <2> DEFINE b == Insert(tab, <<u, MailCol(m)>>, op.val, m)
             longer == Append(Inbox(tab, u), m)
  <2>1. <<u, MailCol(m)>> \in Cell /\ longer \in Seq(Time)
    <3>1. Inbox(tab, u) \in Seq(Time)
      BY <1>0, InboxType
    <3>2. Append(Inbox(tab, u), m) \in Seq(Time)
      BY <1>0, <3>1, AppendProperties
    <3>3. <<u, MailCol(m)>> \in Cell
      BY <1>0, CellTypes
    <3> QED BY <3>2, <3>3
  <2>2. b \in Table /\ \A d \in Cell \ {<<u, MailCol(m)>>} : b[d] = tab[d]
    <3>1. b \in Table
      BY <1>0, <2>1, PutFacts
    <3>2. \A d \in Cell \ {<<u, MailCol(m)>>} : b[d] = tab[d]
      BY <1>0, <2>1, PutCells
    <3> QED BY <3>1, <3>2
  <2> HIDE DEF b
  <2>3. Inbox(b, w) = Inbox(tab, w)
    BY <1>0, <2>2, BodyInbox
  <2>4. \/ Inbox(Insert(b, <<u, MailboxCol>>, longer, m), w) = Inbox(b, w)
        \/ w = u /\ Inbox(Insert(b, <<u, MailboxCol>>, longer, m), w) = longer
    <3> HIDE DEF longer
    <3> QED BY <1>0, <2>1, <2>2, PutBox
  <2>5. Goal(SendMail(tab, u, op.val, m))
    BY <1>6, <2>3, <2>4 DEF SendMail, b
  <2>6. Effect(tab, op) \in {tab, SendMail(tab, u, op.val, m)}
    BY <1>6, Zenon DEF Effect
  <2> HIDE DEF Goal
  <2> QED BY <1>1, <1>2, <2>5, <2>6
<1>7. CASE op.kind = "deleteemail"
  <2> DEFINE e == Erase(tab, <<u, MailCol(op.id)>>, m)
             rest == Without(Inbox(tab, u), op.id)
  <2>1. <<u, MailCol(op.id)>> \in Cell
    BY <1>0, CellTypes
  <2>2. e \in Table /\ \A d \in Cell \ {<<u, MailCol(op.id)>>} : e[d] = tab[d]
    BY <1>0, <2>1, EraseFacts
  <2> HIDE DEF e
  <2>3. Inbox(e, w) = Inbox(tab, w)
    BY <1>0, <2>2, BodyInbox
  <2>4. CASE ~HasMail(tab, u, op.id)
    BY <1>7, <2>3, <2>4 DEF Effect, DeleteMail, e
  <2>5. CASE HasMail(tab, u, op.id)
    <3>1. rest \in Seq(Time)
      BY <1>0, <2>5, InboxType, WithoutType DEF HasMail
    <3>2. \/ Inbox(Insert(e, <<u, MailboxCol>>, rest, m), w) = Inbox(e, w)
          \/ w = u /\ Inbox(Insert(e, <<u, MailboxCol>>, rest, m), w) = rest
      <4> HIDE DEF rest
      <4> QED BY <1>0, <2>2, <3>1, PutBox
    <3>3. Effect(tab, op) = Insert(e, <<u, MailboxCol>>, rest, m)
      BY <1>7, <2>5 DEF Effect, DeleteMail, e
    <3> HIDE DEF rest
    <3> QED BY <2>3, <2>5, <3>2, <3>3 DEF rest
  <2> QED BY <2>4, <2>5
<1>8. CASE op.kind = "none"
  BY <1>8 DEF Effect
<1> QED BY <1>0, <1>3, <1>4, <1>5, <1>6, <1>7, <1>8 DEF Kind

\* A list without a mail lists nothing new.
LEMMA WithoutWithin ==
    ASSUME NEW s \in Seq(Time), NEW id \in Time, \E i \in DOMAIN s : s[i] = id,
           NEW k \in DOMAIN Without(s, id)
    PROVE  \E i \in DOMAIN s : Without(s, id)[k] = s[i]
<1> DEFINE n == Len(s)
           r == Without(s, id)
<1>1. n \in Nat \ {0} /\ DOMAIN s = 1..n /\ DOMAIN r = 1..(n - 1)
  BY WithoutIs
<1>2. PICK first \in 1..n : \A j \in 1..(n - 1) : r[j] = IF j < first THEN s[j] ELSE s[j + 1]
  BY WithoutIs
<1> HIDE DEF n, r
<1>3. k \in 1..(n - 1) /\ k \in 1..n /\ k + 1 \in 1..n
  <2>1. k \in 1..(n - 1)
    BY <1>1 DEF r
  <2> QED BY <1>1, <2>1
<1>4. r[k] = s[k] \/ r[k] = s[k + 1]
  BY <1>2, <1>3
<1> QED BY <1>1, <1>3, <1>4 DEF r

\* Clients write no column but the frontend's own.
LEMMA RequestHarmless ==
    ASSUME NEW m \in Time, NEW op \in Requests(m)
    PROVE  Harmless(op)
<1>1. op \in PutRequests(m) \cup CputRequests(m) \cup DeleteRequests(m)
             \cup AccountRequests(m) \cup MailRequests(m) \cup UnmailRequests(m)
  BY DEF Requests
<1> USE DEF Command, Harmless
<1>2. CASE \E u \in User, v \in Val, col \in {PasswordCol, SidCol} : op = PutOp(u, col, v, m)
  BY <1>2 DEF PutOp
<1>3. CASE \E u \in User, v1, v2 \in Val : op = CputOp(u, PasswordCol, v1, v2, m)
  BY <1>3 DEF CputOp
<1>4. CASE \E u \in User : op = DeleteOp(u, SidCol, m)
  BY <1>4 DEF DeleteOp
<1>5. CASE \E u \in User : op = RegisterOp(u, Root, m) \/ op = LogoutOp(u, m)
  BY <1>5 DEF RegisterOp, LogoutOp
<1>6. CASE \E u \in User, v \in Val : op = MailOp(u, v, m)
  BY <1>6 DEF MailOp
<1>7. CASE \E u \in User, id \in 1..(m - 1) : op = DeleteMailOp(u, id, m)
  BY <1>7 DEF DeleteMailOp
<1> QED
  BY <1>1, <1>2, <1>3, <1>4, <1>5, <1>6, <1>7
     DEF PutRequests, CputRequests, DeleteRequests, AccountRequests, MailRequests,
         UnmailRequests

=============================================================================
