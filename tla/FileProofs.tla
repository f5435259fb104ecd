----------------------------- MODULE FileProofs -----------------------------
(***************************************************************************)
(* The files of a user.                                                    *)
(*                                                                         *)
(* The tree (FileTree): the cells of a user's files are a tree, for any    *)
(* number of files, names and commands, any depth, any checkpoint interval *)
(* and any number of restarts: every command of kvs.cc keeps them one,     *)
(* kvs_rm with all its calls of itself, and a restart rebuilds the table.  *)
(* As README.md shows, this needs one connection for the user, no folder   *)
(* moved into itself, and no "logout" (which replay_log does not know) if  *)
(* there are restarts.                                                     *)
(*                                                                         *)
(* The contents (Transfer, the last part of the module): a plain file      *)
(* comes back as it was sent, whatever its length is to the size of a      *)
(* chunk, from every server of a group.  The two models share no state;    *)
(* the proofs share the lemmas on numbers, sequences and recursions.       *)
(***************************************************************************)
EXTENDS FileTree, Transfer, TLAPS, FiniteSetTheorems, SequenceTheorems, WellFoundedInduction

-----------------------------------------------------------------------------
(* Numbers and sequences.                                                   *)

LEMMA LeastNat ==
    ASSUME NEW S \in SUBSET Nat, S # {}
    PROVE  \E i \in S : \A j \in S : i <= j
<1> DEFINE less == {ss \in Nat \X Nat : ss[1] < ss[2]}
<1>1. IsWellFoundedOn(less, Nat)
  <2>1. OpToRel(<, Nat) = less
    BY DEF OpToRel
  <2> QED BY <2>1, NatLessThanWellFounded, Zenon
<1>2. PICK i \in S : \A j \in S : ~(<<j, i>> \in less)
  <2> HIDE DEF less
  <2> QED BY <1>1, WFMin
<1>3. ASSUME NEW j \in S PROVE i <= j
  <2>1. <<j, i>> \notin less
    BY <1>2
  <2>2. ~(j < i)
    BY <2>1
  <2> QED BY <2>2
<1> QED BY <1>3

\* A sequence without its element at p.
LEMMA RemoveAtIs ==
    ASSUME NEW S, NEW s \in Seq(S), NEW p \in DOMAIN s
    PROVE  /\ Len(s) \in Nat \ {0} /\ DOMAIN s = 1..Len(s)
           /\ Ext!RemoveAt(s, p) \in Seq(S)
           /\ DOMAIN Ext!RemoveAt(s, p) = 1..(Len(s) - 1)
           /\ \A k \in 1..(Len(s) - 1) :
                 Ext!RemoveAt(s, p)[k] = IF k < p THEN s[k] ELSE s[k + 1]
<1> DEFINE n == Len(s)
           front == SubSeq(s, 1, p - 1)
           back == SubSeq(s, p + 1, n)
<1>1. p \in 1..n /\ n \in Nat \ {0} /\ DOMAIN s = 1..n
  OBVIOUS
<1>2. /\ front \in Seq(S) /\ Len(front) = p - 1
      /\ \A k \in 1..(p - 1) : front[k] = s[k]
  <2>1. /\ SubSeq(s, 1, p - 1) \in Seq(S)
        /\ Len(SubSeq(s, 1, p - 1)) = IF 1 <= p - 1 THEN (p - 1) - 1 + 1 ELSE 0
        /\ \A k \in 1..((p - 1) - 1 + 1) : SubSeq(s, 1, p - 1)[k] = s[1 + k - 1]
    BY <1>1, SubSeqProperties
  <2>2. /\ 1 <= p - 1 => (p - 1) - 1 + 1 = p - 1
        /\ ~(1 <= p - 1) => p - 1 = 0
        /\ \A k \in 1..(p - 1) : k \in 1..((p - 1) - 1 + 1) /\ 1 + k - 1 = k
    BY <1>1
  <2> QED BY <2>1, <2>2
<1>3. /\ back \in Seq(S) /\ Len(back) = n - p
      /\ \A k \in 1..(n - p) : back[k] = s[p + k]
  <2>1. /\ SubSeq(s, p + 1, n) \in Seq(S)
        /\ Len(SubSeq(s, p + 1, n)) = IF p + 1 <= n THEN n - (p + 1) + 1 ELSE 0
        /\ \A k \in 1..(n - (p + 1) + 1) : SubSeq(s, p + 1, n)[k] = s[(p + 1) + k - 1]
    BY <1>1, SubSeqProperties
  <2>2. /\ p + 1 <= n => n - (p + 1) + 1 = n - p
        /\ ~(p + 1 <= n) => n - p = 0
        /\ \A k \in 1..(n - p) : k \in 1..(n - (p + 1) + 1) /\ (p + 1) + k - 1 = p + k
    <3> HIDE DEF n
    <3> QED BY <1>1
  <2> QED BY <2>1, <2>2
<1> HIDE DEF front, back, n
<1>4. Ext!RemoveAt(s, p) = front \o back
  BY DEF Ext!RemoveAt, front, back, n
<1>5. Len(front) + Len(back) = n - 1
  BY <1>1, <1>2, <1>3
<1>6. front \o back \in Seq(S) /\ Len(front \o back) = n - 1
  BY <1>2, <1>3, <1>5, ConcatProperties
<1>7. \A k \in 1..(n - 1) :
         (front \o back)[k] = IF k <= p - 1 THEN front[k] ELSE back[k - (p - 1)]
  <2>1. \A k \in 1..(Len(front) + Len(back)) :
           (front \o back)[k] = IF k <= Len(front) THEN front[k] ELSE back[k - Len(front)]
    BY <1>2, <1>3, ConcatProperties
  <2> QED BY <1>2, <1>5, <2>1
<1>8. ASSUME NEW k \in 1..(n - 1)
      PROVE  (front \o back)[k] = IF k < p THEN s[k] ELSE s[k + 1]
  <2>1. CASE k < p
    <3>1. k \in 1..(p - 1) /\ k <= p - 1
      BY <1>1, <2>1
    <3> QED BY <1>2, <1>7, <2>1, <3>1
  <2>2. CASE ~(k < p)
    <3>1. /\ k - (p - 1) \in 1..(n - p) /\ ~(k <= p - 1)
          /\ p + (k - (p - 1)) = k + 1
      BY <1>1, <2>2
    <3> QED BY <1>3, <1>7, <2>2, <3>1
  <2> QED BY <2>1, <2>2
<1>9. DOMAIN (front \o back) = 1..(n - 1)
  BY <1>6
<1> QED BY <1>1, <1>4, <1>6, <1>8, <1>9 DEF n

-----------------------------------------------------------------------------
(* Columns and cells.                                                       *)

EntryType == [name : Name, dir : BOOLEAN, id : Column]

LEMMA Columns ==
    /\ CurDirCol \in Column /\ RootCol \in Folder /\ Folder \subseteq Column
    /\ FileCol \subseteq Column /\ DirCol \subseteq Folder
    /\ CurDirCol \notin Folder /\ CurDirCol \notin FileCol
    /\ RootCol \notin DirCol /\ \A c \in Folder : c \in DirCol \/ c = RootCol
    /\ \A c \in FileCol : c \notin Folder
    /\ \A c \in Column : c = CurDirCol \/ c \in Folder \/ c \in FileCol
    /\ Null \notin Column
BY NullAssumption DEF CurDirCol, RootCol, DirCol, FileCol, Folder, Column

\* What may be in a cell.
Fits(c, v) ==
    /\ c = CurDirCol => v \in Folder
    /\ c \in Folder => v \in FolderCell
    /\ c \in FileCol => v \in FileCell

LEMMA FitsValue ==
    ASSUME NEW c \in Column, NEW v, Fits(c, v)
    PROVE  v \in Value /\ v # Null
<1>1. c = CurDirCol \/ c \in Folder \/ c \in FileCol
  BY Columns
<1>2. v \in Column \cup FolderCell \cup FileCell
  BY <1>1, Columns DEF Fits
<1> QED BY <1>2, NullAssumption DEF Value

LEMMA TypedCells ==
    ASSUME NEW m, NEW t, Typed(t, m), NEW c \in Column
    PROVE  /\ t \in Table /\ t[c].time \in Nat /\ t[c].time <= m /\ t[c].val \in Value
           /\ t[c] \in [val : Value, time : Nat]
           /\ Present(t, c) => Fits(c, t[c].val)
BY Columns DEF Typed, Table, Present, Fits, Cwd

LEMMA TypedIs ==
    ASSUME NEW m \in Nat, NEW t \in Table,
           \A c \in Column : /\ t[c].time <= m
                             /\ t[c].val # Null => Fits(c, t[c].val),
           t[CurDirCol].val # Null
    PROVE  Typed(t, m)
BY Columns DEF Typed, Present, Fits, Cwd

LEMMA PutIs ==
    ASSUME NEW m \in Nat, NEW t, Typed(t, m), NEW c \in Column, NEW v, Fits(c, v)
    PROVE  /\ Typed(Put(t, c, v, m), m)
           /\ Present(Put(t, c, v, m), c)
           /\ Put(t, c, v, m)[c].val = v
           /\ \A d \in Column \ {c} : Put(t, c, v, m)[d] = t[d]
<1> DEFINE s == Put(t, c, v, m)
<1>1. t \in Table /\ t[c].time <= m /\ v \in Value /\ v # Null
  BY TypedCells, FitsValue
<1>2. s = [t EXCEPT ![c] = [val |-> v, time |-> m]]
  BY <1>1 DEF Put
<1>3. [val |-> v, time |-> m] \in [val : Value, time : Nat]
  BY <1>1
<1>4. s \in Table
  BY <1>1, <1>2, <1>3 DEF Table
<1>5. s[c] = [val |-> v, time |-> m] /\ \A d \in Column \ {c} : s[d] = t[d]
  BY <1>1, <1>2 DEF Table
<1> HIDE DEF s
<1>6. ASSUME NEW d \in Column
      PROVE  s[d].time <= m /\ (s[d].val # Null => Fits(d, s[d].val))
  <2>1. CASE d = c
    BY <1>5, <2>1
  <2>2. CASE d # c
    BY <1>5, <2>2, TypedCells DEF Present
  <2> QED BY <2>1, <2>2
<1>7. s[CurDirCol].val # Null
  <2>1. CASE c = CurDirCol
    BY <1>1, <1>5, <2>1
  <2>2. CASE c # CurDirCol
    <3>1. s[CurDirCol].val = t[CurDirCol].val
      BY <1>5, <2>2, Columns
    <3>2. t[CurDirCol].val \in Folder
      BY DEF Typed, Cwd
    <3> QED BY <3>1, <3>2, Columns
  <2> QED BY <2>1, <2>2
<1>8. Typed(s, m)
  BY <1>4, <1>6, <1>7, TypedIs
<1>9. Present(s, c) /\ s[c].val = v
  BY <1>1, <1>5 DEF Present
<1> QED BY <1>5, <1>8, <1>9 DEF s

LEMMA EraseIs ==
    ASSUME NEW m \in Nat, NEW t, Typed(t, m), NEW c \in DirCol \cup FileCol
    PROVE  /\ Typed(Erase(t, c, m), m)
           /\ ~Present(Erase(t, c, m), c)
           /\ \A d \in Column \ {c} : Erase(t, c, m)[d] = t[d]
<1> DEFINE s == Erase(t, c, m)
<1>0. c \in Column /\ c # CurDirCol
  BY Columns
<1>1. t \in Table /\ t[c].time <= m /\ t[CurDirCol].val # Null
  BY <1>0, TypedCells, Columns DEF Typed, Cwd
<1>2. CASE ~Present(t, c)
  <2>1. s = t
    BY <1>2 DEF Erase
  <2> QED BY <1>2, <2>1
<1>3. CASE Present(t, c)
  <2>1. s = [t EXCEPT ![c] = NoEntry]
    BY <1>1, <1>3 DEF Erase
  <2>2. NoEntry \in [val : Value, time : Nat]
    BY DEF NoEntry, Value
  <2>3. s \in Table
    BY <1>1, <2>1, <2>2 DEF Table
  <2>4. s[c] = NoEntry /\ \A d \in Column \ {c} : s[d] = t[d]
    BY <1>0, <1>1, <2>1 DEF Table
  <2> HIDE DEF s
  <2>5. ~Present(s, c)
    BY <2>4 DEF NoEntry, Present
  <2>6. ASSUME NEW d \in Column
        PROVE  s[d].time <= m /\ (s[d].val # Null => Fits(d, s[d].val))
    <3>1. CASE d = c
      BY <2>4, <3>1 DEF NoEntry
    <3>2. CASE d # c
      BY <2>4, <3>2, TypedCells DEF Present
    <3> QED BY <3>1, <3>2
  <2>7. s[CurDirCol].val # Null
    BY <1>0, <1>1, <2>4, Columns
  <2>8. Typed(s, m)
    BY <2>3, <2>6, <2>7, TypedIs
  <2> QED BY <2>4, <2>5, <2>8 DEF s
<1> QED BY <1>2, <1>3

-----------------------------------------------------------------------------
(* Folders and their entries.                                               *)

Entries(t, d) == Dir(t, d).entries
Parent(t, d)  == Dir(t, d).parent

LEMMA DirIs ==
    ASSUME NEW m, NEW t, Typed(t, m), NEW d \in Folder
    PROVE  /\ Present(t, d) => Dir(t, d) = t[d].val /\ Dir(t, d) \in FolderCell
           /\ ~Present(t, d) => Entries(t, d) = <<>> /\ DOMAIN Entries(t, d) = {}
           /\ Entries(t, d) \in Seq(EntryType)
           /\ Len(Entries(t, d)) \in Nat
           /\ DOMAIN Entries(t, d) = 1..Len(Entries(t, d))
<1>1. d \in Column
  BY Columns
<1>2. CASE Present(t, d)
  <2>1. Dir(t, d) = t[d].val /\ Dir(t, d) \in FolderCell
    BY <1>1, <1>2 DEF Dir, Typed
  <2>2. Dir(t, d).entries \in Seq(EntryType)
    BY <2>1 DEF FolderCell, EntryType
  <2> QED BY <1>2, <2>1, <2>2 DEF Entries
<1>3. CASE ~Present(t, d)
  <2>1. Entries(t, d) = <<>>
    BY <1>3 DEF Dir, Entries
  <2> QED BY <1>3, <2>1
<1> QED BY <1>2, <1>3

\* What is in a folder depends on its cell only.
LEMMA SameDir ==
    ASSUME NEW t, NEW s, NEW d, s[d] = t[d]
    PROVE  /\ Dir(s, d) = Dir(t, d) /\ Entries(s, d) = Entries(t, d)
           /\ Parent(s, d) = Parent(t, d)
           /\ Present(s, d) <=> Present(t, d)
BY DEF Dir, Present, Entries, Parent

\* The first entry of a name.
LEMMA EntryIs ==
    ASSUME NEW m, NEW t, Typed(t, m), NEW d \in Folder, NEW n, Has(Dir(t, d), n)
    PROVE  /\ Ext!Min(At(Dir(t, d), n)) \in DOMAIN Entries(t, d)
           /\ Entry(Dir(t, d), n) = Entries(t, d)[Ext!Min(At(Dir(t, d), n))]
           /\ Entry(Dir(t, d), n) \in EntryType
           /\ Entry(Dir(t, d), n).name = n
           /\ Present(t, d)
<1> DEFINE at == At(Dir(t, d), n)
<1>1. /\ DOMAIN Entries(t, d) = 1..Len(Entries(t, d)) /\ Entries(t, d) \in Seq(EntryType)
      /\ ~Present(t, d) => DOMAIN Entries(t, d) = {}
      /\ Len(Entries(t, d)) \in Nat
  BY DirIs
<1>2. at = {i \in DOMAIN Entries(t, d) : Entries(t, d)[i].name = n}
  BY DEF At, Entries
<1>3. at # {}
  BY DEF Has
<1>4. at \in SUBSET Nat
  BY <1>1, <1>2
<1>5. PICK i \in at : \A j \in at : i <= j
  <2> HIDE DEF at
  <2> QED BY <1>3, <1>4, LeastNat
<1>6. Ext!Min(at) \in at
  BY <1>5 DEF Ext!Min
<1> HIDE DEF at
<1>7. Ext!Min(at) \in DOMAIN Entries(t, d) /\ Entries(t, d)[Ext!Min(at)].name = n
  BY <1>2, <1>6
<1>8. Entry(Dir(t, d), n) = Entries(t, d)[Ext!Min(at)]
  BY DEF Entry, Entries, at
<1> QED BY <1>1, <1>7, <1>8 DEF at

-----------------------------------------------------------------------------
(* The parts of Tree, folder by folder.                                     *)

Links(t) ==
    \A d \in Folder : \A i \in DOMAIN Entries(t, d) :
        /\ Entries(t, d)[i].dir => /\ Entries(t, d)[i].id \in DirCol
                                   /\ Parent(t, Entries(t, d)[i].id) = d
        /\ ~Entries(t, d)[i].dir => Entries(t, d)[i].id \in FileCol
        /\ Present(t, Entries(t, d)[i].id)

IdOnce(t) ==
    \A d1, d2 \in Folder : \A i \in DOMAIN Entries(t, d1) : \A j \in DOMAIN Entries(t, d2) :
        Entries(t, d1)[i].id = Entries(t, d2)[j].id => d1 = d2 /\ i = j

NameOnce(t) ==
    \A d \in Folder : \A i, j \in DOMAIN Entries(t, d) :
        Entries(t, d)[i].name = Entries(t, d)[j].name => i = j

AllListed(t) ==
    \A c \in DirCol \cup FileCol : Present(t, c) =>
        \E d \in Folder : \E i \in DOMAIN Entries(t, d) : Entries(t, d)[i].id = c

NoCycle(t) ==
    \A S \in SUBSET DirCol : S # {} /\ (\A c \in S : Present(t, c)) =>
        \E c \in S : Parent(t, c) \notin S

LEMMA ListingsAre ==
    ASSUME NEW t
    PROVE  /\ \A d \in Folder : \A i \in DOMAIN Entries(t, d) :
                 <<d, i>> \in Listings(t) /\ Item(t, <<d, i>>) = Entries(t, d)[i]
           /\ \A l \in Listings(t) :
                 /\ l[1] \in Folder /\ l[2] \in DOMAIN Entries(t, l[1]) /\ l = <<l[1], l[2]>>
                 /\ Item(t, l) = Entries(t, l[1])[l[2]]
BY DEF Listings, Item, Entries

LEMMA TreeForms ==
    ASSUME NEW t
    PROVE  Tree(t) <=> /\ Rooted(t) /\ Links(t) /\ IdOnce(t) /\ NameOnce(t)
                       /\ AllListed(t) /\ NoCycle(t)
<1>1. Linked(t) <=> Links(t)
  <2>1. Linked(t) => Links(t)
    <3> SUFFICES ASSUME Linked(t), NEW d \in Folder, NEW i \in DOMAIN Entries(t, d)
                 PROVE  /\ Entries(t, d)[i].dir => /\ Entries(t, d)[i].id \in DirCol
                                                   /\ Parent(t, Entries(t, d)[i].id) = d
                        /\ ~Entries(t, d)[i].dir => Entries(t, d)[i].id \in FileCol
                        /\ Present(t, Entries(t, d)[i].id)
      BY DEF Links
    <3>1. <<d, i>> \in Listings(t) /\ Item(t, <<d, i>>) = Entries(t, d)[i]
      BY ListingsAre
    <3> QED BY <3>1 DEF Linked, Parent
  <2>2. Links(t) => Linked(t)
    <3> SUFFICES ASSUME Links(t), NEW l \in Listings(t)
                 PROVE  /\ Item(t, l).id \in IF Item(t, l).dir THEN DirCol ELSE FileCol
                        /\ Present(t, Item(t, l).id)
                        /\ Item(t, l).dir => Dir(t, Item(t, l).id).parent = l[1]
      BY DEF Linked
    <3> QED BY ListingsAre DEF Links, Parent
  <2> QED BY <2>1, <2>2
<1>2. NoDoubles(t) <=> IdOnce(t) /\ NameOnce(t)
  <2>1. NoDoubles(t) => IdOnce(t)
    <3> SUFFICES ASSUME NoDoubles(t), NEW d1 \in Folder, NEW d2 \in Folder,
                        NEW i \in DOMAIN Entries(t, d1), NEW j \in DOMAIN Entries(t, d2),
                        Entries(t, d1)[i].id = Entries(t, d2)[j].id
                 PROVE  d1 = d2 /\ i = j
      BY DEF IdOnce
    <3>1. /\ <<d1, i>> \in Listings(t) /\ Item(t, <<d1, i>>) = Entries(t, d1)[i]
          /\ <<d2, j>> \in Listings(t) /\ Item(t, <<d2, j>>) = Entries(t, d2)[j]
      BY ListingsAre
    <3>2. <<d1, i>> = <<d2, j>>
      BY <3>1 DEF NoDoubles
    <3> QED BY <3>2
  <2>2. NoDoubles(t) => NameOnce(t)
    <3> SUFFICES ASSUME NoDoubles(t), NEW d \in Folder,
                        NEW i \in DOMAIN Entries(t, d), NEW j \in DOMAIN Entries(t, d),
                        Entries(t, d)[i].name = Entries(t, d)[j].name
                 PROVE  i = j
      BY DEF NameOnce
    <3>1. /\ <<d, i>> \in Listings(t) /\ Item(t, <<d, i>>) = Entries(t, d)[i]
          /\ <<d, j>> \in Listings(t) /\ Item(t, <<d, j>>) = Entries(t, d)[j]
          /\ <<d, i>>[1] = d /\ <<d, j>>[1] = d
      BY ListingsAre
    <3>2. <<d, i>> = <<d, j>>
      BY <3>1 DEF NoDoubles
    <3> QED BY <3>2
  <2>3. IdOnce(t) /\ NameOnce(t) => NoDoubles(t)
    <3> SUFFICES ASSUME IdOnce(t), NameOnce(t), NEW l1 \in Listings(t), NEW l2 \in Listings(t),
                        \/ Item(t, l1).id = Item(t, l2).id
                        \/ l1[1] = l2[1] /\ Item(t, l1).name = Item(t, l2).name
                 PROVE  l1 = l2
      BY DEF NoDoubles
    <3>1. /\ l1[1] \in Folder /\ l1[2] \in DOMAIN Entries(t, l1[1]) /\ l1 = <<l1[1], l1[2]>>
          /\ l2[1] \in Folder /\ l2[2] \in DOMAIN Entries(t, l2[1]) /\ l2 = <<l2[1], l2[2]>>
          /\ Item(t, l1) = Entries(t, l1[1])[l1[2]]
          /\ Item(t, l2) = Entries(t, l2[1])[l2[2]]
      BY ListingsAre
    <3>2. l1[1] = l2[1] /\ l1[2] = l2[2]
      <4>1. CASE Item(t, l1).id = Item(t, l2).id
        BY <3>1, <4>1 DEF IdOnce
      <4>2. CASE l1[1] = l2[1] /\ Item(t, l1).name = Item(t, l2).name
        BY <3>1, <4>2 DEF NameOnce
      <4> QED BY <4>1, <4>2
    <3> QED BY <3>1, <3>2
  <2> QED BY <2>1, <2>2, <2>3
<1>3. NoOrphans(t) <=> AllListed(t)
  <2>1. ASSUME NoOrphans(t) PROVE AllListed(t)
    BY <2>1, ListingsAre DEF NoOrphans, AllListed
  <2>2. ASSUME AllListed(t) PROVE NoOrphans(t)
    <3> SUFFICES ASSUME NEW c \in DirCol \cup FileCol, Present(t, c)
                 PROVE  \E l \in Listings(t) : Item(t, l).id = c
      BY DEF NoOrphans
    <3>1. PICK d \in Folder : \E i \in DOMAIN Entries(t, d) : Entries(t, d)[i].id = c
      BY <2>2 DEF AllListed
    <3>2. PICK i \in DOMAIN Entries(t, d) : Entries(t, d)[i].id = c
      BY <3>1
    <3>3. <<d, i>> \in Listings(t) /\ Item(t, <<d, i>>) = Entries(t, d)[i]
      BY ListingsAre
    <3> QED BY <3>2, <3>3
  <2> QED BY <2>1, <2>2
<1>4. Acyclic(t) <=> NoCycle(t)
  <2>1. \A S : S \in SUBSET {c \in DirCol : Present(t, c)}
                  <=> S \in SUBSET DirCol /\ \A c \in S : Present(t, c)
    OBVIOUS
  <2> QED BY <2>1 DEF Acyclic, NoCycle, Parent
<1> QED BY <1>1, <1>2, <1>3, <1>4 DEF Tree

-----------------------------------------------------------------------------
(* What the commands do to a tree: each lemma compares two tables.          *)

Forest(t) ==
    /\ Links(t) /\ IdOnce(t) /\ NameOnce(t) /\ AllListed(t) /\ NoCycle(t)

LEMMA TreeIs ==
    ASSUME NEW t
    PROVE  Tree(t) <=> Rooted(t) /\ Forest(t)
BY TreeForms DEF Forest

\* The folders are the same; CUR_DIR may be another one.
LEMMA SameForest ==
    ASSUME NEW t, NEW s, Forest(t),
           \A c \in Column \ {CurDirCol} : s[c] = t[c]
    PROVE  Forest(s)
<1>1. \A c \in Folder \cup FileCol : c \in Column \ {CurDirCol}
  BY Columns
<1>2. \A c \in Folder \cup FileCol : /\ Entries(s, c) = Entries(t, c)
                                     /\ Parent(s, c) = Parent(t, c)
                                     /\ Present(s, c) <=> Present(t, c)
  BY <1>1, SameDir
<1>3. DirCol \subseteq Folder
  BY Columns
<1>4. Links(s)
  BY <1>2, <1>3 DEF Forest, Links
<1>5. IdOnce(s)
  BY <1>2 DEF Forest, IdOnce
<1>6. NameOnce(s)
  BY <1>2 DEF Forest, NameOnce
<1>7. AllListed(s)
  <2> SUFFICES ASSUME NEW c \in DirCol \cup FileCol, Present(s, c)
               PROVE  \E d \in Folder : \E i \in DOMAIN Entries(s, d) : Entries(s, d)[i].id = c
    BY DEF AllListed
  <2>1. PICK d \in Folder : \E i \in DOMAIN Entries(t, d) : Entries(t, d)[i].id = c
    BY <1>2, <1>3 DEF Forest, AllListed
  <2> QED BY <1>2, <2>1
<1>8. NoCycle(s)
  <2> SUFFICES ASSUME NEW S \in SUBSET DirCol, S # {}, \A c \in S : Present(s, c)
               PROVE  \E c \in S : Parent(s, c) \notin S
    BY DEF NoCycle
  <2>1. \A c \in S : c \in Folder /\ Present(t, c)
    BY <1>2, <1>3
  <2>2. PICK c \in S : Parent(t, c) \notin S
    BY <2>1 DEF Forest, NoCycle
  <2> QED BY <1>2, <2>1, <2>2
<1> QED BY <1>4, <1>5, <1>6, <1>7, <1>8 DEF Forest

\* A new cell with a new entry in the folder "here".
LEMMA CreateForest ==
    ASSUME NEW t, NEW s, Forest(t), NEW here \in Folder, Present(t, here),
           NEW e, NEW k \in Nat,
           e.dir => e.id \in DirCol, ~e.dir => e.id \in FileCol,
           ~Present(t, e.id), DOMAIN Entries(t, e.id) = {},
           DOMAIN Entries(t, here) = 1..k, DOMAIN Entries(s, here) = 1..(k + 1),
           \A i \in 1..k : /\ Entries(s, here)[i] = Entries(t, here)[i]
                           /\ Entries(t, here)[i].name # e.name,
           Entries(s, here)[k + 1] = e,
           \A c \in Column : Present(s, c) <=> c = e.id \/ Present(t, c),
           \A d \in Folder \ {here} : DOMAIN Entries(s, d) = DOMAIN Entries(t, d)
                                      /\ \A i \in DOMAIN Entries(t, d) :
                                            Entries(s, d)[i] = Entries(t, d)[i],
           \A d \in Folder \ {e.id} : Parent(s, d) = Parent(t, d),
           e.dir => Parent(s, e.id) = here
    PROVE  Forest(s)
<1>1. \A d \in Folder : \A i \in DOMAIN Entries(s, d) :
         \/ i \in DOMAIN Entries(t, d) /\ Entries(s, d)[i] = Entries(t, d)[i]
         \/ d = here /\ i = k + 1 /\ Entries(s, d)[i] = e
  <2> SUFFICES ASSUME NEW d \in Folder, NEW i \in DOMAIN Entries(s, d)
               PROVE  \/ i \in DOMAIN Entries(t, d) /\ Entries(s, d)[i] = Entries(t, d)[i]
                      \/ d = here /\ i = k + 1 /\ Entries(s, d)[i] = e
    OBVIOUS
  <2>1. CASE d # here
    BY <2>1
  <2>2. CASE d = here
    <3>1. i \in 1..k \/ i = k + 1
      BY <2>2
    <3> QED BY <2>2, <3>1
  <2> QED BY <2>1, <2>2
<1>2. \A d \in Folder : \A i \in DOMAIN Entries(t, d) :
         /\ i \in DOMAIN Entries(s, d) /\ Entries(s, d)[i] = Entries(t, d)[i]
         /\ Entries(t, d)[i].id # e.id
         /\ d = here => i # k + 1
  <2> SUFFICES ASSUME NEW d \in Folder, NEW i \in DOMAIN Entries(t, d)
               PROVE  /\ i \in DOMAIN Entries(s, d) /\ Entries(s, d)[i] = Entries(t, d)[i]
                      /\ Entries(t, d)[i].id # e.id
                      /\ d = here => i # k + 1
    OBVIOUS
  <2>1. Present(t, Entries(t, d)[i].id)
    BY DEF Forest, Links
  <2>2. CASE d # here
    BY <2>1, <2>2
  <2>3. CASE d = here
    <3>1. i \in 1..k /\ i \in 1..(k + 1) /\ i # k + 1
      BY <2>3
    <3> QED BY <2>1, <2>3, <3>1
  <2> QED BY <2>2, <2>3
<1>3. /\ DirCol \subseteq Folder /\ Folder \subseteq Column /\ FileCol \subseteq Column
      /\ e.id \in Column
  BY Columns
<1>4. Links(s)
  <2> SUFFICES ASSUME NEW d \in Folder, NEW i \in DOMAIN Entries(s, d)
               PROVE  /\ Entries(s, d)[i].dir => /\ Entries(s, d)[i].id \in DirCol
                                                 /\ Parent(s, Entries(s, d)[i].id) = d
                      /\ ~Entries(s, d)[i].dir => Entries(s, d)[i].id \in FileCol
                      /\ Present(s, Entries(s, d)[i].id)
    BY DEF Links
  <2>1. CASE i \in DOMAIN Entries(t, d) /\ Entries(s, d)[i] = Entries(t, d)[i]
    <3> DEFINE x == Entries(t, d)[i]
    <3>1. /\ x.dir => x.id \in DirCol /\ Parent(t, x.id) = d
          /\ ~x.dir => x.id \in FileCol
          /\ Present(t, x.id)
      BY <2>1 DEF Forest, Links
    <3>2. x.id # e.id
      BY <1>2, <2>1
    <3> HIDE DEF x
    <3>3. Present(s, x.id)
      BY <1>3, <3>1
    <3>4. x.dir => Parent(s, x.id) = d
      BY <1>3, <3>1, <3>2
    <3>5. Entries(s, d)[i] = x
      BY <2>1 DEF x
    <3> QED BY <3>1, <3>3, <3>4, <3>5
  <2>2. CASE d = here /\ i = k + 1 /\ Entries(s, d)[i] = e
    BY <1>3, <2>2
  <2> QED BY <1>1, <2>1, <2>2
<1>5. IdOnce(s)
  <2> SUFFICES ASSUME NEW d1 \in Folder, NEW d2 \in Folder,
                      NEW i \in DOMAIN Entries(s, d1), NEW j \in DOMAIN Entries(s, d2),
                      Entries(s, d1)[i].id = Entries(s, d2)[j].id
               PROVE  d1 = d2 /\ i = j
    BY DEF IdOnce
  <2>1. CASE /\ i \in DOMAIN Entries(t, d1) /\ Entries(s, d1)[i] = Entries(t, d1)[i]
             /\ j \in DOMAIN Entries(t, d2) /\ Entries(s, d2)[j] = Entries(t, d2)[j]
    BY <2>1 DEF Forest, IdOnce
  <2>2. CASE d1 = here /\ i = k + 1 /\ Entries(s, d1)[i] = e
    BY <1>1, <1>2, <2>2
  <2>3. CASE d2 = here /\ j = k + 1 /\ Entries(s, d2)[j] = e
    BY <1>1, <1>2, <2>3
  <2> QED BY <1>1, <2>1, <2>2, <2>3
<1>6. NameOnce(s)
  <2> SUFFICES ASSUME NEW d \in Folder, NEW i \in DOMAIN Entries(s, d),
                      NEW j \in DOMAIN Entries(s, d),
                      Entries(s, d)[i].name = Entries(s, d)[j].name
               PROVE  i = j
    BY DEF NameOnce
  <2>1. CASE d # here
    BY <2>1 DEF Forest, NameOnce
  <2>2. CASE d = here
    <3>1. \A x \in DOMAIN Entries(s, d) :
             \/ x \in 1..k /\ x \in DOMAIN Entries(t, d)
             \/ x = k + 1
      BY <2>2
    <3>2. \A x \in 1..k : Entries(s, d)[x] = Entries(t, d)[x] /\ Entries(t, d)[x].name # e.name
      BY <2>2
    <3>3. CASE i \in 1..k /\ j \in 1..k
      <4>1. i \in DOMAIN Entries(t, d) /\ j \in DOMAIN Entries(t, d)
        BY <2>2, <3>3
      <4> QED BY <3>2, <3>3, <4>1 DEF Forest, NameOnce
    <3>4. CASE i = k + 1 \/ j = k + 1
      BY <2>2, <3>1, <3>2, <3>4
    <3> QED BY <3>1, <3>3, <3>4
  <2> QED BY <2>1, <2>2
<1>7. AllListed(s)
  <2> SUFFICES ASSUME NEW c \in DirCol \cup FileCol, Present(s, c)
               PROVE  \E d \in Folder : \E i \in DOMAIN Entries(s, d) : Entries(s, d)[i].id = c
    BY DEF AllListed
  <2>1. CASE c = e.id
    <3>1. k + 1 \in DOMAIN Entries(s, here)
      OBVIOUS
    <3> QED BY <2>1, <3>1
  <2>2. CASE c # e.id
    <3>1. Present(t, c)
      BY <1>3, <2>2
    <3>2. PICK d \in Folder : \E i \in DOMAIN Entries(t, d) : Entries(t, d)[i].id = c
      BY <3>1 DEF Forest, AllListed
    <3> QED BY <1>2, <3>2
  <2> QED BY <2>1, <2>2
<1>8. NoCycle(s)
  <2> SUFFICES ASSUME NEW S \in SUBSET DirCol, S # {}, \A c \in S : Present(s, c)
               PROVE  \E c \in S : Parent(s, c) \notin S
    BY DEF NoCycle
  <2>1. CASE S = {e.id}
    <3>1. e.dir
      BY <2>1, Columns
    <3>2. here # e.id
      OBVIOUS
    <3> QED BY <2>1, <3>1, <3>2
  <2>2. CASE S # {e.id}
    <3> DEFINE R == S \ {e.id}
    <3>1. R \in SUBSET DirCol /\ R # {} /\ \A c \in R : Present(t, c)
      BY <1>3, <2>2
    <3>2. PICK c \in R : Parent(t, c) \notin R
      BY <3>1 DEF Forest, NoCycle
    <3>3. Present(t, c) /\ c \in DirCol /\ c \in Folder
      BY <1>3, <3>1
    <3>4. PICK d \in Folder : \E i \in DOMAIN Entries(t, d) : Entries(t, d)[i].id = c
      BY <3>3 DEF Forest, AllListed
    <3>5. PICK i \in DOMAIN Entries(t, d) : Entries(t, d)[i].id = c
      BY <3>4
    <3>6. Parent(t, c) = d
      BY <3>3, <3>5, Columns DEF Forest, Links
    <3>7. d # e.id
      BY <3>5
    <3>8. Parent(s, c) = Parent(t, c)
      BY <3>2, <3>3
    <3> QED BY <3>2, <3>6, <3>7, <3>8
  <2> QED BY <2>1, <2>2
<1> QED BY <1>4, <1>5, <1>6, <1>7, <1>8 DEF Forest

\* An entry of the folder "here", at p, has another name.
Renamed(t, s, here, p, new) ==
    /\ \A c \in Column : Present(s, c) <=> Present(t, c)
    /\ \A d \in Folder : /\ Parent(s, d) = Parent(t, d)
                         /\ DOMAIN Entries(s, d) = DOMAIN Entries(t, d)
    /\ \A d \in Folder : \A i \in DOMAIN Entries(t, d) :
           /\ Entries(s, d)[i].id = Entries(t, d)[i].id
           /\ Entries(s, d)[i].dir = Entries(t, d)[i].dir
           /\ Entries(s, d)[i].name =
                 IF d = here /\ i = p THEN new ELSE Entries(t, d)[i].name
    /\ \A i \in DOMAIN Entries(t, here) : Entries(t, here)[i].name # new

LEMMA RenameForest ==
    ASSUME NEW t, NEW s, Forest(t), NEW here \in Folder, NEW p, NEW new,
           Renamed(t, s, here, p, new)
    PROVE  Forest(s)
<1> USE DEF Renamed
<1>1. DirCol \subseteq Folder /\ Folder \subseteq Column /\ FileCol \subseteq Column
  BY Columns
<1>2. Links(s)
  <2> SUFFICES ASSUME NEW d \in Folder, NEW i \in DOMAIN Entries(s, d)
               PROVE  /\ Entries(s, d)[i].dir => /\ Entries(s, d)[i].id \in DirCol
                                                 /\ Parent(s, Entries(s, d)[i].id) = d
                      /\ ~Entries(s, d)[i].dir => Entries(s, d)[i].id \in FileCol
                      /\ Present(s, Entries(s, d)[i].id)
    BY DEF Links
  <2> DEFINE x == Entries(t, d)[i]
  <2>1. /\ x.dir => x.id \in DirCol /\ Parent(t, x.id) = d
        /\ ~x.dir => x.id \in FileCol
        /\ Present(t, x.id)
    BY DEF Forest, Links
  <2>2. Entries(s, d)[i].id = x.id /\ Entries(s, d)[i].dir = x.dir
    OBVIOUS
  <2> HIDE DEF x
  <2>3. x.id \in Column /\ (x.dir => x.id \in Folder)
    BY <1>1, <2>1
  <2>4. Present(s, x.id) /\ (x.dir => Parent(s, x.id) = d)
    BY <2>1, <2>3
  <2> QED BY <2>1, <2>2, <2>4
<1>3. IdOnce(s)
  BY DEF Forest, IdOnce
<1>4. NameOnce(s)
  <2> SUFFICES ASSUME NEW d \in Folder, NEW i \in DOMAIN Entries(s, d),
                      NEW j \in DOMAIN Entries(s, d),
                      Entries(s, d)[i].name = Entries(s, d)[j].name
               PROVE  i = j
    BY DEF NameOnce
  <2> QED BY DEF Forest, NameOnce
<1>5. AllListed(s)
  <2> SUFFICES ASSUME NEW c \in DirCol \cup FileCol, Present(s, c)
               PROVE  \E d \in Folder : \E i \in DOMAIN Entries(s, d) : Entries(s, d)[i].id = c
    BY DEF AllListed
  <2>1. PICK d \in Folder : \E i \in DOMAIN Entries(t, d) : Entries(t, d)[i].id = c
    BY <1>1 DEF Forest, AllListed
  <2> QED BY <2>1
<1>6. NoCycle(s)
  <2> SUFFICES ASSUME NEW S \in SUBSET DirCol, S # {}, \A c \in S : Present(s, c)
               PROVE  \E c \in S : Parent(s, c) \notin S
    BY DEF NoCycle
  <2>1. \A c \in S : c \in Folder /\ Present(t, c)
    BY <1>1
  <2>2. PICK c \in S : Parent(t, c) \notin S
    BY <2>1 DEF Forest, NoCycle
  <2> QED BY <2>1, <2>2
<1> QED BY <1>2, <1>3, <1>4, <1>5, <1>6 DEF Forest

\* The entry at p of the folder "here" is gone, and its cell, which holds
\* nothing.
Dropped(t, s, here, p, c, k) ==
    /\ p \in DOMAIN Entries(t, here) /\ c = Entries(t, here)[p].id /\ c # here
    /\ DOMAIN Entries(t, here) = 1..k /\ DOMAIN Entries(s, here) = 1..(k - 1)
    /\ \A i \in 1..(k - 1) : Entries(s, here)[i] =
           IF i < p THEN Entries(t, here)[i] ELSE Entries(t, here)[i + 1]
    /\ DOMAIN Entries(t, c) = {} \/ c \notin Folder
    /\ \A d \in Column \ {c} : Present(s, d) <=> Present(t, d)
    /\ ~Present(s, c) /\ DOMAIN Entries(s, c) = {}
    /\ \A d \in Folder \ {here, c} : Entries(s, d) = Entries(t, d)
    /\ \A d \in Folder \ {c} : Parent(s, d) = Parent(t, d)

LEMMA RemoveForest ==
    ASSUME NEW t, NEW s, Forest(t), NEW here \in Folder, NEW p, NEW c, NEW k \in Nat,
           Dropped(t, s, here, p, c, k)
    PROVE  Forest(s)
<1> USE DEF Dropped
<1> DEFINE from(d, i) == IF d = here /\ ~(i < p) THEN i + 1 ELSE i
<1>0. /\ DirCol \subseteq Folder /\ Folder \subseteq Column /\ FileCol \subseteq Column
      /\ p \in 1..k
  BY Columns
<1>1. ASSUME NEW d \in Folder, NEW i \in DOMAIN Entries(s, d)
      PROVE  /\ d # c /\ from(d, i) \in DOMAIN Entries(t, d)
             /\ Entries(s, d)[i] = Entries(t, d)[from(d, i)]
             /\ ~(d = here /\ from(d, i) = p)
  <2>1. CASE d = here
    <3>1. i \in 1..(k - 1)
      BY <2>1
    <3>2. i \in 1..k /\ i + 1 \in 1..k /\ (i < p \/ i + 1 # p) /\ (i < p => i # p)
      BY <1>0, <3>1
    <3> QED BY <2>1, <3>1, <3>2
  <2>2. CASE d # here
    BY <2>2
  <2> QED BY <2>1, <2>2
<1>2. ASSUME NEW d \in Folder, NEW i \in DOMAIN Entries(t, d), ~(d = here /\ i = p)
      PROVE  /\ Entries(t, d)[i].id # c
             /\ \E j \in DOMAIN Entries(s, d) : Entries(s, d)[j] = Entries(t, d)[i]
  <2>1. Entries(t, d)[i].id # c
    BY <1>2 DEF Forest, IdOnce
  <2>2. CASE d = here
    <3>1. i \in 1..k
      BY <2>2
    <3>2. CASE i < p
      <4>1. i \in 1..(k - 1)
        BY <1>0, <3>1, <3>2
      <4> QED BY <2>1, <2>2, <3>2, <4>1
    <3>3. CASE ~(i < p)
      <4>1. i - 1 \in 1..(k - 1) /\ ~(i - 1 < p) /\ (i - 1) + 1 = i
        BY <1>0, <1>2, <2>2, <3>1, <3>3
      <4>2. Entries(s, here)[i - 1] = Entries(t, here)[i]
        BY <4>1
      <4> QED BY <2>1, <2>2, <4>1, <4>2
    <3> QED BY <3>2, <3>3
  <2>3. CASE d # here
    <3>1. d # c
      OBVIOUS
    <3> QED BY <2>1, <2>3, <3>1
  <2> QED BY <2>2, <2>3
<1>3. ASSUME NEW d1 \in Folder, NEW d2 \in Folder, d1 = d2,
             NEW i \in DOMAIN Entries(s, d1), NEW j \in DOMAIN Entries(s, d2),
             from(d1, i) = from(d2, j)
      PROVE  i = j
  <2>1. CASE d1 = here
    <3>1. i \in 1..(k - 1) /\ j \in 1..(k - 1)
      BY <1>3, <2>1
    <3> QED BY <1>0, <1>3, <2>1, <3>1
  <2>2. CASE d1 # here
    BY <1>3, <2>2
  <2> QED BY <2>1, <2>2
<1> HIDE DEF from
<1>4. Links(s)
  <2> SUFFICES ASSUME NEW d \in Folder, NEW i \in DOMAIN Entries(s, d)
               PROVE  /\ Entries(s, d)[i].dir => /\ Entries(s, d)[i].id \in DirCol
                                                 /\ Parent(s, Entries(s, d)[i].id) = d
                      /\ ~Entries(s, d)[i].dir => Entries(s, d)[i].id \in FileCol
                      /\ Present(s, Entries(s, d)[i].id)
    BY DEF Links
  <2> DEFINE x == Entries(t, d)[from(d, i)]
  <2>1. Entries(s, d)[i] = x /\ from(d, i) \in DOMAIN Entries(t, d) /\ x.id # c
    BY <1>1, <1>2
  <2>2. /\ x.dir => x.id \in DirCol /\ Parent(t, x.id) = d
        /\ ~x.dir => x.id \in FileCol
        /\ Present(t, x.id)
    BY <2>1 DEF Forest, Links
  <2> HIDE DEF x
  <2>3. x.id \in Column /\ (x.dir => x.id \in Folder)
    BY <1>0, <2>2
  <2>4. Present(s, x.id) /\ (x.dir => Parent(s, x.id) = d)
    BY <2>1, <2>2, <2>3
  <2> QED BY <2>1, <2>2, <2>4
<1>5. IdOnce(s)
  <2> SUFFICES ASSUME NEW d1 \in Folder, NEW d2 \in Folder,
                      NEW i \in DOMAIN Entries(s, d1), NEW j \in DOMAIN Entries(s, d2),
                      Entries(s, d1)[i].id = Entries(s, d2)[j].id
               PROVE  d1 = d2 /\ i = j
    BY DEF IdOnce
  <2>1. d1 = d2 /\ from(d1, i) = from(d2, j)
    BY <1>1 DEF Forest, IdOnce
  <2> QED BY <1>3, <2>1
<1>6. NameOnce(s)
  <2> SUFFICES ASSUME NEW d \in Folder, NEW i \in DOMAIN Entries(s, d),
                      NEW j \in DOMAIN Entries(s, d),
                      Entries(s, d)[i].name = Entries(s, d)[j].name
               PROVE  i = j
    BY DEF NameOnce
  <2>1. from(d, i) = from(d, j)
    BY <1>1 DEF Forest, NameOnce
  <2> QED BY <1>3, <2>1
<1>7. AllListed(s)
  <2> SUFFICES ASSUME NEW x \in DirCol \cup FileCol, Present(s, x)
               PROVE  \E d \in Folder : \E i \in DOMAIN Entries(s, d) : Entries(s, d)[i].id = x
    BY DEF AllListed
  <2>1. x # c /\ Present(t, x)
    BY <1>0
  <2>2. PICK d \in Folder : \E i \in DOMAIN Entries(t, d) : Entries(t, d)[i].id = x
    BY <2>1 DEF Forest, AllListed
  <2>3. PICK i \in DOMAIN Entries(t, d) : Entries(t, d)[i].id = x
    BY <2>2
  <2>4. ~(d = here /\ i = p)
    BY <2>1, <2>3
  <2> QED BY <1>2, <2>3, <2>4
<1>8. NoCycle(s)
  <2> SUFFICES ASSUME NEW S \in SUBSET DirCol, S # {}, \A x \in S : Present(s, x)
               PROVE  \E x \in S : Parent(s, x) \notin S
    BY DEF NoCycle
  <2>1. \A x \in S : x \in Folder /\ x # c /\ Present(t, x)
    BY <1>0
  <2>2. PICK x \in S : Parent(t, x) \notin S
    BY <2>1 DEF Forest, NoCycle
  <2> QED BY <2>1, <2>2
<1> QED BY <1>4, <1>5, <1>6, <1>7, <1>8 DEF Forest

\* No folder lists itself.
LEMMA NotInItself ==
    ASSUME NEW t, Forest(t), NEW d \in Folder, NEW i \in DOMAIN Entries(t, d)
    PROVE  Entries(t, d)[i].id # d
<1> SUFFICES ASSUME Entries(t, d)[i].id = d PROVE FALSE
  OBVIOUS
<1>1. Present(t, d) /\ (Entries(t, d)[i].dir => d \in DirCol /\ Parent(t, d) = d)
  BY DEF Forest, Links
<1>2. ~Entries(t, d)[i].dir => d \in FileCol
  BY DEF Forest, Links
<1>3. d \in DirCol /\ Parent(t, d) = d
  BY <1>1, <1>2, Columns
<1>4. {d} \in SUBSET DirCol /\ {d} # {} /\ \A c \in {d} : Present(t, c)
  BY <1>1, <1>3
<1>5. PICK c \in {d} : Parent(t, c) \notin {d}
  BY <1>4, Zenon DEF Forest, NoCycle
<1> QED BY <1>3, <1>5

\* The entry at p of "here" is in "to" now; A holds the way from the root to
\* "to", on which the moved folder is not.
Moved(t, s, here, to, p, e, k, m) ==
    /\ p \in DOMAIN Entries(t, here) /\ e = Entries(t, here)[p]
    /\ DOMAIN Entries(t, here) = 1..k /\ DOMAIN Entries(s, here) = 1..(k - 1)
    /\ \A i \in 1..(k - 1) : Entries(s, here)[i] =
           IF i < p THEN Entries(t, here)[i] ELSE Entries(t, here)[i + 1]
    /\ DOMAIN Entries(t, to) = 1..m /\ DOMAIN Entries(s, to) = 1..(m + 1)
    /\ \A i \in 1..m : /\ Entries(s, to)[i] = Entries(t, to)[i]
                       /\ Entries(t, to)[i].name # e.name
    /\ Entries(s, to)[m + 1] = e
    /\ \A c \in Column : Present(s, c) <=> Present(t, c)
    /\ \A d \in Folder \ {here, to} : Entries(s, d) = Entries(t, d)
    /\ \A d \in Folder \ {e.id} : Parent(s, d) = Parent(t, d)
    /\ e.dir => Parent(s, e.id) = to

OnWay(t, to, e, A) ==
    /\ to \in A /\ e.id \notin A
    /\ \A c \in A : c \in DirCol => Parent(t, c) \in A

LEMMA MoveForest ==
    ASSUME NEW t, NEW s, Forest(t), NEW here \in Folder, NEW to \in Folder, here # to,
           NEW p, NEW e, NEW k \in Nat, NEW m \in Nat, Moved(t, s, here, to, p, e, k, m),
           NEW A, OnWay(t, to, e, A)
    PROVE  Forest(s)
<1> USE DEF Moved, OnWay
<1> DEFINE from(d, i) == CASE d = to /\ i = m + 1 -> <<here, p>>
                           [] d = here /\ ~(i < p) -> <<here, i + 1>>
                           [] OTHER -> <<d, i>>
<1>0. /\ DirCol \subseteq Folder /\ Folder \subseteq Column /\ FileCol \subseteq Column
      /\ p \in 1..k
  BY Columns
<1>1. ASSUME NEW d \in Folder, NEW i \in DOMAIN Entries(s, d)
      PROVE  \E c \in Folder : \E j \in DOMAIN Entries(t, c) :
                /\ from(d, i) = <<c, j>> /\ Entries(s, d)[i] = Entries(t, c)[j]
                /\ c # d => d = to /\ i = m + 1 /\ c = here /\ j = p
  <2>1. CASE d = here
    <3>1. i \in 1..(k - 1)
      BY <2>1
    <3>2. i \in 1..k /\ i + 1 \in 1..k
      BY <1>0, <3>1
    <3>3. CASE i < p
      <4>1. from(d, i) = <<here, i>>
        BY <2>1, <3>3
      <4> HIDE DEF from
      <4> QED BY <2>1, <3>1, <3>2, <3>3, <4>1
    <3>4. CASE ~(i < p)
      <4>1. from(d, i) = <<here, i + 1>>
        BY <2>1, <3>4
      <4> HIDE DEF from
      <4> QED BY <2>1, <3>1, <3>2, <3>4, <4>1
    <3> QED BY <3>3, <3>4
  <2>2. CASE d = to /\ i = m + 1
    <3>1. from(d, i) = <<here, p>>
      BY <2>2
    <3> HIDE DEF from
    <3> QED BY <2>2, <3>1
  <2>3. CASE d = to /\ i # m + 1
    <3>1. i \in 1..m
      BY <2>3
    <3>2. from(d, i) = <<d, i>>
      BY <2>3
    <3> HIDE DEF from
    <3> QED BY <2>3, <3>1, <3>2
  <2>4. CASE d # here /\ d # to
    <3>1. from(d, i) = <<d, i>>
      BY <2>4
    <3> HIDE DEF from
    <3> QED BY <2>4, <3>1
  <2> QED BY <2>1, <2>2, <2>3, <2>4
<1>2. ASSUME NEW d \in Folder, NEW i \in DOMAIN Entries(t, d)
      PROVE  \E c \in Folder : \E j \in DOMAIN Entries(s, c) :
                Entries(s, c)[j] = Entries(t, d)[i]
  <2>1. CASE d = here /\ i = p
    <3>1. m + 1 \in DOMAIN Entries(s, to)
      OBVIOUS
    <3> QED BY <2>1, <3>1
  <2>2. CASE d = here /\ i # p
    <3>1. i \in 1..k
      BY <2>2
    <3>2. CASE i < p
      <4>1. i \in 1..(k - 1)
        BY <1>0, <3>1, <3>2
      <4> QED BY <2>2, <3>2, <4>1
    <3>3. CASE ~(i < p)
      <4>1. i - 1 \in 1..(k - 1) /\ ~(i - 1 < p) /\ (i - 1) + 1 = i
        BY <1>0, <2>2, <3>1, <3>3
      <4>2. Entries(s, here)[i - 1] = Entries(t, here)[i]
        BY <4>1
      <4> QED BY <2>2, <4>1, <4>2
    <3> QED BY <3>2, <3>3
  <2>3. CASE d = to
    <3>1. i \in 1..m /\ i \in 1..(m + 1)
      BY <2>3
    <3> QED BY <2>3, <3>1
  <2>4. CASE d # here /\ d # to
    BY <2>4
  <2> QED BY <2>1, <2>2, <2>3, <2>4
<1>3. ASSUME NEW d1 \in Folder, NEW d2 \in Folder,
             NEW i \in DOMAIN Entries(s, d1), NEW j \in DOMAIN Entries(s, d2),
             from(d1, i) = from(d2, j)
      PROVE  d1 = d2 /\ i = j
  <2>2. \A x \in DOMAIN Entries(s, here) :
           from(here, x) = <<here, IF x < p THEN x ELSE x + 1>>
    OBVIOUS
  <2>3. ASSUME NEW d \in Folder, NEW x \in DOMAIN Entries(s, d), d # here
        PROVE  from(d, x) = IF d = to /\ x = m + 1 THEN <<here, p>> ELSE <<d, x>>
    BY <2>3
  <2> HIDE DEF from
  <2>4. CASE d1 = here /\ d2 = here
    <3>1. i \in 1..(k - 1) /\ j \in 1..(k - 1)
      BY <2>4
    <3>2. (IF i < p THEN i ELSE i + 1) = (IF j < p THEN j ELSE j + 1)
      BY <1>3, <2>2, <2>4
    <3>3. i = j
      BY <1>0, <3>1, <3>2
    <3> QED BY <2>4, <3>3
  <2>5. CASE d1 = here /\ d2 # here
    <3>1. i \in 1..(k - 1)
      BY <2>5
    <3>2. (IF i < p THEN i ELSE i + 1) # p
      BY <1>0, <3>1
    <3>3. from(d1, i) = <<here, IF i < p THEN i ELSE i + 1>>
      BY <2>2, <2>5
    <3>4. from(d2, j) = <<here, p>> \/ from(d2, j) = <<d2, j>>
      BY <2>3, <2>5
    <3> QED BY <1>3, <2>5, <3>2, <3>3, <3>4
  <2>6. CASE d1 # here /\ d2 = here
    <3>1. j \in 1..(k - 1)
      BY <2>6
    <3>2. (IF j < p THEN j ELSE j + 1) # p
      BY <1>0, <3>1
    <3>3. from(d2, j) = <<here, IF j < p THEN j ELSE j + 1>>
      BY <2>2, <2>6
    <3>4. from(d1, i) = <<here, p>> \/ from(d1, i) = <<d1, i>>
      BY <2>3, <2>6
    <3> QED BY <1>3, <2>6, <3>2, <3>3, <3>4
  <2>7. CASE d1 # here /\ d2 # here
    <3>1. /\ from(d1, i) = IF d1 = to /\ i = m + 1 THEN <<here, p>> ELSE <<d1, i>>
          /\ from(d2, j) = IF d2 = to /\ j = m + 1 THEN <<here, p>> ELSE <<d2, j>>
      BY <2>3, <2>7
    <3>2. <<here, p>> # <<d1, i>> /\ <<here, p>> # <<d2, j>>
      BY <2>7
    <3>3. CASE d1 = to /\ i = m + 1
      <4>1. d2 = to /\ j = m + 1
        BY <1>3, <3>1, <3>2, <3>3
      <4> QED BY <3>3, <4>1
    <3>4. CASE ~(d1 = to /\ i = m + 1)
      <4>1. from(d2, j) = <<d1, i>>
        BY <1>3, <3>1, <3>4
      <4>2. from(d2, j) = <<d2, j>>
        BY <3>1, <3>2, <4>1
      <4> QED BY <4>1, <4>2
    <3> QED BY <3>3, <3>4
  <2> QED BY <2>4, <2>5, <2>6, <2>7
<1> HIDE DEF from
<1>4. Links(s)
  <2> SUFFICES ASSUME NEW d \in Folder, NEW i \in DOMAIN Entries(s, d)
               PROVE  /\ Entries(s, d)[i].dir => /\ Entries(s, d)[i].id \in DirCol
                                                 /\ Parent(s, Entries(s, d)[i].id) = d
                      /\ ~Entries(s, d)[i].dir => Entries(s, d)[i].id \in FileCol
                      /\ Present(s, Entries(s, d)[i].id)
    BY DEF Links
  <2>0. PICK c \in Folder : \E j \in DOMAIN Entries(t, c) :
           /\ from(d, i) = <<c, j>> /\ Entries(s, d)[i] = Entries(t, c)[j]
           /\ c # d => d = to /\ i = m + 1 /\ c = here /\ j = p
    BY <1>1
  <2>1. PICK j \in DOMAIN Entries(t, c) :
           /\ from(d, i) = <<c, j>> /\ Entries(s, d)[i] = Entries(t, c)[j]
           /\ c # d => d = to /\ i = m + 1 /\ c = here /\ j = p
    BY <2>0
  <2> DEFINE x == Entries(t, c)[j]
  <2>2. /\ x.dir => x.id \in DirCol /\ Parent(t, x.id) = c
        /\ ~x.dir => x.id \in FileCol
        /\ Present(t, x.id)
    BY DEF Forest, Links
  <2>3. x.id = e.id => c = here /\ j = p
    BY DEF Forest, IdOnce
  <2>4. c = here /\ j = p => x = e
    OBVIOUS
  <2>5. Entries(s, d)[i] = x
    BY <2>1
  <2>6. x.id = e.id => d = to
    <3> SUFFICES ASSUME x.id = e.id, c = d PROVE FALSE
      BY <2>1
    <3>1. from(here, i) = <<here, p>> /\ d = here /\ i \in DOMAIN Entries(s, here)
      BY <2>1, <2>3
    <3>2. m + 1 \in DOMAIN Entries(s, to) /\ from(to, m + 1) = <<here, p>>
      BY DEF from
    <3>3. from(here, i) = from(to, m + 1)
      BY <3>1, <3>2
    <3> HIDE DEF Moved
    <3>4. here = to
      BY <1>3, <3>1, <3>2, <3>3
    <3> QED BY <3>4
  <2> HIDE DEF x
  <2>7. x.id \in Column /\ (x.dir => x.id \in Folder)
    BY <1>0, <2>2
  <2>8. Present(s, x.id)
    BY <2>2, <2>7
  <2>9. x.dir => Parent(s, x.id) = d
    <3>1. CASE x.id = e.id
      BY <2>3, <2>4, <2>6, <3>1
    <3>2. CASE x.id # e.id
      <4>1. c = d
        BY <2>1, <2>4, <3>2
      <4> QED BY <2>2, <2>7, <3>2, <4>1
    <3> QED BY <3>1, <3>2
  <2> QED BY <2>2, <2>5, <2>8, <2>9
<1>5. IdOnce(s)
  <2> SUFFICES ASSUME NEW d1 \in Folder, NEW d2 \in Folder,
                      NEW i \in DOMAIN Entries(s, d1), NEW j \in DOMAIN Entries(s, d2),
                      Entries(s, d1)[i].id = Entries(s, d2)[j].id
               PROVE  d1 = d2 /\ i = j
    BY DEF IdOnce
  <2>1. \E c1 \in Folder : \E x \in DOMAIN Entries(t, c1) :
           from(d1, i) = <<c1, x>> /\ Entries(s, d1)[i] = Entries(t, c1)[x]
    BY <1>1
  <2>2. \E c2 \in Folder : \E y \in DOMAIN Entries(t, c2) :
           from(d2, j) = <<c2, y>> /\ Entries(s, d2)[j] = Entries(t, c2)[y]
    BY <1>1
  <2>3. from(d1, i) = from(d2, j)
    BY <2>1, <2>2 DEF Forest, IdOnce
  <2> QED BY <1>3, <2>3
<1>6. NameOnce(s)
  <2> SUFFICES ASSUME NEW d \in Folder, NEW i \in DOMAIN Entries(s, d),
                      NEW j \in DOMAIN Entries(s, d),
                      Entries(s, d)[i].name = Entries(s, d)[j].name
               PROVE  i = j
    BY DEF NameOnce
  <2>1. CASE d # to
    <3>1. \E c1 \in Folder : \E x \in DOMAIN Entries(t, c1) :
             /\ from(d, i) = <<c1, x>> /\ Entries(s, d)[i] = Entries(t, c1)[x]
             /\ c1 # d => d = to /\ i = m + 1 /\ c1 = here /\ x = p
      BY <1>1
    <3>2. \E c2 \in Folder : \E y \in DOMAIN Entries(t, c2) :
             /\ from(d, j) = <<c2, y>> /\ Entries(s, d)[j] = Entries(t, c2)[y]
             /\ c2 # d => d = to /\ j = m + 1 /\ c2 = here /\ y = p
      BY <1>1
    <3>3. from(d, i) = from(d, j)
      BY <2>1, <3>1, <3>2 DEF Forest, NameOnce
    <3> QED BY <1>3, <3>3
  <2>2. CASE d = to
    <3>1. \A x \in DOMAIN Entries(s, d) : x \in 1..m \/ x = m + 1
      BY <2>2
    <3>2. CASE i \in 1..m /\ j \in 1..m
      BY <2>2, <3>2 DEF Forest, NameOnce
    <3>3. CASE i = m + 1 \/ j = m + 1
      BY <2>2, <3>1, <3>3
    <3> QED BY <3>1, <3>2, <3>3
  <2> QED BY <2>1, <2>2
<1>7. AllListed(s)
  <2> SUFFICES ASSUME NEW c \in DirCol \cup FileCol, Present(s, c)
               PROVE  \E d \in Folder : \E i \in DOMAIN Entries(s, d) : Entries(s, d)[i].id = c
    BY DEF AllListed
  <2>1. PICK d \in Folder : \E i \in DOMAIN Entries(t, d) : Entries(t, d)[i].id = c
    BY <1>0 DEF Forest, AllListed
  <2>2. PICK i \in DOMAIN Entries(t, d) : Entries(t, d)[i].id = c
    BY <2>1
  <2> QED BY <1>2, <2>2
<1>8. NoCycle(s)
  <2> SUFFICES ASSUME NEW S \in SUBSET DirCol, S # {}, \A c \in S : Present(s, c),
                      \A c \in S : Parent(s, c) \in S
               PROVE  FALSE
    BY DEF NoCycle
  <2>1. \A c \in S : c \in Folder /\ Present(t, c)
    BY <1>0
  <2>2. CASE e.id \in S
    <3>1. e.dir
      <4>1. ~e.dir => e.id \in FileCol
        BY DEF Forest, Links
      <4> QED BY <2>1, <2>2, <4>1, Columns
    <3>2. to \in S
      BY <2>2, <3>1
    <3> DEFINE R == S \cap A
    <3>3. R \in SUBSET DirCol /\ R # {} /\ \A c \in R : Present(t, c)
      BY <2>1, <3>2
    <3>4. PICK c \in R : Parent(t, c) \notin R
      BY <3>3, Zenon DEF Forest, NoCycle
    <3>5. c \in S /\ c \in A /\ c \in DirCol /\ c # e.id /\ c \in Folder
      BY <2>1, <3>4
    <3> QED BY <3>4, <3>5
  <2>3. CASE e.id \notin S
    <3>1. PICK c \in S : Parent(t, c) \notin S
      BY <2>1, Zenon DEF Forest, NoCycle
    <3>2. c \in Folder \ {e.id}
      BY <2>1, <2>3
    <3> QED BY <3>1, <3>2
  <2> QED BY <2>2, <2>3
<1> QED BY <1>4, <1>5, <1>6, <1>7, <1>8 DEF Forest

-----------------------------------------------------------------------------
(* The commands keep the tree.                                              *)

Good(t, m) == Typed(t, m) /\ Tree(t)

LEMMA GoodCwd ==
    ASSUME NEW m, NEW t, Good(t, m)
    PROVE  /\ Cwd(t) \in Folder /\ Cwd(t) \in Column /\ Present(t, Cwd(t))
           /\ Here(t) = t[Cwd(t)].val /\ Here(t) \in FolderCell
           /\ Typed(t, m) /\ Rooted(t) /\ Forest(t)
<1>1. Cwd(t) \in Folder /\ Present(t, Cwd(t)) /\ Typed(t, m)
  BY TreeIs DEF Good, Typed, Rooted
<1>2. Here(t) = t[Cwd(t)].val /\ Here(t) \in FolderCell
  BY <1>1, DirIs DEF Here
<1> QED BY <1>1, <1>2, Columns, TreeIs DEF Good

\* What the writes of a folder's cell do to its entries.
LEMMA WithIs ==
    ASSUME NEW d \in FolderCell, NEW e \in EntryType
    PROVE  /\ With(d, e) \in FolderCell /\ With(d, e).parent = d.parent
           /\ DOMAIN d.entries = 1..Len(d.entries) /\ Len(d.entries) \in Nat
           /\ DOMAIN With(d, e).entries = 1..(Len(d.entries) + 1)
           /\ \A i \in 1..Len(d.entries) : With(d, e).entries[i] = d.entries[i]
           /\ With(d, e).entries[Len(d.entries) + 1] = e
<1>1. d.entries \in Seq(EntryType) /\ d.parent \in Column
  BY DEF FolderCell, EntryType
<1> DEFINE r == Append(d.entries, e)
<1>2. /\ r \in Seq(EntryType) /\ Len(r) = Len(d.entries) + 1
      /\ \A i \in 1..Len(d.entries) : r[i] = d.entries[i]
      /\ r[Len(d.entries) + 1] = e
  BY <1>1, AppendProperties
<1>3. DOMAIN r = 1..Len(r) /\ DOMAIN d.entries = 1..Len(d.entries) /\ Len(d.entries) \in Nat
  BY <1>1, <1>2
<1>4. With(d, e) = [d EXCEPT !.entries = r]
  BY DEF With
<1> HIDE DEF r
<1>5. With(d, e) \in FolderCell /\ With(d, e).parent = d.parent /\ With(d, e).entries = r
  BY <1>1, <1>2, <1>4 DEF FolderCell, EntryType
<1> QED BY <1>2, <1>3, <1>5

LEMMA WithoutIs ==
    ASSUME NEW d \in FolderCell, NEW n, Ext!Min(At(d, n)) \in DOMAIN d.entries
    PROVE  /\ Without(d, n) \in FolderCell /\ Without(d, n).parent = d.parent
           /\ DOMAIN d.entries = 1..Len(d.entries) /\ Len(d.entries) \in Nat \ {0}
           /\ Without(d, n).entries = Ext!RemoveAt(d.entries, Ext!Min(At(d, n)))
           /\ DOMAIN Without(d, n).entries = 1..(Len(d.entries) - 1)
           /\ \A i \in 1..(Len(d.entries) - 1) :
                 Without(d, n).entries[i] =
                     IF i < Ext!Min(At(d, n)) THEN d.entries[i] ELSE d.entries[i + 1]
<1>1. d.entries \in Seq(EntryType) /\ d.parent \in Column
  BY DEF FolderCell, EntryType
<1> DEFINE p == Ext!Min(At(d, n))
           r == Ext!RemoveAt(d.entries, p)
<1>2. /\ Len(d.entries) \in Nat \ {0} /\ DOMAIN d.entries = 1..Len(d.entries)
      /\ r \in Seq(EntryType) /\ DOMAIN r = 1..(Len(d.entries) - 1)
      /\ \A i \in 1..(Len(d.entries) - 1) :
            r[i] = IF i < p THEN d.entries[i] ELSE d.entries[i + 1]
  BY <1>1, RemoveAtIs
<1>3. Without(d, n) = [d EXCEPT !.entries = r]
  BY DEF Without
<1> HIDE DEF r, p
<1>4. /\ Without(d, n) \in FolderCell /\ Without(d, n).parent = d.parent
      /\ Without(d, n).entries = r
  BY <1>1, <1>2, <1>3 DEF FolderCell, EntryType
<1> QED BY <1>2, <1>4 DEF p, r

LEMMA CreateGood ==
    ASSUME NEW m \in Nat, NEW t, Good(t, m), NEW n \in Name, ~Has(Here(t), n),
           NEW dir \in BOOLEAN, NEW id, NEW val, ~Present(t, id),
           IF dir THEN id \in DirCol /\ val = [parent |-> Cwd(t), entries |-> <<>>]
                  ELSE id \in FileCol /\ val \in FileCell
    PROVE  Good(Create(t, n, id, dir, val, m), m)
<1> DEFINE here == Cwd(t)
           e == [name |-> n, dir |-> dir, id |-> id]
           t1 == Put(t, id, val, m)
           s == Put(t1, here, With(Here(t), e), m)
           k == Len(Entries(t, here))
<1>0. /\ here \in Folder /\ here \in Column /\ Present(t, here) /\ Here(t) \in FolderCell
      /\ Here(t) = t[here].val /\ Typed(t, m) /\ Rooted(t) /\ Forest(t)
      /\ Here(t) = Dir(t, here)
  BY GoodCwd DEF Here
<1>1. id \in Column /\ id # CurDirCol /\ id # here /\ id # RootCol /\ here # CurDirCol
  BY <1>0, Columns
<1>2. Fits(id, val)
  <2>0. <<>> \in Seq([name : Name, dir : BOOLEAN, id : Column])
    OBVIOUS
  <2>1. dir => val \in FolderCell
    <3>1. [parent |-> here, entries |-> <<>>] \in FolderCell
      BY <1>0, <2>0, Zenon DEF FolderCell
    <3> QED BY <3>1
  <2> QED BY <2>1, <1>1, Columns DEF Fits
<1>3. e \in EntryType /\ e.name = n /\ e.dir = dir /\ e.id = id
  BY <1>1 DEF EntryType
<1> HIDE DEF e
<1>4. /\ Typed(t1, m) /\ Present(t1, id) /\ t1[id].val = val
      /\ \A d \in Column \ {id} : t1[d] = t[d]
  BY <1>0, <1>1, <1>2, PutIs
<1>5. /\ With(Here(t), e) \in FolderCell /\ With(Here(t), e).parent = Here(t).parent
      /\ k \in Nat /\ DOMAIN Entries(t, here) = 1..k
      /\ DOMAIN With(Here(t), e).entries = 1..(k + 1)
      /\ \A i \in 1..k : With(Here(t), e).entries[i] = Entries(t, here)[i]
      /\ With(Here(t), e).entries[k + 1] = e
  BY <1>0, <1>3, WithIs DEF Entries
<1>6. Fits(here, With(Here(t), e))
  BY <1>0, <1>5, Columns DEF Fits
<1> HIDE DEF t1, k
<1>7. /\ Typed(s, m) /\ Present(s, here) /\ s[here].val = With(Here(t), e)
      /\ \A d \in Column \ {here} : s[d] = t1[d]
  BY <1>0, <1>4, <1>6, PutIs
<1> HIDE DEF s
<1>8. /\ s[id] = t1[id] /\ Present(s, id) /\ s[id].val = val
      /\ \A d \in Column \ {here, id} : s[d] = t[d]
  <2>1. s[id] = t1[id]
    BY <1>1, <1>7
  <2> QED BY <1>4, <1>7, <2>1 DEF Present
<1>9. Dir(s, here) = With(Here(t), e)
  BY <1>0, <1>7 DEF Dir
<1>10. \A c \in Column : Present(s, c) <=> c = id \/ Present(t, c)
  BY <1>0, <1>7, <1>8 DEF Present
<1>11. \A d \in Folder \ {here, id} : /\ Entries(s, d) = Entries(t, d)
                                      /\ Parent(s, d) = Parent(t, d)
  BY <1>8, Columns, SameDir
<1>12. dir => DOMAIN Entries(s, id) = {} /\ Parent(s, id) = here
  BY <1>1, <1>8, <1>0 DEF Dir, Entries, Parent
<1>13. DOMAIN Entries(t, id) = {}
  BY DEF Dir, Entries
<1>14. \A d \in Folder \ {here} : /\ DOMAIN Entries(s, d) = DOMAIN Entries(t, d)
                                  /\ \A i \in DOMAIN Entries(t, d) :
                                        Entries(s, d)[i] = Entries(t, d)[i]
  <2> SUFFICES ASSUME NEW d \in Folder \ {here}
               PROVE  /\ DOMAIN Entries(s, d) = DOMAIN Entries(t, d)
                      /\ \A i \in DOMAIN Entries(t, d) : Entries(s, d)[i] = Entries(t, d)[i]
    OBVIOUS
  <2>1. CASE d = id
    <3>1. dir
      BY <2>1, Columns
    <3> QED BY <1>12, <1>13, <2>1, <3>1
  <2>2. CASE d # id
    BY <1>11, <2>2
  <2> QED BY <2>1, <2>2
<1>15. /\ DOMAIN Entries(s, here) = 1..(k + 1) /\ Entries(s, here)[k + 1] = e
       /\ \A i \in 1..k : Entries(s, here)[i] = Entries(t, here)[i]
       /\ Parent(s, here) = Parent(t, here)
  BY <1>0, <1>5, <1>9 DEF Entries, Parent
<1>16. \A i \in 1..k : Entries(t, here)[i].name # e.name
  BY <1>0, <1>3, <1>5 DEF Has, At, Entries
<1>17. \A d \in Folder \ {id} : Parent(s, d) = Parent(t, d)
  BY <1>11, <1>15
<1>18. Forest(s)
  <2>1. /\ e.dir => e.id \in DirCol /\ Parent(s, e.id) = here
        /\ ~e.dir => e.id \in FileCol
        /\ ~Present(t, e.id) /\ DOMAIN Entries(t, e.id) = {} /\ e.id = id
    BY <1>3, <1>12, <1>13
  <2> HIDE DEF here
  <2> QED
    BY <1>0, <1>5, <1>10, <1>14, <1>15, <1>16, <1>17, <2>1, CreateForest
<1>19. Cwd(s) = Cwd(t)
  <2>1. CurDirCol \in Column \ {here, id}
    BY <1>1, Columns
  <2> QED BY <1>8, <2>1 DEF Cwd
<1>20. Rooted(s)
  <2>1. Parent(s, RootCol) = Parent(t, RootCol) /\ Present(s, RootCol)
    BY <1>0, <1>1, <1>10, <1>17, Columns DEF Rooted
  <2> QED BY <1>0, <1>7, <1>19, <2>1 DEF Rooted, Parent
<1>21. Create(t, n, id, dir, val, m) = s
  BY DEF Create, s, t1, here, e
<1> QED BY <1>7, <1>18, <1>20, <1>21, TreeIs DEF Good

LEMMA UploadGood ==
    ASSUME NEW m \in Nat, NEW t, Good(t, m), NEW n \in Name, ~Has(Here(t), n),
           \E c \in FileCol : ~Present(t, c)
    PROVE  Good(Upload(t, n, m), m)
<1>1. NewId(t, FileCol) \in FileCol /\ ~Present(t, NewId(t, FileCol))
  BY DEF NewId
<1>2. [text |-> m] \in FileCell
  BY DEF FileCell
<1> QED BY <1>1, <1>2, CreateGood DEF Upload

LEMMA MakeDirGood ==
    ASSUME NEW m \in Nat, NEW t, Good(t, m), NEW n \in Name, ~Has(Here(t), n),
           \E c \in DirCol : ~Present(t, c)
    PROVE  Good(MakeDir(t, n, m), m)
<1>1. NewId(t, DirCol) \in DirCol /\ ~Present(t, NewId(t, DirCol))
  BY DEF NewId
<1> QED BY <1>1, CreateGood DEF MakeDir

\* Another current folder.
LEMMA EnterGood ==
    ASSUME NEW m \in Nat, NEW t, Good(t, m), NEW f \in Folder, Present(t, f)
    PROVE  /\ Good(Put(t, CurDirCol, f, m), m)
           /\ Cwd(Put(t, CurDirCol, f, m)) = f
           /\ \A c \in Column \ {CurDirCol} : Put(t, CurDirCol, f, m)[c] = t[c]
<1> DEFINE s == Put(t, CurDirCol, f, m)
<1>1. Typed(t, m) /\ Rooted(t) /\ Forest(t)
  BY GoodCwd
<1>2. Fits(CurDirCol, f)
  BY Columns DEF Fits
<1>3. /\ Typed(s, m) /\ s[CurDirCol].val = f
      /\ \A c \in Column \ {CurDirCol} : s[c] = t[c]
  BY <1>1, <1>2, Columns, PutIs
<1> HIDE DEF s
<1>4. Forest(s)
  BY <1>1, <1>3, SameForest
<1>5. Cwd(s) = f
  BY <1>3 DEF Cwd
<1>6. RootCol \in Column \ {CurDirCol} /\ f \in Column \ {CurDirCol}
  BY Columns
<1>7. Rooted(s)
  BY <1>1, <1>3, <1>5, <1>6, SameDir DEF Rooted, Parent
<1> QED BY <1>3, <1>4, <1>5, <1>7, TreeIs DEF Good, s

LEMMA ChangeDirGood ==
    ASSUME NEW m \in Nat, NEW t, Good(t, m), NEW n,
           n = ".." \/ Subfolders(Here(t), n) # {}
    PROVE  Good(ChangeDir(t, n, m), m)
<1>0. /\ Cwd(t) \in Folder /\ Here(t) = Dir(t, Cwd(t)) /\ Typed(t, m)
      /\ Rooted(t) /\ Forest(t) /\ Present(t, Cwd(t))
  BY GoodCwd DEF Here
<1>1. CASE n = ".."
  <2>1. Parent(t, Cwd(t)) \in Folder /\ Present(t, Parent(t, Cwd(t)))
    <3>1. CASE Cwd(t) = RootCol
      BY <1>0, <3>1, Columns DEF Rooted, Parent
    <3>2. CASE Cwd(t) \in DirCol
      <4>1. PICK d \in Folder : \E i \in DOMAIN Entries(t, d) : Entries(t, d)[i].id = Cwd(t)
        BY <1>0, <3>2 DEF Forest, AllListed
      <4>2. PICK i \in DOMAIN Entries(t, d) : Entries(t, d)[i].id = Cwd(t)
        BY <4>1
      <4>3. Parent(t, Cwd(t)) = d
        BY <1>0, <3>2, <4>2, Columns DEF Forest, Links
      <4>4. Present(t, d)
        BY <1>0, <4>2, DirIs
      <4> QED BY <4>3, <4>4
    <3> QED BY <1>0, <3>1, <3>2, Columns
  <2>2. ChangeDir(t, n, m) = Put(t, CurDirCol, Parent(t, Cwd(t)), m)
    BY <1>1 DEF ChangeDir, Parent, Here
  <2> QED BY <2>1, <2>2, EnterGood
<1>2. CASE n # ".."
  <2>0. PICK e \in Subfolders(Here(t), n) : TRUE
    BY <1>2
  <2>1. PICK i \in DOMAIN Entries(t, Cwd(t)) :
           Entries(t, Cwd(t))[i].name = n /\ Entries(t, Cwd(t))[i].dir
    <3>1. e \in Ext!ToSet(Entries(t, Cwd(t))) /\ e.name = n /\ e.dir
      BY <2>0 DEF Subfolders, Entries, Here
    <3> QED BY <3>1 DEF Ext!ToSet
  <2>2. Has(Dir(t, Cwd(t)), n)
    BY <2>1 DEF Has, At, Entries
  <2> DEFINE p == Ext!Min(At(Dir(t, Cwd(t)), n))
  <2>3. /\ p \in DOMAIN Entries(t, Cwd(t)) /\ Entry(Dir(t, Cwd(t)), n) = Entries(t, Cwd(t))[p]
        /\ Entry(Dir(t, Cwd(t)), n).name = n
    BY <1>0, <2>2, EntryIs
  <2> HIDE DEF p
  <2>4. p = i
    BY <1>0, <2>1, <2>3 DEF Forest, NameOnce
  <2>5. /\ Entries(t, Cwd(t))[i].id \in DirCol /\ Present(t, Entries(t, Cwd(t))[i].id)
    BY <1>0, <2>1 DEF Forest, Links
  <2>6. ChangeDir(t, n, m) = Put(t, CurDirCol, Entries(t, Cwd(t))[i].id, m)
    BY <1>2, <2>3, <2>4 DEF ChangeDir, Here
  <2> QED BY <2>5, <2>6, EnterGood, Columns
<1> QED BY <1>1, <1>2

LEMMA RenameGood ==
    ASSUME NEW m \in Nat, NEW t, Good(t, m), NEW old \in Name, NEW new \in Name,
           Has(Here(t), old), ~Has(Here(t), new)
    PROVE  Good(Rename(t, old, new, m), m)
<1> DEFINE here == Cwd(t)
           p == Ext!Min(At(Here(t), old))
           d2 == [Here(t) EXCEPT !.entries[p].name = new]
           s == Put(t, here, d2, m)
           x == Entries(t, here)
           y == [x EXCEPT ![p] = [x[p] EXCEPT !.name = new]]
<1>0. /\ here \in Folder /\ here \in Column /\ Present(t, here) /\ Here(t) \in FolderCell
      /\ Here(t) = t[here].val /\ Typed(t, m) /\ Rooted(t) /\ Forest(t)
      /\ Here(t) = Dir(t, here)
  BY GoodCwd DEF Here
<1>1. /\ p \in DOMAIN x /\ x \in Seq(EntryType)
      /\ Here(t).entries = x /\ Here(t).parent \in Column
  BY <1>0, EntryIs, DirIs DEF Entries, FolderCell
<1> HIDE DEF p, x
<1>2. x[p] \in EntryType
  BY <1>1
<1>3. /\ [x[p] EXCEPT !.name = new] \in EntryType
      /\ [x[p] EXCEPT !.name = new].id = x[p].id
      /\ [x[p] EXCEPT !.name = new].dir = x[p].dir
      /\ [x[p] EXCEPT !.name = new].name = new
  BY <1>2 DEF EntryType
<1>4. /\ y \in Seq(EntryType) /\ DOMAIN y = DOMAIN x
      /\ \A i \in DOMAIN x : y[i] = IF i = p THEN [x[p] EXCEPT !.name = new] ELSE x[i]
  <2>1. y \in Seq(EntryType) /\ Len(y) = Len(x)
    BY <1>1, <1>3, ExceptSeq
  <2> QED BY <1>1, <2>1
<1>5. d2 = [Here(t) EXCEPT !.entries = y]
  BY <1>0, <1>1 DEF FolderCell
<1> HIDE DEF y, d2
<1>6. d2 \in FolderCell /\ d2.parent = Here(t).parent /\ d2.entries = y
  BY <1>0, <1>1, <1>4, <1>5 DEF FolderCell, EntryType
<1>7. Fits(here, d2)
  BY <1>0, <1>6, Columns DEF Fits
<1>8. /\ Typed(s, m) /\ Present(s, here) /\ s[here].val = d2
      /\ \A d \in Column \ {here} : s[d] = t[d]
  BY <1>0, <1>7, PutIs
<1> HIDE DEF s
<1>9. Entries(s, here) = y /\ Parent(s, here) = Parent(t, here)
  BY <1>0, <1>6, <1>8 DEF Dir, Entries, Parent
<1>10. \A d \in Column \ {here} : /\ Entries(s, d) = Entries(t, d)
                                  /\ Parent(s, d) = Parent(t, d)
                                  /\ Present(s, d) <=> Present(t, d)
  BY <1>8, SameDir
<1>11. \A c \in Column : Present(s, c) <=> Present(t, c)
  BY <1>0, <1>8, <1>10
<1>12. \A d \in Folder : /\ Parent(s, d) = Parent(t, d)
                         /\ DOMAIN Entries(s, d) = DOMAIN Entries(t, d)
  BY <1>4, <1>9, <1>10, Columns DEF x
<1>13. ASSUME NEW d \in Folder, NEW i \in DOMAIN Entries(t, d)
       PROVE  /\ Entries(s, d)[i].id = Entries(t, d)[i].id
              /\ Entries(s, d)[i].dir = Entries(t, d)[i].dir
              /\ Entries(s, d)[i].name =
                    IF d = here /\ i = p THEN new ELSE Entries(t, d)[i].name
  <2>1. CASE d = here
    BY <1>3, <1>4, <1>9, <2>1 DEF x
  <2>2. CASE d # here
    BY <1>10, <2>2, Columns
  <2> QED BY <2>1, <2>2
<1>14. \A i \in DOMAIN Entries(t, here) : Entries(t, here)[i].name # new
  BY <1>0 DEF Has, At, Entries
<1>15. Forest(s)
  <2>1. \A d \in Folder : \A i \in DOMAIN Entries(t, d) :
           /\ Entries(s, d)[i].id = Entries(t, d)[i].id
           /\ Entries(s, d)[i].dir = Entries(t, d)[i].dir
           /\ Entries(s, d)[i].name = IF d = here /\ i = p THEN new ELSE Entries(t, d)[i].name
    BY <1>13
  <2> HIDE DEF here
  <2>2. Renamed(t, s, here, p, new)
    BY <1>11, <1>12, <1>14, <2>1 DEF Renamed
  <2> QED BY <1>0, <2>2, RenameForest
<1>16. Cwd(s) = Cwd(t) /\ Rooted(s)
  <2>1. CurDirCol \in Column \ {here}
    BY <1>0, Columns
  <2>2. Cwd(s) = Cwd(t)
    BY <1>8, <2>1 DEF Cwd
  <2>3. Present(s, RootCol) /\ Parent(s, RootCol) = Parent(t, RootCol)
    BY <1>0, <1>11, <1>12, Columns DEF Rooted
  <2> QED BY <1>0, <1>8, <2>2, <2>3 DEF Rooted, Parent
<1>17. Rename(t, old, new, m) = s
  BY DEF Rename, s, d2, p
<1> QED BY <1>8, <1>15, <1>16, <1>17, TreeIs DEF Good

\* The last writes of kvs_rm: the cell, which holds nothing, and its entry.
Unlisted(t, n, m) ==
    Put(Erase(t, Entry(Here(t), n).id, m), Cwd(t), Without(Here(t), n), m)

LEMMA UnlistedGood ==
    ASSUME NEW m \in Nat, NEW t, Good(t, m), NEW n, Has(Here(t), n),
           Entry(Here(t), n).dir => DOMAIN Entries(t, Entry(Here(t), n).id) = {}
    PROVE  /\ Good(Unlisted(t, n, m), m)
           /\ Cwd(Unlisted(t, n, m)) = Cwd(t)
           /\ Here(Unlisted(t, n, m)) = Without(Here(t), n)
           /\ \A d \in Folder \ {Cwd(t), Entry(Here(t), n).id} : Unlisted(t, n, m)[d] = t[d]
<1> DEFINE here == Cwd(t)
           p == Ext!Min(At(Here(t), n))
           c == Entry(Here(t), n).id
           t1 == Erase(t, c, m)
           s == Put(t1, here, Without(Here(t), n), m)
           k == Len(Entries(t, here))
<1>0. /\ here \in Folder /\ here \in Column /\ Present(t, here) /\ Here(t) \in FolderCell
      /\ Here(t) = t[here].val /\ Typed(t, m) /\ Rooted(t) /\ Forest(t)
      /\ Here(t) = Dir(t, here) /\ Here(t).entries = Entries(t, here)
  BY GoodCwd DEF Here, Entries
<1>1. p \in DOMAIN Entries(t, here) /\ Entry(Here(t), n) = Entries(t, here)[p]
  BY <1>0, EntryIs
<1>2. /\ c \in DirCol \cup FileCol /\ (c \in Folder => DOMAIN Entries(t, c) = {})
      /\ c # here /\ c \in Column
  <2>1. c = Entries(t, here)[p].id
    BY <1>1
  <2>2. /\ Entry(Here(t), n).dir => c \in DirCol
        /\ ~Entry(Here(t), n).dir => c \in FileCol
    BY <1>0, <1>1 DEF Forest, Links
  <2>3. c # here
    BY <1>0, <1>1, NotInItself
  <2> QED BY <2>2, <2>3, Columns
<1>3. c = Entries(t, here)[p].id
  BY <1>1
<1>4. /\ Without(Here(t), n) \in FolderCell /\ Without(Here(t), n).parent = Here(t).parent
      /\ DOMAIN Entries(t, here) = 1..k /\ k \in Nat
      /\ DOMAIN Without(Here(t), n).entries = 1..(k - 1)
      /\ \A i \in 1..(k - 1) : Without(Here(t), n).entries[i] =
            IF i < p THEN Entries(t, here)[i] ELSE Entries(t, here)[i + 1]
  BY <1>0, <1>1, WithoutIs
<1>5. Fits(here, Without(Here(t), n))
  BY <1>0, <1>4, Columns DEF Fits
<1> HIDE DEF p, c, k
<1>6. /\ Typed(t1, m) /\ ~Present(t1, c)
      /\ \A d \in Column \ {c} : t1[d] = t[d]
  BY <1>0, <1>2, EraseIs
<1> HIDE DEF t1
<1>7. /\ Typed(s, m) /\ Present(s, here) /\ s[here].val = Without(Here(t), n)
      /\ \A d \in Column \ {here} : s[d] = t1[d]
  BY <1>0, <1>5, <1>6, PutIs
<1> HIDE DEF s
<1>8. s[c] = t1[c] /\ \A d \in Column \ {here, c} : s[d] = t[d]
  BY <1>2, <1>6, <1>7
<1>9. Dir(s, here) = Without(Here(t), n)
  BY <1>0, <1>7 DEF Dir
<1>10. ~Present(s, c)
  BY <1>6, <1>8 DEF Present
<1>11. \A d \in Column \ {c} : Present(s, d) <=> Present(t, d)
  BY <1>0, <1>7, <1>8, SameDir
<1>12. \A d \in Folder \ {here, c} : /\ Entries(s, d) = Entries(t, d)
                                     /\ Parent(s, d) = Parent(t, d)
  BY <1>8, Columns, SameDir
<1>13. DOMAIN Entries(s, c) = {}
  BY <1>10 DEF Dir, Entries
<1>14. /\ DOMAIN Entries(s, here) = 1..(k - 1) /\ Parent(s, here) = Parent(t, here)
       /\ \A i \in 1..(k - 1) : Entries(s, here)[i] =
             IF i < p THEN Entries(t, here)[i] ELSE Entries(t, here)[i + 1]
  BY <1>0, <1>4, <1>9 DEF Entries, Parent
<1>15. \A d \in Folder \ {c} : Parent(s, d) = Parent(t, d)
  BY <1>12, <1>14
<1>16. DOMAIN Entries(t, c) = {} \/ c \notin Folder
  BY <1>2
<1>17. Forest(s)
  <2> HIDE DEF here
  <2>1. Dropped(t, s, here, p, c, k)
    BY <1>1, <1>2, <1>3, <1>4, <1>10, <1>11, <1>12, <1>13, <1>14, <1>15, <1>16 DEF Dropped
  <2> QED BY <1>0, <1>4, <2>1, RemoveForest
<1>18. Cwd(s) = Cwd(t)
  <2>1. CurDirCol \in Column \ {here, c}
    BY <1>0, <1>2, Columns
  <2> QED BY <1>8, <2>1 DEF Cwd
<1>19. Rooted(s)
  <2>1. RootCol \in Folder \ {c} /\ RootCol \in Column \ {c}
    BY <1>2, Columns
  <2>2. Present(s, RootCol) /\ Parent(s, RootCol) = Parent(t, RootCol)
    BY <1>0, <1>11, <1>15, <2>1 DEF Rooted
  <2> QED BY <1>0, <1>7, <1>18, <2>2 DEF Rooted, Parent
<1>20. Unlisted(t, n, m) = s
  BY DEF Unlisted, s, t1, c
<1>21. Good(s, m)
  BY <1>7, <1>17, <1>19, TreeIs DEF Good
<1>22. Here(s) = Without(Here(t), n)
  BY <1>9, <1>18 DEF Here
<1>23. \A d \in Folder \ {here, c} : s[d] = t[d]
  BY <1>8, Columns
<1> QED BY <1>18, <1>20, <1>21, <1>22, <1>23 DEF c

-----------------------------------------------------------------------------
(* The recursions of the model: each value of f follows from the one        *)
(* before.  One lemma gives the functions that exist, for the five of them. *)

After(what, a, b, prior, i) ==
    CASE what = "walk"    -> Step(a, prior, b[i])
      [] what = "emptied" -> a[prior][b[i].name]
      [] what = "replay"  -> IF b[i].kind = "logout" THEN prior ELSE Effect(prior, b[i])
      [] what = "removal" -> [t \in Table |-> [n \in Name |-> RemoveEntry(prior, t, n, a)]]
      [] what = "sum"     -> prior + b[i]
      [] OTHER            -> prior

IsRun(f, what, base, a, b, n) ==
    f = [i \in 0..n |-> IF i = 0 THEN base ELSE After(what, a, b, f[i - 1], i)]

LEMMA RunExists ==
    ASSUME NEW what, NEW base, NEW a, NEW b, NEW n \in Nat
    PROVE  \E f : IsRun(f, what, base, a, b, n)
<1> DEFINE Fails == {m \in Nat : ~ \E f : IsRun(f, what, base, a, b, m)}
<1> SUFFICES ASSUME Fails # {} PROVE FALSE
  OBVIOUS
<1>1. PICK m \in Fails : \A j \in Fails : m <= j
  <2>1. Fails \in SUBSET Nat
    OBVIOUS
  <2> HIDE DEF Fails
  <2> QED BY <2>1, LeastNat
<1>2. m \in Nat /\ ~ \E f : IsRun(f, what, base, a, b, m)
  OBVIOUS
<1>3. CASE m = 0
  <2> DEFINE f == [i \in 0..0 |-> base]
  <2>1. f = [i \in 0..0 |-> IF i = 0 THEN base ELSE After(what, a, b, f[i - 1], i)]
    OBVIOUS
  <2> HIDE DEF f
  <2> QED BY <1>2, <1>3, <2>1 DEF IsRun
<1>4. CASE m # 0
  <2>1. m - 1 \in Nat /\ m - 1 \notin Fails
    BY <1>1, <1>2, <1>4
  <2>2. PICK old : IsRun(old, what, base, a, b, m - 1)
    BY <2>1
  <2> DEFINE f == [i \in 0..m |-> IF i = m THEN After(what, a, b, old[m - 1], m) ELSE old[i]]
  <2>3. \A i \in 0..(m - 1) :
           old[i] = IF i = 0 THEN base ELSE After(what, a, b, old[i - 1], i)
    BY <2>2 DEF IsRun
  <2>4. ASSUME NEW i \in 0..m
        PROVE  f[i] = IF i = 0 THEN base ELSE After(what, a, b, f[i - 1], i)
    <3>1. CASE i = m
      <4>1. f[i] = After(what, a, b, old[m - 1], m)
        BY <3>1
      <4>2. f[i - 1] = old[m - 1]
        BY <1>2, <1>4, <3>1
      <4> HIDE DEF f
      <4> QED BY <1>4, <3>1, <4>1, <4>2
    <3>2. CASE i # m
      <4>1. i \in 0..(m - 1) /\ f[i] = old[i]
        BY <1>2, <3>2
      <4>2. i # 0 => i - 1 \in 0..m /\ i - 1 # m
        BY <1>2, <3>2
      <4>3. i # 0 => f[i - 1] = old[i - 1]
        BY <4>2
      <4> HIDE DEF f
      <4> QED BY <2>3, <4>1, <4>3
    <3> QED BY <3>1, <3>2
  <2>5. f = [i \in 0..m |-> f[i]]
    OBVIOUS
  <2> HIDE DEF f
  <2>6. IsRun(f, what, base, a, b, m)
    BY <2>4, <2>5 DEF IsRun
  <2> QED BY <1>2, <2>6
<1> QED BY <1>3, <1>4

\* What a function of this kind is, value by value.
LEMMA RunIs ==
    ASSUME NEW f, NEW what, NEW base, NEW a, NEW b, NEW n \in Nat,
           IsRun(f, what, base, a, b, n)
    PROVE  /\ f[0] = base
           /\ \A i \in 1..n : f[i] = After(what, a, b, f[i - 1], i)
<1>1. \A i \in 0..n : f[i] = IF i = 0 THEN base ELSE After(what, a, b, f[i - 1], i)
  BY DEF IsRun
<1>2. 0 \in 0..n /\ \A i \in 1..n : i \in 0..n /\ i # 0
  OBVIOUS
<1> QED BY <1>1, <1>2

LEMMA WalkIs ==
    ASSUME NEW t, NEW path, Len(path) \in Nat
    PROVE  /\ Walk(t, path)[0] = RootCol
           /\ \A i \in 1..Len(path) : Walk(t, path)[i] = Step(t, Walk(t, path)[i - 1], path[i])
<1> DEFINE IsWalk(f) == f = [i \in 0..Len(path) |->
                                IF i = 0 THEN RootCol ELSE Step(t, f[i - 1], path[i])]
<1>1. PICK f : IsRun(f, "walk", RootCol, t, path, Len(path))
  BY RunExists
<1>2. \A i, x : After("walk", t, path, x, i) = Step(t, x, path[i])
  BY DEF After
<1>3. IsWalk(f)
  BY <1>1, <1>2 DEF IsRun
<1>4. Walk(t, path) = CHOOSE g : IsWalk(g)
  BY Zenon DEF Walk
<1>5. IsWalk(Walk(t, path))
  BY <1>3, <1>4
<1>6. 0 \in 0..Len(path) /\ \A i \in 1..Len(path) : i \in 0..Len(path) /\ i # 0
  OBVIOUS
<1> QED BY <1>5, <1>6

\* The folders on a path: each is in the one before it.
LEMMA WayIs ==
    ASSUME NEW m, NEW t, Good(t, m), NEW path, Len(path) \in Nat, Resolve(t, path) # Null
    PROVE  /\ \A i \in 0..Len(path) : /\ Walk(t, path)[i] \in Folder
                                       /\ Present(t, Walk(t, path)[i])
           /\ \A i \in 1..Len(path) : Parent(t, Walk(t, path)[i]) = Walk(t, path)[i - 1]
           /\ Resolve(t, path) \in Folder /\ Present(t, Resolve(t, path))
<1> DEFINE w(i) == Walk(t, path)[i]
           n == Len(path)
<1>0. Typed(t, m) /\ Rooted(t) /\ Forest(t)
  BY GoodCwd
<1>1. w(0) = RootCol /\ \A i \in 1..n : w(i) = Step(t, w(i - 1), path[i])
  BY WalkIs
<1>2. w(n) # Null
  BY DEF Resolve
<1> HIDE DEF w, n
<1>3. \A x : Step(t, Null, x) = Null
  <2>1. Dir(t, Null).entries = <<>>
    BY Columns DEF Dir
  <2>2. \A x : Subfolders(Dir(t, Null), x) = {}
    BY <2>1 DEF Subfolders, Ext!ToSet
  <2> QED BY <2>2 DEF Step
<1>4. ASSUME NEW c \in Folder, NEW x, Step(t, c, x) # Null
      PROVE  /\ Step(t, c, x) \in Folder /\ Present(t, Step(t, c, x))
             /\ Parent(t, Step(t, c, x)) = c
  <2> DEFINE found == Subfolders(Dir(t, c), x)
             e == CHOOSE y \in found : TRUE
  <2>1. found # {} /\ Step(t, c, x) = e.id
    BY <1>4 DEF Step
  <2>2. e \in found
    BY <2>1
  <2>3. e \in Ext!ToSet(Entries(t, c)) /\ e.dir
    BY <2>2 DEF Subfolders, Entries
  <2>4. PICK i \in DOMAIN Entries(t, c) : e = Entries(t, c)[i]
    BY <2>3 DEF Ext!ToSet
  <2> HIDE DEF e
  <2>5. e.id \in DirCol /\ Parent(t, e.id) = c /\ Present(t, e.id)
    BY <1>0, <2>3, <2>4 DEF Forest, Links
  <2> QED BY <2>1, <2>5, Columns
<1>5. \A i \in 0..n : w(i) # Null
  <2> DEFINE Bad == {j \in 0..n : w(n - j) = Null}
  <2> SUFFICES ASSUME Bad # {} PROVE FALSE
    <3> SUFFICES ASSUME NEW i \in 0..n, w(i) = Null PROVE n - i \in Bad
      OBVIOUS
    <3>1. n - i \in 0..n /\ n - (n - i) = i
      BY DEF n
    <3> QED BY <3>1
  <2>1. PICK j \in Bad : \A k \in Bad : j <= k
    <3>1. Bad \in SUBSET Nat
      OBVIOUS
    <3> HIDE DEF Bad
    <3> QED BY <3>1, LeastNat
  <2>2. j \in 0..n /\ w(n - j) = Null
    OBVIOUS
  <2>3. n \in Nat
    BY DEF n
  <2>4. j # 0
    BY <1>2, <2>2, <2>3
  <2>5. /\ j - 1 \in 0..n /\ ~(j <= j - 1) /\ n - (j - 1) \in 1..n
        /\ (n - (j - 1)) - 1 = n - j
    BY <2>2, <2>3, <2>4
  <2>6. w(n - (j - 1)) = Step(t, w(n - j), path[n - (j - 1)])
    BY <1>1, <2>5
  <2>7. w(n - (j - 1)) = Null
    BY <1>3, <2>2, <2>6
  <2> QED BY <2>1, <2>5, <2>7
<1>6. \A i \in 0..n : w(i) \in Folder /\ Present(t, w(i))
  <2> DEFINE Bad == {i \in 0..n : ~(w(i) \in Folder /\ Present(t, w(i)))}
  <2> SUFFICES ASSUME Bad # {} PROVE FALSE
    OBVIOUS
  <2>1. PICK j \in Bad : \A k \in Bad : j <= k
    <3>1. Bad \in SUBSET Nat
      OBVIOUS
    <3> HIDE DEF Bad
    <3> QED BY <3>1, LeastNat
  <2>2. j \in 0..n /\ ~(w(j) \in Folder /\ Present(t, w(j)))
    OBVIOUS
  <2>3. j # 0
    BY <1>0, <1>1, <2>2, Columns DEF Rooted
  <2>4. j \in 1..n /\ j - 1 \in 0..n /\ ~(j <= j - 1)
    BY <2>2, <2>3 DEF n
  <2>5. w(j - 1) \in Folder
    BY <2>1, <2>4
  <2>6. w(j) = Step(t, w(j - 1), path[j])
    BY <1>1, <2>4
  <2> QED BY <1>4, <1>5, <2>2, <2>5, <2>6
<1>7. ASSUME NEW i \in 1..n PROVE Parent(t, w(i)) = w(i - 1)
  <2>1. i - 1 \in 0..n /\ i \in 0..n
    BY DEF n
  <2>2. w(i) = Step(t, w(i - 1), path[i])
    BY <1>1
  <2> QED BY <1>4, <1>5, <1>6, <2>1, <2>2
<1>8. n \in 0..n /\ Resolve(t, path) = w(n)
  BY DEF n, w, Resolve
<1> QED BY <1>6, <1>7, <1>8 DEF w, n

LEMMA MoveGood ==
    ASSUME NEW m \in Nat, NEW t, Good(t, m), NEW n \in Name, NEW path, Len(path) \in Nat,
           NEW to, to = Resolve(t, path), to # Null, to # Cwd(t),
           Has(Here(t), n), ~Has(Dir(t, to), n),
           \A i \in 0..Len(path) : Walk(t, path)[i] # Entry(Here(t), n).id
    PROVE  Good(Move(t, n, to, m), m)
<1> DEFINE here == Cwd(t)
           p == Ext!Min(At(Here(t), n))
           e == Entry(Here(t), n)
           A == {Walk(t, path)[i] : i \in 0..Len(path)}
           d0 == [Dir(t, e.id) EXCEPT !.parent = to]
           t1 == IF e.dir THEN Put(t, e.id, d0, m) ELSE t
           d1 == With(Dir(t, to), e)
           t2 == Put(t1, to, d1, m)
           d2 == Without(Here(t), n)
           s == Put(t2, here, d2, m)
           k == Len(Entries(t, here))
           k2 == Len(Entries(t, to))
<1>0. /\ here \in Folder /\ here \in Column /\ Present(t, here) /\ Here(t) \in FolderCell
      /\ Here(t) = t[here].val /\ Typed(t, m) /\ Rooted(t) /\ Forest(t)
      /\ Here(t) = Dir(t, here) /\ Here(t).entries = Entries(t, here)
  BY GoodCwd DEF Here, Entries
<1>1. /\ to \in Folder /\ Present(t, to) /\ to \in Column /\ Dir(t, to) = t[to].val
      /\ Dir(t, to) \in FolderCell
  BY <1>0, WayIs, DirIs, Columns
<1>2. /\ p \in DOMAIN Entries(t, here) /\ e = Entries(t, here)[p]
      /\ e \in EntryType /\ e.name = n
  BY <1>0, EntryIs
<1>3. to \in A /\ e.id \notin A
  BY DEF Resolve
<1>4. \A c \in A : c \in DirCol => Parent(t, c) \in A
  <2> SUFFICES ASSUME NEW i \in 0..Len(path), Walk(t, path)[i] \in DirCol
               PROVE  Parent(t, Walk(t, path)[i]) \in A
    OBVIOUS
  <2>1. i # 0
    BY WalkIs, Columns
  <2>2. i \in 1..Len(path) /\ i - 1 \in 0..Len(path)
    BY <2>1
  <2>3. Parent(t, Walk(t, path)[i]) = Walk(t, path)[i - 1]
    BY <2>2, WayIs
  <2> QED BY <2>2, <2>3
<1>5. /\ e.dir => e.id \in DirCol /\ ~(e.id \in FileCol) /\ Present(t, e.id)
      /\ ~e.dir => e.id \in FileCol
      /\ e.id # here /\ e.id # to /\ e.id \in Column /\ e.id # CurDirCol
  <2>1. e.id # here
    BY <1>0, <1>2, NotInItself
  <2>2. /\ e.dir => e.id \in DirCol /\ Present(t, e.id)
        /\ ~e.dir => e.id \in FileCol
    BY <1>0, <1>2 DEF Forest, Links
  <2>3. e.id # to
    BY <1>3
  <2> QED BY <2>1, <2>2, <2>3, Columns
<1> HIDE DEF p, e, A
<1>6. e.dir => d0 \in FolderCell /\ d0.entries = Entries(t, e.id) /\ d0.parent = to
  <2> SUFFICES ASSUME e.dir
               PROVE  d0 \in FolderCell /\ d0.entries = Entries(t, e.id) /\ d0.parent = to
    OBVIOUS
  <2>1. Dir(t, e.id) \in FolderCell
    BY <1>0, <1>5, DirIs, Columns
  <2> QED BY <1>1, <2>1 DEF FolderCell, Entries
<1>7. /\ d1 \in FolderCell /\ d1.parent = Parent(t, to)
      /\ k2 \in Nat /\ DOMAIN Entries(t, to) = 1..k2 /\ DOMAIN d1.entries = 1..(k2 + 1)
      /\ \A i \in 1..k2 : d1.entries[i] = Entries(t, to)[i]
      /\ d1.entries[k2 + 1] = e
  BY <1>1, <1>2, WithIs DEF Entries, Parent
<1>8. /\ d2 \in FolderCell /\ d2.parent = Parent(t, here)
      /\ k \in Nat /\ DOMAIN Entries(t, here) = 1..k /\ DOMAIN d2.entries = 1..(k - 1)
      /\ \A i \in 1..(k - 1) : d2.entries[i] =
            IF i < p THEN Entries(t, here)[i] ELSE Entries(t, here)[i + 1]
  BY <1>0, <1>2, WithoutIs DEF Parent, p
<1> HIDE DEF d0, d1, d2, k, k2
<1>9. /\ Typed(t1, m) /\ \A d \in Column \ {e.id} : t1[d] = t[d]
      /\ e.dir => t1[e.id].val = d0 /\ Present(t1, e.id)
      /\ ~e.dir => t1 = t
  <2>1. CASE e.dir
    <3>1. Fits(e.id, d0)
      BY <1>5, <1>6, <2>1 DEF Fits
    <3> QED BY <1>0, <1>5, <2>1, <3>1, PutIs
  <2>2. CASE ~e.dir
    BY <1>0, <2>2
  <2> QED BY <2>1, <2>2
<1> HIDE DEF t1
<1>10. Fits(to, d1) /\ Fits(here, d2)
  BY <1>0, <1>1, <1>7, <1>8, Columns DEF Fits
<1>11. /\ Typed(t2, m) /\ Present(t2, to) /\ t2[to].val = d1
       /\ \A d \in Column \ {to} : t2[d] = t1[d]
  BY <1>1, <1>9, <1>10, PutIs
<1> HIDE DEF t2
<1>12. /\ Typed(s, m) /\ Present(s, here) /\ s[here].val = d2
       /\ \A d \in Column \ {here} : s[d] = t2[d]
  BY <1>0, <1>10, <1>11, PutIs
<1> HIDE DEF s, here
<1>13. to # here
  BY DEF here
<1>14. /\ s[to] = t2[to] /\ s[e.id] = t1[e.id]
       /\ \A d \in Column \ {here, to, e.id} : s[d] = t[d]
  BY <1>1, <1>5, <1>9, <1>11, <1>12, <1>13
<1>15. Dir(s, here) = d2 /\ Dir(s, to) = d1 /\ Present(s, to)
  BY <1>0, <1>1, <1>11, <1>12, <1>14 DEF Dir, Present
<1>16. e.dir => Present(s, e.id) /\ Dir(s, e.id) = d0
  BY <1>5, <1>9, <1>14 DEF Dir, Present
<1>17. ~e.dir => s[e.id] = t[e.id]
  BY <1>9, <1>14
<1>18. \A c \in Column : Present(s, c) <=> Present(t, c)
  <2> SUFFICES ASSUME NEW c \in Column PROVE Present(s, c) <=> Present(t, c)
    OBVIOUS
  <2>1. CASE c = here \/ c = to
    BY <1>0, <1>1, <1>12, <1>15, <2>1
  <2>2. CASE c = e.id
    BY <1>5, <1>16, <1>17, <2>2 DEF Present
  <2>3. CASE c \notin {here, to, e.id}
    BY <1>14, <2>3 DEF Present
  <2> QED BY <2>1, <2>2, <2>3
<1>19. \A d \in Folder \ {here, to} : Entries(s, d) = Entries(t, d)
  <2> SUFFICES ASSUME NEW d \in Folder \ {here, to} PROVE Entries(s, d) = Entries(t, d)
    OBVIOUS
  <2>1. CASE d = e.id
    <3>1. e.dir
      BY <1>5, <2>1, Columns
    <3> QED BY <1>6, <1>16, <2>1, <3>1 DEF Entries
  <2>2. CASE d # e.id
    BY <1>14, <2>2, Columns, SameDir
  <2> QED BY <2>1, <2>2
<1>20. \A d \in Folder \ {e.id} : Parent(s, d) = Parent(t, d)
  <2> SUFFICES ASSUME NEW d \in Folder \ {e.id} PROVE Parent(s, d) = Parent(t, d)
    OBVIOUS
  <2>1. CASE d = here
    BY <1>8, <1>15, <2>1 DEF Parent
  <2>2. CASE d = to
    BY <1>7, <1>15, <2>2 DEF Parent
  <2>3. CASE d # here /\ d # to
    BY <1>14, <2>3, Columns, SameDir
  <2> QED BY <2>1, <2>2, <2>3
<1>21. e.dir => Parent(s, e.id) = to
  BY <1>6, <1>16 DEF Parent
<1>22. \A i \in 1..k2 : Entries(t, to)[i].name # e.name
  BY <1>2, <1>7 DEF Has, At, Entries
<1>23. Moved(t, s, here, to, p, e, k, k2)
  <2>1. /\ DOMAIN Entries(s, here) = 1..(k - 1) /\ DOMAIN Entries(s, to) = 1..(k2 + 1)
        /\ \A i \in 1..(k - 1) : Entries(s, here)[i] =
              IF i < p THEN Entries(t, here)[i] ELSE Entries(t, here)[i + 1]
        /\ \A i \in 1..k2 : Entries(s, to)[i] = Entries(t, to)[i]
        /\ Entries(s, to)[k2 + 1] = e
    BY <1>7, <1>8, <1>15 DEF Entries
  <2> QED BY <1>2, <1>7, <1>8, <1>18, <1>19, <1>20, <1>21, <1>22, <2>1 DEF Moved
<1>24. Forest(s)
  <2>1. OnWay(t, to, e, A)
    BY <1>3, <1>4 DEF OnWay
  <2> QED BY <1>0, <1>1, <1>7, <1>8, <1>13, <1>23, <2>1, MoveForest
<1>25. Cwd(s) = Cwd(t)
  <2>1. CurDirCol \in Column \ {here, to, e.id}
    BY <1>0, <1>1, <1>5, Columns
  <2> QED BY <1>14, <2>1 DEF Cwd
<1>26. Rooted(s)
  <2>1. RootCol \in Folder \ {e.id} /\ RootCol \in Column
    BY <1>5, Columns
  <2>2. Present(s, RootCol) /\ Parent(s, RootCol) = Parent(t, RootCol)
    BY <1>0, <1>18, <1>20, <2>1 DEF Rooted
  <2> QED BY <1>0, <1>12, <1>25, <2>2 DEF Rooted, Parent, here
<1>27. Move(t, n, to, m) = s
  BY DEF Move, s, t2, t1, d0, d1, d2, e, here
<1> QED BY <1>12, <1>24, <1>26, <1>27, TreeIs DEF Good

-----------------------------------------------------------------------------
(* kvs_rm.  B holds the folders below the current one.                      *)

Below(t, B) ==
    /\ B \in SUBSET DirCol /\ Cwd(t) \notin B
    /\ \A c \in DirCol : Present(t, c) /\ (Parent(t, c) \in B \/ Parent(t, c) = Cwd(t))
                            => c \in B

\* What kvs_rm does to a table: s is t without n, nothing else than what is
\* below the current folder has changed.
Removed(t, s, n, B, m) ==
    /\ Good(s, m) /\ Cwd(s) = Cwd(t) /\ Here(s) = Without(Here(t), n)
    /\ \A d \in Folder : d \notin B /\ d # Cwd(t) => s[d] = t[d]

\* What is asked of the calls that a call makes.
Removes(rm, B, m) ==
    \A t \in Table : \A n \in Name :
        Good(t, m) /\ Has(Here(t), n) /\ Below(t, B) => Removed(t, rm[t][n], n, B, m)

LEMMA StaysBelow ==
    ASSUME NEW m, NEW t, NEW s, NEW n, NEW B, Good(t, m), Has(Here(t), n), Below(t, B),
           Removed(t, s, n, B, m)
    PROVE  Below(s, B)
<1>0. /\ Cwd(t) \in Folder /\ Present(t, Cwd(t)) /\ Typed(t, m) /\ Here(t) \in FolderCell
      /\ Here(t) = Dir(t, Cwd(t))
  BY GoodCwd DEF Here
<1>1. Good(s, m) /\ Cwd(s) = Cwd(t) /\ Here(s) = Without(Here(t), n)
  BY DEF Removed
<1>2. Here(s) = Dir(s, Cwd(t))
  BY <1>1 DEF Here
<1>3. Ext!Min(At(Here(t), n)) \in DOMAIN Here(t).entries
  BY <1>0, EntryIs DEF Entries
<1>4. Parent(s, Cwd(t)) = Parent(t, Cwd(t))
  <2>1. Without(Here(t), n).parent = Here(t).parent
    BY <1>0, <1>3, WithoutIs
  <2> QED BY <1>0, <1>1, <1>2, <2>1 DEF Parent
<1>5. ASSUME NEW c \in DirCol, Present(s, c), Parent(s, c) \in B \/ Parent(s, c) = Cwd(s)
      PROVE  c \in B
  <2>1. CASE c = Cwd(t)
    BY <1>0, <1>1, <1>4, <1>5, <2>1 DEF Below
  <2>2. CASE c # Cwd(t) /\ c \notin B
    <3>1. s[c] = t[c]
      BY <2>2, Columns DEF Removed
    <3> QED BY <1>1, <1>5, <3>1, SameDir DEF Below
  <2> QED BY <2>1, <2>2
<1> QED BY <1>1, <1>5 DEF Below

LEMMA EmptiedIs ==
    ASSUME NEW rm, NEW t, NEW names, Len(names) \in Nat
    PROVE  \E g : /\ g[0] = t
                  /\ \A i \in 1..Len(names) : g[i] = rm[g[i - 1]][names[i].name]
                  /\ Emptied(rm, t, names) = g[Len(names)]
<1> DEFINE IsEmptied(f) == f = [i \in 0..Len(names) |->
                                   IF i = 0 THEN t ELSE rm[f[i - 1]][names[i].name]]
<1>1. PICK f : IsRun(f, "emptied", t, rm, names, Len(names))
  BY RunExists
<1>2. \A i, x : After("emptied", rm, names, x, i) = rm[x][names[i].name]
  BY DEF After
<1>3. IsEmptied(f)
  BY <1>1, <1>2 DEF IsRun
<1> DEFINE g == CHOOSE h : IsEmptied(h)
<1>4. Emptied(rm, t, names) = g[Len(names)]
  BY Zenon DEF Emptied
<1>5. IsEmptied(g)
  BY <1>3
<1>6. 0 \in 0..Len(names) /\ \A i \in 1..Len(names) : i \in 0..Len(names) /\ i # 0
  OBVIOUS
<1> HIDE DEF g
<1>7. g[0] = t /\ \A i \in 1..Len(names) : g[i] = rm[g[i - 1]][names[i].name]
  BY <1>5, <1>6
<1> QED BY <1>4, <1>7

\* The loop of kvs_rm: after i names the folder holds the others.
LEMMA EmptiedGood ==
    ASSUME NEW m \in Nat, NEW rm, NEW t, NEW B, Good(t, m), Below(t, B), Removes(rm, B, m),
           NEW s, s = Emptied(rm, t, Here(t).entries)
    PROVE  /\ Good(s, m) /\ Cwd(s) = Cwd(t) /\ DOMAIN Entries(s, Cwd(t)) = {}
           /\ \A d \in Folder : d \notin B /\ d # Cwd(t) => s[d] = t[d]
<1> DEFINE here == Cwd(t)
           names == Entries(t, here)
           n == Len(names)
<1>0. /\ here \in Folder /\ Typed(t, m) /\ Here(t).entries = names
      /\ names \in Seq(EntryType) /\ n \in Nat /\ DOMAIN names = 1..n
  BY GoodCwd, DirIs DEF Here, Entries
<1>1. PICK g : /\ g[0] = t
               /\ \A i \in 1..n : g[i] = rm[g[i - 1]][names[i].name]
               /\ Emptied(rm, t, names) = g[n]
  BY <1>0, EmptiedIs
<1> DEFINE Holds(i) ==
             /\ Good(g[i], m) /\ Cwd(g[i]) = here /\ Below(g[i], B)
             /\ DOMAIN Entries(g[i], here) = 1..(n - i)
             /\ \A j \in 1..(n - i) : Entries(g[i], here)[j] = names[i + j]
             /\ \A d \in Folder : d \notin B /\ d # here => g[i][d] = t[d]
<1>2. Holds(0)
  <2>1. n - 0 = n /\ \A j \in 1..n : 0 + j = j
    BY <1>0
  <2> QED BY <1>0, <1>1, <2>1
<1>3. ASSUME NEW i \in 1..n, Holds(i - 1) PROVE Holds(i)
  <2> DEFINE u == g[i - 1]
             x == names[i].name
             all == Entries(u, here)
  <2>0. i - 1 \in Nat /\ i \in Nat /\ n - (i - 1) = (n - i) + 1 /\ n - i \in Nat
    BY <1>0
  <2>1. /\ Good(u, m) /\ Cwd(u) = here /\ Below(u, B) /\ Here(u) = Dir(u, here)
        /\ DOMAIN all = 1..((n - i) + 1)
        /\ \A j \in 1..((n - i) + 1) : all[j] = names[(i - 1) + j]
        /\ \A d \in Folder : d \notin B /\ d # here => u[d] = t[d]
    BY <1>3, <2>0 DEF Here
  <2>2. g[i] = rm[u][x]
    BY <1>1
  <2> HIDE DEF u
  <2>3. /\ Typed(u, m) /\ Forest(u) /\ Here(u) \in FolderCell /\ u \in Table
        /\ Here(u).entries = all
    BY <2>1, GoodCwd DEF Typed, Entries
  <2>4. 1 \in DOMAIN all /\ all[1] = names[i] /\ all[1].name = x
    <3>1. 1 \in 1..((n - i) + 1) /\ (i - 1) + 1 = i
      BY <2>0
    <3> QED BY <2>1, <3>1
  <2>5. x \in Name
    <3>1. names[i] \in EntryType
      BY <1>0
    <3> QED BY <3>1 DEF EntryType
  <2> HIDE DEF x, all
  <2>6. Has(Here(u), x)
    BY <2>3, <2>4 DEF Has, At
  <2>7. Ext!Min(At(Here(u), x)) = 1
    <3>1. /\ Ext!Min(At(Here(u), x)) \in DOMAIN all
          /\ all[Ext!Min(At(Here(u), x))].name = x
      BY <1>0, <2>1, <2>3, <2>6, EntryIs DEF all
    <3> HIDE DEF here
    <3> QED BY <1>0, <2>3, <2>4, <3>1 DEF Forest, NameOnce, all
  <2>8. Removed(u, g[i], x, B, m)
    BY <2>1, <2>2, <2>3, <2>5, <2>6 DEF Removes
  <2>9. /\ Good(g[i], m) /\ Cwd(g[i]) = here /\ Below(g[i], B)
        /\ Dir(g[i], here) = Without(Here(u), x)
        /\ \A d \in Folder : d \notin B /\ d # here => g[i][d] = u[d]
    <3>1. Good(u, m) /\ Cwd(u) = here /\ Below(u, B)
      BY <2>1
    <3>2. Below(g[i], B)
      BY Zenon, <2>6, <2>8, <3>1, StaysBelow
    <3>3. /\ Good(g[i], m) /\ Cwd(g[i]) = here /\ Here(g[i]) = Without(Here(u), x)
          /\ \A d \in Folder : d \notin B /\ d # here => g[i][d] = u[d]
      BY <2>8, <3>1 DEF Removed
    <3> QED BY <3>2, <3>3 DEF Here
  <2>10. /\ DOMAIN all = 1..Len(all) /\ Len(all) \in Nat \ {0}
         /\ DOMAIN Without(Here(u), x).entries = 1..(Len(all) - 1)
         /\ \A j \in 1..(Len(all) - 1) : Without(Here(u), x).entries[j] =
               IF j < 1 THEN all[j] ELSE all[j + 1]
    BY <2>3, <2>4, <2>7, WithoutIs
  <2>11. Len(all) = (n - i) + 1
    BY <2>0, <2>1, <2>10
  <2>12. /\ DOMAIN Entries(g[i], here) = 1..(n - i)
         /\ \A j \in 1..(n - i) : Entries(g[i], here)[j] = all[j + 1]
    <3>1. Len(all) - 1 = n - i /\ \A j \in 1..(n - i) : ~(j < 1)
      BY <2>0, <2>11
    <3> QED BY <2>9, <2>10, <3>1 DEF Entries
  <2>13. ASSUME NEW j \in 1..(n - i) PROVE Entries(g[i], here)[j] = names[i + j]
    <3>1. j + 1 \in 1..((n - i) + 1) /\ (i - 1) + (j + 1) = i + j
      BY <2>0
    <3> QED BY <2>1, <2>12, <3>1
  <2> QED BY <2>1, <2>9, <2>12, <2>13
<1> DEFINE Bad == {i \in 0..n : ~Holds(i)}
<1>4. Bad = {}
  <2> SUFFICES ASSUME Bad # {} PROVE FALSE
    OBVIOUS
  <2> HIDE DEF Holds
  <2>1. PICK i \in Bad : \A j \in Bad : i <= j
    <3>1. Bad \in SUBSET Nat
      OBVIOUS
    <3> HIDE DEF Bad
    <3> QED BY <3>1, LeastNat
  <2>2. i \in 0..n /\ ~Holds(i)
    OBVIOUS
  <2>3. i # 0
    BY <1>2, <2>2
  <2>4. i \in 1..n /\ i - 1 \in 0..n /\ ~(i <= i - 1)
    BY <1>0, <2>2, <2>3
  <2>5. Holds(i - 1)
    BY <2>1, <2>4
  <2> QED BY <1>3, <2>2, <2>4, <2>5
<1>5. Holds(n)
  <2>1. n \in 0..n
    BY <1>0
  <2> HIDE DEF Holds
  <2> QED BY <1>4, <2>1
<1>6. s = g[n] /\ n - n = 0 /\ 1..0 = {}
  BY <1>0, <1>1
<1> QED BY <1>5, <1>6

\* One call of kvs_rm, when the calls that it makes are right.
LEMMA RemoveEntryGood ==
    ASSUME NEW m \in Nat, NEW rm, NEW t, NEW n \in Name, NEW B, Good(t, m),
           Has(Here(t), n), Below(t, B),
           Entry(Here(t), n).dir => Removes(rm, B \ {Entry(Here(t), n).id}, m)
    PROVE  Removed(t, RemoveEntry(rm, t, n, m), n, B, m)
<1> DEFINE here == Cwd(t)
           p == Ext!Min(At(Here(t), n))
           e == Entry(Here(t), n)
           inside == Put(t, CurDirCol, e.id, m)
           s1 == Emptied(rm, inside, Here(inside).entries)
           left == IF e.dir THEN Put(s1, CurDirCol, here, m) ELSE t
           C == B \ {e.id}
<1>0. /\ here \in Folder /\ here \in Column /\ Present(t, here)
      /\ Typed(t, m) /\ Rooted(t) /\ Forest(t) /\ Here(t) = Dir(t, here)
      /\ here # CurDirCol
  BY GoodCwd, Columns DEF Here
<1>1. p \in DOMAIN Entries(t, here) /\ e = Entries(t, here)[p]
  BY <1>0, EntryIs
<1>2. /\ e.dir => e.id \in DirCol /\ Parent(t, e.id) = here
      /\ ~e.dir => e.id \in FileCol
      /\ Present(t, e.id) /\ e.id # here
  BY <1>0, <1>1, NotInItself DEF Forest, Links
<1> HIDE DEF p, e
<1>3. e.dir => e.id \in B /\ here \notin B
  BY <1>2 DEF Below
<1>4. RemoveEntry(rm, t, n, m) = Put(Erase(left, e.id, m), here, Without(Here(t), n), m)
  BY DEF RemoveEntry, e
<1>5. CASE ~e.dir
  <2>1. RemoveEntry(rm, t, n, m) = Unlisted(t, n, m)
    BY <1>4, <1>5 DEF Unlisted, e
  <2>2. /\ Good(Unlisted(t, n, m), m) /\ Cwd(Unlisted(t, n, m)) = here
        /\ Here(Unlisted(t, n, m)) = Without(Here(t), n)
        /\ \A d \in Folder \ {here, e.id} : Unlisted(t, n, m)[d] = t[d]
    BY <1>5, UnlistedGood DEF e
  <2>3. \A d \in Folder : d # here => d \in Folder \ {here, e.id}
    BY <1>2, <1>5, Columns
  <2> QED BY <2>1, <2>2, <2>3 DEF Removed
<1>6. CASE e.dir
  <2>0. e.id \in DirCol /\ e.id \in Folder /\ e.id \in Column
    BY <1>2, <1>6, Columns
  <2>1. /\ Good(inside, m) /\ Cwd(inside) = e.id
        /\ \A c \in Column \ {CurDirCol} : inside[c] = t[c]
    BY <1>2, <2>0, EnterGood
  <2>2. \A c \in Folder : /\ inside[c] = t[c] /\ Parent(inside, c) = Parent(t, c)
                          /\ Present(inside, c) <=> Present(t, c)
    BY <2>1, Columns, SameDir
  <2> HIDE DEF inside
  <2>3. Below(inside, C)
    <3>1. C \in SUBSET DirCol /\ e.id \notin C
      BY DEF Below
    <3>2. ASSUME NEW c \in DirCol, Present(inside, c),
                 Parent(inside, c) \in C \/ Parent(inside, c) = e.id
          PROVE  c \in C
      <4>1. c \in Folder
        BY Columns
      <4>2. Present(t, c) /\ Parent(t, c) \in B
        BY <1>3, <1>6, <2>2, <3>2, <4>1
      <4>3. c \in B
        BY <4>2 DEF Below
      <4>4. c # e.id
        BY <1>2, <1>3, <1>6, <4>2
      <4> QED BY <4>3, <4>4
    <3> QED BY <2>1, <3>1, <3>2 DEF Below
  <2>4. Removes(rm, C, m)
    BY <1>6 DEF e
  <2>5. /\ Good(s1, m) /\ Cwd(s1) = e.id /\ DOMAIN Entries(s1, e.id) = {}
        /\ \A d \in Folder : d \notin C /\ d # e.id => s1[d] = inside[d]
    BY <2>1, <2>3, <2>4, EmptiedGood
  <2> HIDE DEF s1
  <2>6. \A d \in Folder : d \notin B => s1[d] = t[d]
    BY <1>3, <1>6, <2>2, <2>5
  <2>7. Present(s1, here)
    BY <1>0, <1>3, <1>6, <2>6, SameDir
  <2>8. left = Put(s1, CurDirCol, here, m)
    BY <1>6
  <2> HIDE DEF left
  <2>9. /\ Good(left, m) /\ Cwd(left) = here
        /\ \A c \in Column \ {CurDirCol} : left[c] = s1[c]
    BY <1>0, <2>5, <2>7, <2>8, EnterGood
  <2>10. \A d \in Folder : left[d] = s1[d] /\ Entries(left, d) = Entries(s1, d)
    BY <2>9, Columns, SameDir
  <2>11. Here(left) = Here(t)
    <3>1. left[here] = t[here]
      BY <1>0, <1>3, <1>6, <2>6, <2>10
    <3> QED BY <1>0, <2>9, <3>1, SameDir DEF Here
  <2>12. DOMAIN Entries(left, e.id) = {}
    BY <2>0, <2>5, <2>10
  <2>13. /\ Good(Unlisted(left, n, m), m) /\ Cwd(Unlisted(left, n, m)) = here
         /\ Here(Unlisted(left, n, m)) = Without(Here(t), n)
         /\ \A d \in Folder \ {here, e.id} : Unlisted(left, n, m)[d] = left[d]
    BY <2>9, <2>11, <2>12, UnlistedGood DEF e
  <2>14. RemoveEntry(rm, t, n, m) = Unlisted(left, n, m)
    BY <1>4, <2>9, <2>11 DEF Unlisted, e
  <2>15. \A d \in Folder : d \notin B /\ d # here => Unlisted(left, n, m)[d] = t[d]
    BY <1>3, <1>6, <2>6, <2>10, <2>13
  <2> QED BY <2>13, <2>14, <2>15 DEF Removed
<1> QED BY <1>5, <1>6

LEMMA RemovalIs ==
    ASSUME NEW m, MaxId \in Nat
    PROVE  \A k \in 1..(MaxId + 1) : \A t \in Table : \A n \in Name :
               Removal(m)[k][t][n] = RemoveEntry(Removal(m)[k - 1], t, n, m)
<1> DEFINE top == MaxId + 1
           IsRemoval(f) == f = [k \in 0..(MaxId + 1) |-> [t \in Table |-> [n \in Name |->
                                   IF k = 0 THEN t ELSE RemoveEntry(f[k - 1], t, n, m)]]]
           base == [t \in Table |-> [n \in Name |-> t]]
<1>1. PICK f : IsRun(f, "removal", base, m, <<>>, top)
  <2>1. top \in Nat
    OBVIOUS
  <2> QED BY <2>1, RunExists
<1>2. \A i, x : After("removal", m, <<>>, x, i) =
                   [t \in Table |-> [n \in Name |-> RemoveEntry(x, t, n, m)]]
  BY DEF After
<1>3. f[0] = base /\ \A k \in 1..top : f[k] = After("removal", m, <<>>, f[k - 1], k)
  <2>1. top \in Nat
    OBVIOUS
  <2> HIDE DEF base
  <2> QED BY <1>1, <2>1, RunIs
<1>4. ASSUME NEW k \in 0..top
      PROVE  f[k] = [t \in Table |-> [n \in Name |->
                        IF k = 0 THEN t ELSE RemoveEntry(f[k - 1], t, n, m)]]
  <2>1. CASE k = 0
    BY <1>3, <2>1
  <2>2. CASE k # 0
    <3>1. k \in 1..top
      BY <2>2
    <3>2. f[k] = [t \in Table |-> [n \in Name |-> RemoveEntry(f[k - 1], t, n, m)]]
      BY <1>2, <1>3, <3>1
    <3> QED BY <2>2, <3>2
  <2> QED BY <2>1, <2>2
<1>5. IsRemoval(f)
  <2>1. f = [k \in 0..top |-> f[k]]
    BY <1>1 DEF IsRun
  <2> HIDE DEF base
  <2> QED BY <1>4, <2>1
<1>6. Removal(m) = CHOOSE g : IsRemoval(g)
  BY Zenon DEF Removal
<1>7. IsRemoval(Removal(m))
  BY <1>5, <1>6
<1>8. \A k \in 1..(MaxId + 1) : k \in 0..(MaxId + 1) /\ k # 0
  OBVIOUS
<1>9. \A k \in 0..(MaxId + 1) : Removal(m)[k] = [t \in Table |-> [n \in Name |->
          IF k = 0 THEN t ELSE RemoveEntry(Removal(m)[k - 1], t, n, m)]]
  BY <1>7
<1>10. ASSUME NEW k \in 1..(MaxId + 1), NEW t \in Table, NEW n \in Name
       PROVE  Removal(m)[k][t][n] = RemoveEntry(Removal(m)[k - 1], t, n, m)
  <2>1. k \in 0..(MaxId + 1) /\ k # 0
    BY <1>8
  <2>2. Removal(m)[k] = [u \in Table |-> [x \in Name |->
            IF k = 0 THEN u ELSE RemoveEntry(Removal(m)[k - 1], u, x, m)]]
    BY <1>9, <2>1
  <2>3. Removal(m)[k][t] = [x \in Name |->
            IF k = 0 THEN t ELSE RemoveEntry(Removal(m)[k - 1], t, x, m)]
    BY <2>2
  <2>4. Removal(m)[k][t][n] = IF k = 0 THEN t ELSE RemoveEntry(Removal(m)[k - 1], t, n, m)
    BY <2>3
  <2> QED BY <2>1, <2>4
<1> QED BY <1>10

\* There is a set of the folders below the current one: the others are the
\* folders on its way to the root, among others.
LEMMA BelowExists ==
    ASSUME NEW m, NEW t, Good(t, m)
    PROVE  \E B : Below(t, B)
<1> DEFINE Up(c, A) == /\ c \in A
                       /\ \A d \in A : d \in DirCol => Parent(t, d) \in A
                       /\ \A d \in DirCol : Present(t, d) /\ Parent(t, d) = c => d \notin A
           Bad == {c \in DirCol : Present(t, c) /\ ~ \E A : Up(c, A)}
<1>0. Rooted(t) /\ Forest(t) /\ Typed(t, m) /\ Cwd(t) \in Folder /\ Present(t, Cwd(t))
  BY GoodCwd
<1>1. Up(RootCol, {RootCol})
  BY Columns
<1>2. Bad = {}
  <2> SUFFICES ASSUME Bad # {} PROVE FALSE
    OBVIOUS
  <2>1. Bad \in SUBSET DirCol /\ \A c \in Bad : Present(t, c)
    OBVIOUS
  <2>2. PICK c \in Bad : Parent(t, c) \notin Bad
    <3> HIDE DEF Bad
    <3> QED BY <1>0, <2>1 DEF Forest, NoCycle
  <2>3. c \in DirCol /\ Present(t, c) /\ ~ \E A : Up(c, A)
    OBVIOUS
  <2>4. PICK d \in Folder : \E i \in DOMAIN Entries(t, d) : Entries(t, d)[i].id = c
    BY <1>0, <2>3 DEF Forest, AllListed
  <2>5. PICK i \in DOMAIN Entries(t, d) : Entries(t, d)[i].id = c
    BY <2>4
  <2>6. Parent(t, c) = d
    BY <1>0, <2>3, <2>5, Columns DEF Forest, Links
  <2>7. Present(t, d)
    BY <1>0, <2>5, DirIs
  <2>8. \E A : Up(d, A)
    <3>1. CASE d = RootCol
      BY <1>1, <3>1
    <3>2. CASE d \in DirCol
      BY <2>2, <2>6, <2>7, <3>2
    <3> QED BY <3>1, <3>2, Columns
  <2>9. PICK A : Up(d, A)
    BY <2>8
  <2>10. c \notin A
    BY <2>3, <2>6, <2>9
  <2>11. Up(c, A \cup {c})
    <3>1. ASSUME NEW x \in DirCol, Present(t, x), Parent(t, x) = c PROVE x \notin A \cup {c}
      <4>1. x # c
        BY <2>2, <2>6, <3>1
      <4>2. x \notin A
        BY <2>9, <2>10, <3>1
      <4> QED BY <4>1, <4>2
    <3>2. \A x \in A \cup {c} : x \in DirCol => Parent(t, x) \in A \cup {c}
      BY <2>6, <2>9
    <3> QED BY <3>1, <3>2
  <2> HIDE DEF Up
  <2> QED BY <2>3, <2>11
<1>3. \E A : Up(Cwd(t), A)
  <2>1. CASE Cwd(t) = RootCol
    BY <1>1, <2>1
  <2>2. CASE Cwd(t) \in DirCol
    <3> HIDE DEF Up
    <3> QED BY <1>0, <1>2, <2>2
  <2> QED BY <1>0, <2>1, <2>2, Columns
<1>4. PICK A : Up(Cwd(t), A)
  BY <1>3
<1>5. Below(t, DirCol \ A)
  BY <1>4 DEF Below
<1> QED BY <1>5

LEMMA FoldersFinite ==
    ASSUME MaxId \in Nat
    PROVE  IsFiniteSet(DirCol) /\ Cardinality(DirCol) \in Nat /\ Cardinality(DirCol) <= MaxId
<1> DEFINE f == [i \in 1..MaxId |-> [type |-> "DIR", id |-> i]]
<1>1. IsFiniteSet(1..MaxId) /\ Cardinality(1..MaxId) = MaxId
  BY FS_Interval
<1>2. f \in Surjection(1..MaxId, DirCol)
  <2>1. f \in [1..MaxId -> DirCol]
    BY DEF DirCol
  <2>2. ASSUME NEW c \in DirCol PROVE \E i \in 1..MaxId : f[i] = c
    <3>1. c.id \in 1..MaxId /\ c = [type |-> "DIR", id |-> c.id]
      BY DEF DirCol
    <3> QED BY <3>1
  <2> HIDE DEF f
  <2> QED BY <2>1, <2>2 DEF Surjection
<1> HIDE DEF f
<1>3. IsFiniteSet(DirCol) /\ Cardinality(DirCol) <= Cardinality(1..MaxId)
  BY <1>1, <1>2, FS_Surjection
<1> QED BY <1>1, <1>3, FS_CardinalityType

\* kvs_rm with k calls left is right when there are fewer folders below.
LEMMA RemovalGood ==
    ASSUME NEW m \in Nat, MaxId \in Nat
    PROVE  \A k \in 0..(MaxId + 1) : \A B \in SUBSET DirCol :
               Cardinality(B) < k => Removes(Removal(m)[k], B, m)
<1> DEFINE Holds(k) == \A B \in SUBSET DirCol :
                           Cardinality(B) < k => Removes(Removal(m)[k], B, m)
           Bad == {k \in 0..(MaxId + 1) : ~Holds(k)}
<1>0. \A B \in SUBSET DirCol : IsFiniteSet(B) /\ Cardinality(B) \in Nat
  BY FoldersFinite, FS_Subset, FS_CardinalityType
<1>1. Holds(0)
  BY <1>0
<1>2. ASSUME NEW k \in 1..(MaxId + 1), Holds(k - 1) PROVE Holds(k)
  <2> SUFFICES ASSUME NEW B \in SUBSET DirCol, Cardinality(B) < k,
                      NEW t \in Table, NEW n \in Name,
                      Good(t, m), Has(Here(t), n), Below(t, B)
               PROVE  Removed(t, Removal(m)[k][t][n], n, B, m)
    BY DEF Removes
  <2> DEFINE e == Entry(Here(t), n)
  <2>1. Removal(m)[k][t][n] = RemoveEntry(Removal(m)[k - 1], t, n, m)
    BY RemovalIs
  <2>2. ASSUME e.dir PROVE Removes(Removal(m)[k - 1], B \ {e.id}, m)
    <3>1. e.id \in B
      <4>1. /\ Cwd(t) \in Folder /\ Typed(t, m) /\ Forest(t) /\ Here(t) = Dir(t, Cwd(t))
        BY GoodCwd DEF Here
      <4>2. PICK i \in DOMAIN Entries(t, Cwd(t)) : e = Entries(t, Cwd(t))[i]
        BY <4>1, EntryIs
      <4>3. e.id \in DirCol /\ Parent(t, e.id) = Cwd(t) /\ Present(t, e.id)
        BY <2>2, <4>1, <4>2 DEF Forest, Links
      <4> QED BY <4>3 DEF Below
    <3>2. Cardinality(B \ {e.id}) = Cardinality(B) - 1
      BY <1>0, <3>1, FS_RemoveElement
    <3>3. Cardinality(B \ {e.id}) < k - 1 /\ B \ {e.id} \in SUBSET DirCol
      BY <1>0, <3>2
    <3> QED BY <1>2, <3>3
  <2> QED BY <2>1, <2>2, RemoveEntryGood
<1> HIDE DEF Holds
<1>3. Bad = {}
  <2> SUFFICES ASSUME Bad # {} PROVE FALSE
    OBVIOUS
  <2>1. PICK k \in Bad : \A j \in Bad : k <= j
    <3>1. Bad \in SUBSET Nat
      OBVIOUS
    <3> HIDE DEF Bad
    <3> QED BY <3>1, LeastNat
  <2>2. k \in 0..(MaxId + 1) /\ ~Holds(k)
    OBVIOUS
  <2>3. k # 0
    BY <1>1, <2>2
  <2>4. k \in 1..(MaxId + 1) /\ k - 1 \in 0..(MaxId + 1) /\ ~(k <= k - 1)
    BY <2>2, <2>3
  <2>5. Holds(k - 1)
    BY <2>1, <2>4
  <2> QED BY <1>2, <2>2, <2>4, <2>5
<1>4. \A k \in 0..(MaxId + 1) : Holds(k)
  BY <1>3
<1> QED BY <1>4 DEF Holds

LEMMA RemoveGood ==
    ASSUME NEW m \in Nat, NEW t, Good(t, m), NEW n \in Name, Has(Here(t), n), MaxId \in Nat
    PROVE  Good(Remove(t, n, m), m) /\ Cwd(Remove(t, n, m)) = Cwd(t)
<1>1. PICK B : Below(t, B)
  BY BelowExists
<1>2. B \in SUBSET DirCol
  BY <1>1 DEF Below
<1>3. Cardinality(B) < MaxId + 1 /\ MaxId + 1 \in 0..(MaxId + 1)
  BY <1>2, FoldersFinite, FS_Subset, FS_CardinalityType
<1>4. Removes(Removal(m)[MaxId + 1], B, m)
  BY <1>2, <1>3, RemovalGood
<1>5. t \in Table /\ n # "."
  BY TreeAssumption DEF Good, Typed
<1>6. Remove(t, n, m) = Removal(m)[MaxId + 1][t][n]
  BY <1>5 DEF Remove
<1> QED BY <1>1, <1>4, <1>5, <1>6 DEF Removes, Removed

\* kvs_rm of ".": the loop alone, in the folder that is the current one.
LEMMA ClearGood ==
    ASSUME NEW m \in Nat, NEW t, Good(t, m), MaxId \in Nat
    PROVE  Good(Remove(t, ".", m), m)
<1>1. PICK B : Below(t, B)
  BY BelowExists
<1>2. B \in SUBSET DirCol
  BY <1>1 DEF Below
<1>3. Cardinality(B) < MaxId + 1 /\ MaxId + 1 \in 0..(MaxId + 1)
  BY <1>2, FoldersFinite, FS_Subset, FS_CardinalityType
<1>4. Removes(Removal(m)[MaxId + 1], B, m)
  BY <1>2, <1>3, RemovalGood
<1>5. Remove(t, ".", m) = Emptied(Removal(m)[MaxId + 1], t, Here(t).entries)
  BY DEF Remove
<1> QED BY <1>1, <1>4, <1>5, EmptiedGood

-----------------------------------------------------------------------------
(* Every command keeps the tree.                                            *)

LEMMA CommandIs ==
    ASSUME NEW m, NEW op \in Commands(m), MaxDepth \in Nat
    PROVE  /\ op.time = m
           /\ op.kind \in {"uploadfile", "makedir", "remove", "changedir", "rename",
                           "move", "logout"}
           /\ op.kind \in {"uploadfile", "makedir", "rename", "move"} => op.name \in Name
           /\ op.kind = "remove" => op.name \in Name \cup {"."}
           /\ op.kind = "rename" => op.arg \in Name
           /\ op.kind = "move" => Len(op.arg) \in Nat
<1>1. \A path \in Path : Len(path) \in Nat
  <2> SUFFICES ASSUME NEW k \in 0..MaxDepth, NEW path \in [1..k -> Name]
               PROVE  Len(path) \in Nat
    BY DEF Path
  <2>1. path \in Seq(Name)
    BY SeqDef
  <2> QED BY <2>1
<1>2. CASE op \in {Op(k, n, <<>>, m) : k \in {"uploadfile", "makedir"}, n \in Name}
  BY <1>2 DEF Op
<1>7. CASE op \in {Op("remove", n, <<>>, m) : n \in Name \cup {"."}}
  BY <1>7 DEF Op
<1>3. CASE op \in {Op("changedir", n, <<>>, m) : n \in Name \cup {".."}}
  BY <1>3 DEF Op
<1>4. CASE op \in {Op("rename", n, new, m) : n \in Name, new \in Name}
  BY <1>4 DEF Op
<1>5. CASE op \in {Op("move", n, path, m) : n \in Name, path \in Path}
  <2>1. PICK n \in Name, path \in Path :
           op = Op("move", n, path, m)
    BY <1>5
  <2> QED BY <1>1, <2>1 DEF Op
<1>6. CASE op \in {Op("logout", "none", <<>>, m)}
  BY <1>6 DEF Op
<1> QED BY <1>2, <1>3, <1>4, <1>5, <1>6, <1>7 DEF Commands

LEMMA EffectGood ==
    ASSUME NEW m \in Nat, NEW t, Good(t, m), NEW op \in Commands(m),
           Room(t, op), ~IntoItself(t, op)
    PROVE  Good(Effect(t, op), m)
<1>0. /\ op.time = m
      /\ op.kind \in {"uploadfile", "makedir", "remove", "changedir", "rename",
                      "move", "logout"}
      /\ op.kind \in {"uploadfile", "makedir", "rename", "move"} => op.name \in Name
      /\ op.kind = "remove" => op.name \in Name \cup {"."}
      /\ op.kind = "rename" => op.arg \in Name
      /\ op.kind = "move" => Len(op.arg) \in Nat
      /\ MaxId \in Nat
  BY CommandIs, TreeAssumption
<1>1. CASE Idle(t, op) \/ ~Succeeds(t, op)
  BY <1>1 DEF Effect
<1>2. CASE ~Idle(t, op) /\ Succeeds(t, op)
  <2>1. CASE op.kind = "uploadfile"
    <3>1. Effect(t, op) = Upload(t, op.name, m)
      BY <1>0, <1>2, <2>1 DEF Effect
    <3>2. ~Has(Here(t), op.name) /\ \E c \in FileCol : ~Present(t, c)
      BY <1>2, <2>1 DEF Succeeds, Room
    <3> QED BY <1>0, <2>1, <3>1, <3>2, UploadGood
  <2>2. CASE op.kind = "makedir"
    <3>1. Effect(t, op) = MakeDir(t, op.name, m)
      BY <1>0, <1>2, <2>2 DEF Effect
    <3>2. ~Has(Here(t), op.name) /\ \E c \in DirCol : ~Present(t, c)
      BY <1>2, <2>2 DEF Succeeds, Room
    <3> QED BY <1>0, <2>2, <3>1, <3>2, MakeDirGood
  <2>3. CASE op.kind = "remove"
    <3>1. Effect(t, op) = Remove(t, op.name, m)
      BY <1>0, <1>2, <2>3 DEF Effect
    <3>2. op.name = "." \/ Has(Here(t), op.name)
      BY <1>2, <2>3 DEF Succeeds
    <3>3. CASE op.name = "."
      BY <1>0, <3>1, <3>3, ClearGood
    <3>4. CASE op.name # "."
      BY <1>0, <2>3, <3>1, <3>2, <3>4, RemoveGood
    <3> QED BY <3>3, <3>4
  <2>4. CASE op.kind = "changedir"
    <3>1. Effect(t, op) = ChangeDir(t, op.name, m)
      BY <1>0, <1>2, <2>4 DEF Effect
    <3>2. op.name = ".." \/ Subfolders(Here(t), op.name) # {}
      BY <1>2, <2>4 DEF Succeeds
    <3> QED BY <3>1, <3>2, ChangeDirGood
  <2>5. CASE op.kind = "rename"
    <3>1. Effect(t, op) = Rename(t, op.name, op.arg, m)
      BY <1>0, <1>2, <2>5 DEF Effect
    <3>2. Has(Here(t), op.name) /\ ~Has(Here(t), op.arg)
      BY <1>2, <2>5 DEF Succeeds
    <3> QED BY <1>0, <2>5, <3>1, <3>2, RenameGood
  <2>6. CASE op.kind = "move"
    <3>1. Effect(t, op) = Move(t, op.name, Resolve(t, op.arg), m)
      BY <1>0, <1>2, <2>6 DEF Effect
    <3>2. /\ Resolve(t, op.arg) # Null /\ Resolve(t, op.arg) # Cwd(t)
          /\ Has(Here(t), op.name) /\ ~Has(Dir(t, Resolve(t, op.arg)), op.name)
      BY <1>2, <2>6 DEF Succeeds, Idle
    <3>3. \A i \in 0..Len(op.arg) : Walk(t, op.arg)[i] # Entry(Here(t), op.name).id
      BY <2>6, <3>2 DEF IntoItself
    <3> QED BY <1>0, <2>6, <3>1, <3>2, <3>3, MoveGood
  <2>7. CASE op.kind = "logout"
    <3>1. Effect(t, op) = Put(t, CurDirCol, RootCol, m)
      BY <1>0, <1>2, <2>7 DEF Effect
    <3>2. Present(t, RootCol)
      BY GoodCwd DEF Rooted
    <3> QED BY <3>1, <3>2, EnterGood, Columns
  <2> QED BY <1>0, <2>1, <2>2, <2>3, <2>4, <2>5, <2>6, <2>7
<1> QED BY <1>1, <1>2

LEMMA LaterGood ==
    ASSUME NEW m \in Nat, NEW k \in Nat, m <= k, NEW t, Good(t, m)
    PROVE  Good(t, k)
<1>1. \A c \in Column : t[c].time \in Nat /\ t[c].time <= k
  BY TypedCells DEF Good
<1> QED BY <1>1 DEF Good, Typed

-----------------------------------------------------------------------------
(* Replaying commands.                                                      *)

IsReplayed(g, t, ops, s) ==
    /\ g[0] = t
    /\ \A i \in 1..Len(ops) : g[i] =
          IF ops[i].kind = "logout" THEN g[i - 1] ELSE Effect(g[i - 1], ops[i])
    /\ g[Len(ops)] = s

LEMMA ReplayIs ==
    ASSUME NEW t, NEW ops, Len(ops) \in Nat
    PROVE  \E g : IsReplayed(g, t, ops, Replay(t, ops))
<1> DEFINE IsReplay(f) == f = [i \in 0..Len(ops) |->
                                  IF i = 0 THEN t
                                  ELSE IF ops[i].kind = "logout" THEN f[i - 1]
                                  ELSE Effect(f[i - 1], ops[i])]
<1>1. PICK f : IsRun(f, "replay", t, <<>>, ops, Len(ops))
  BY RunExists
<1>2. \A i, x : After("replay", <<>>, ops, x, i) =
                   IF ops[i].kind = "logout" THEN x ELSE Effect(x, ops[i])
  BY DEF After
<1>3. IsReplay(f)
  BY <1>1, <1>2 DEF IsRun
<1> DEFINE g == CHOOSE h : IsReplay(h)
<1>4. Replay(t, ops) = g[Len(ops)]
  BY Zenon DEF Replay
<1>5. IsReplay(g)
  BY <1>3
<1>6. 0 \in 0..Len(ops) /\ \A i \in 1..Len(ops) : i \in 0..Len(ops) /\ i # 0
  OBVIOUS
<1> HIDE DEF g
<1>7. /\ g[0] = t
      /\ \A i \in 1..Len(ops) : g[i] =
            IF ops[i].kind = "logout" THEN g[i - 1] ELSE Effect(g[i - 1], ops[i])
  BY <1>5, <1>6
<1> QED BY <1>4, <1>7 DEF IsReplayed

LEMMA ReplayEmpty ==
    ASSUME NEW t PROVE Replay(t, <<>>) = t
BY ReplayIs DEF IsReplayed

\* One command more.
LEMMA ReplayStep ==
    ASSUME NEW t, NEW a, NEW b, Len(a) \in Nat, Len(b) = Len(a) + 1,
           \A i \in 1..Len(a) : b[i] = a[i]
    PROVE  Replay(t, b) = IF b[Len(b)].kind = "logout" THEN Replay(t, a)
                          ELSE Effect(Replay(t, a), b[Len(b)])
<1> DEFINE n == Len(a)
<1>1. PICK g : IsReplayed(g, t, a, Replay(t, a))
  BY ReplayIs
<1>2. PICK h : IsReplayed(h, t, b, Replay(t, b))
  BY ReplayIs
<1> USE DEF IsReplayed
<1> DEFINE Bad == {i \in 0..n : g[i] # h[i]}
<1>3. Bad = {}
  <2> SUFFICES ASSUME Bad # {} PROVE FALSE
    OBVIOUS
  <2>1. PICK i \in Bad : \A j \in Bad : i <= j
    <3>1. Bad \in SUBSET Nat
      OBVIOUS
    <3> HIDE DEF Bad
    <3> QED BY <3>1, LeastNat
  <2>2. i \in 0..n /\ g[i] # h[i]
    OBVIOUS
  <2>3. i # 0
    BY <1>1, <1>2, <2>2
  <2>4. i \in 1..n /\ i \in 1..(n + 1) /\ i - 1 \in 0..n /\ ~(i <= i - 1)
    BY <2>2, <2>3
  <2>5. g[i - 1] = h[i - 1]
    BY <2>1, <2>4
  <2> QED BY <1>1, <1>2, <2>2, <2>4, <2>5
<1>4. g[n] = h[n]
  BY <1>3
<1>5. n + 1 \in 1..(n + 1) /\ (n + 1) - 1 = n
  OBVIOUS
<1> QED BY <1>1, <1>2, <1>4, <1>5

-----------------------------------------------------------------------------
(* The first states.                                                        *)

LEMMA NewUserGood == Good(NewUser, 0)
<1>1. /\ NewUser[CurDirCol] = [val |-> RootCol, time |-> 0]
      /\ NewUser[RootCol] = [val |-> [parent |-> RootCol, entries |-> <<>>], time |-> 0]
      /\ \A c \in Column \ {CurDirCol, RootCol} : NewUser[c] = NoEntry
      /\ NewUser = [c \in Column |-> NewUser[c]]
  BY Columns DEF NewUser, CurDirCol, RootCol
<1> DEFINE t == NewUser
           d == [parent |-> RootCol, entries |-> <<>>]
<1>2. d \in FolderCell
  <2>1. RootCol \in Column /\ <<>> \in Seq([name : Name, dir : BOOLEAN, id : Column])
    BY Columns
  <2> QED BY <2>1, Zenon DEF FolderCell
<1>3. Null \in Value /\ RootCol \in Value /\ d \in Value
  BY <1>2, Columns DEF Value
<1> HIDE DEF d, t
<1>4. \A c \in Column : t[c] \in [val : Value, time : Nat] /\ t[c].time = 0
  BY <1>1, <1>3 DEF NoEntry, t, d
<1>5. t \in Table
  <2>1. t = [c \in Column |-> t[c]]
    BY <1>1 DEF t
  <2> QED BY <1>4, <2>1 DEF Table
<1>6. \A c \in Column : Present(t, c) <=> c = CurDirCol \/ c = RootCol
  <2>1. RootCol # Null /\ d # Null
    BY <1>2, NullAssumption, Columns
  <2> QED BY <1>1, <2>1 DEF Present, NoEntry, t, d
<1>7. Cwd(t) = RootCol /\ Dir(t, RootCol) = d
  BY <1>1, <1>6, Columns DEF Cwd, Dir, t, d
<1>8. Typed(t, 0)
  <2>1. \A c \in Column : t[c].time <= 0
    BY <1>4
  <2>2. \A c \in Folder : Present(t, c) => t[c].val \in FolderCell
    BY <1>1, <1>2, <1>6, Columns DEF t, d
  <2>3. \A c \in FileCol : ~Present(t, c)
    BY <1>6, Columns
  <2> QED BY <1>5, <1>7, <2>1, <2>2, <2>3, Columns DEF Typed
<1>9. Rooted(t)
  BY <1>6, <1>7, Columns DEF Rooted, d
<1>10. \A f \in Folder : DOMAIN Entries(t, f) = {}
  <2> SUFFICES ASSUME NEW f \in Folder PROVE DOMAIN Entries(t, f) = {}
    OBVIOUS
  <2>1. CASE f = RootCol
    BY <1>7, <2>1 DEF Entries, d
  <2>2. CASE f # RootCol
    BY <1>6, <1>8, <2>2, DirIs, Columns
  <2> QED BY <2>1, <2>2
<1>11. \A c \in DirCol \cup FileCol : ~Present(t, c)
  BY <1>6, Columns
<1>12. Forest(t)
  BY <1>10, <1>11, Zenon DEF Forest, Links, IdOnce, NameOnce, AllListed, NoCycle
<1> QED BY <1>8, <1>9, <1>12, TreeIs DEF Good, t

LEMMA EarlierGood ==
    ASSUME NEW ops \in Earlier
    PROVE  Good(Replay(NewUser, ops), 0)
<1> DEFINE front(i) == SubSeq(ops, 1, i)
           n == Len(ops)
           Bad == {i \in 0..n : ~Good(Replay(NewUser, front(i)), 0)}
<1>1. ops \in Seq(Commands(0)) /\ n \in Nat
  BY EarlierAssumption
<1>2. \A i \in 0..n : /\ Len(front(i)) = i
                      /\ \A j \in 1..i : front(i)[j] = ops[j]
  BY <1>1
<1> HIDE DEF front
<1>3. Good(Replay(NewUser, front(0)), 0)
  <2>1. front(0) = <<>>
    BY <1>1 DEF front
  <2> QED BY <2>1, ReplayEmpty, NewUserGood
<1>4. ASSUME NEW i \in 1..n, Good(Replay(NewUser, front(i - 1)), 0)
      PROVE  Good(Replay(NewUser, front(i)), 0)
  <2> DEFINE t == Replay(NewUser, front(i - 1))
             op == ops[i]
  <2>1. i - 1 \in 0..n /\ i \in 0..n /\ i - 1 \in Nat /\ (i - 1) + 1 = i /\ i \in DOMAIN ops
    BY <1>1
  <2>2. op \in Commands(0) /\ op.kind # "logout" /\ Room(t, op) /\ ~IntoItself(t, op)
    BY <1>1, <2>1, EarlierAssumption DEF front
  <2>3. Replay(NewUser, front(i)) = Effect(t, op)
    <3>1. /\ Len(front(i - 1)) = i - 1 /\ Len(front(i)) = i
          /\ \A j \in 1..(i - 1) : front(i)[j] = front(i - 1)[j]
          /\ front(i)[i] = op
      <4>1. \A j \in 1..(i - 1) : j \in 1..i
        BY <2>1
      <4>2. i \in 1..i
        BY <2>1
      <4> QED BY <1>2, <2>1, <4>1, <4>2
    <3> HIDE DEF op
    <3> QED BY <2>1, <2>2, <3>1, ReplayStep
  <2> HIDE DEF t, op
  <2> QED BY <1>4, <2>2, <2>3, EffectGood DEF t
<1>5. Bad = {}
  <2> SUFFICES ASSUME Bad # {} PROVE FALSE
    OBVIOUS
  <2>1. PICK i \in Bad : \A j \in Bad : i <= j
    <3>1. Bad \in SUBSET Nat
      OBVIOUS
    <3> HIDE DEF Bad
    <3> QED BY <3>1, LeastNat
  <2>2. i \in 0..n /\ ~Good(Replay(NewUser, front(i)), 0)
    OBVIOUS
  <2>3. i # 0
    BY <1>3, <2>2
  <2>4. i \in 1..n /\ i - 1 \in 0..n /\ ~(i <= i - 1)
    BY <1>1, <2>2, <2>3
  <2>5. Good(Replay(NewUser, front(i - 1)), 0)
    BY <2>1, <2>4
  <2> QED BY <1>4, <2>2, <2>4, <2>5
<1>6. n \in 0..n /\ front(n) = ops
  BY <1>1 DEF front
<1> QED BY <1>5, <1>6

-----------------------------------------------------------------------------
(* The inductive invariant.                                                 *)

LogOp(m) == UNION {Commands(k) : k \in 0..m}

Inv ==
    /\ TypeOK /\ Tree(table) /\ Asked
    /\ DOMAIN request = Connection
    /\ log \in Seq(LogOp(clock))
    /\ "logout" \notin Kinds => Recoverable

\* What a user does: one thing at a time, no folder is moved into itself, and
\* nobody logs out whose server is started again.
OneAtATime ==
    /\ \A c, d \in Connection : c = d
    /\ "moveinto" \notin Kinds
    /\ "logout" \notin Kinds \/ MaxCrashes = 0

LEMMA InvIs ==
    ASSUME Inv
    PROVE  /\ Good(table, clock) /\ clock \in 0..MaxTime /\ clock \in Nat
           /\ crashes \in 0..MaxCrashes /\ Len(log) \in Nat /\ Len(log) <= CheckpointInterval
           /\ {MaxTime, MaxId, MaxDepth, MaxCrashes} \subseteq Nat
           /\ CheckpointInterval \in Nat \ {0}
BY TreeAssumption DEF Inv, TypeOK, Good

LEMMA InitInv == Init => Inv
<1> SUFFICES ASSUME Init PROVE Inv
  OBVIOUS
<1>1. PICK ops \in Earlier : table = Replay(NewUser, ops)
  BY DEF Init
<1>2. /\ log = <<>> /\ checkpoint = table /\ clock = 0 /\ crashes = 0
      /\ request = [c \in Connection |-> NoCommand]
  BY DEF Init
<1>3. Good(table, clock)
  BY <1>1, <1>2, EarlierGood
<1>4. TypeOK
  BY <1>2, <1>3, TreeAssumption DEF Good, TypeOK
<1>5. Asked /\ DOMAIN request = Connection
  BY <1>2 DEF Asked
<1>6. log \in Seq(LogOp(clock)) /\ DOMAIN log = {}
  BY <1>2
<1>7. Recoverable
  BY <1>2, <1>6, ReplayEmpty DEF Recoverable
<1> QED BY <1>3, <1>4, <1>5, <1>6, <1>7 DEF Inv, Good

LEMMA LaterLog ==
    ASSUME NEW m \in Nat, NEW s \in Seq(LogOp(m))
    PROVE  s \in Seq(LogOp(m + 1)) /\ \A i \in DOMAIN s : s[i] \in LogOp(m + 1)
<1>1. LogOp(m) \subseteq LogOp(m + 1)
  <2>1. \A k \in 0..m : k \in 0..(m + 1)
    OBVIOUS
  <2> QED BY <2>1 DEF LogOp
<1>2. \A i \in DOMAIN s : s[i] \in LogOp(m + 1)
  BY <1>1
<1>3. s \in Seq(LogOp(m + 1))
  BY <1>1
<1> QED BY <1>2, <1>3

LEMMA RequestInv ==
    ASSUME OneAtATime, Inv, NEW c \in Connection, Request(c)
    PROVE  Inv'
<1>0. /\ Good(table, clock) /\ clock \in Nat /\ clock < MaxTime /\ clock' = clock + 1
      /\ MaxTime \in Nat
      /\ table' = table /\ log' = log /\ checkpoint' = checkpoint /\ crashes' = crashes
  BY InvIs DEF Request
<1>1. Good(table, clock + 1)
  BY <1>0, LaterGood
<1>2. TypeOK'
  BY <1>0, <1>1, TreeAssumption DEF Inv, TypeOK, Good
<1>3. Tree(table)'
  BY <1>0 DEF Inv
<1>4. PICK op \in Commands(clock + 1) :
         /\ op.kind \in Kinds
         /\ IntoItself(table, op) => "moveinto" \in Kinds
         /\ request' = [request EXCEPT ![c] = op]
  BY DEF Request
<1>5. Asked'
  <2> SUFFICES ASSUME NEW d \in Connection, request'[d] # NoCommand
               PROVE  /\ request'[d] \in Commands(clock')
                      /\ request'[d].kind \in Kinds
                      /\ IntoItself(table', request'[d]) => "moveinto" \in Kinds
    BY DEF Asked
  <2>1. d = c
    BY DEF OneAtATime
  <2>2. request'[d] = op
    BY <1>4, <2>1 DEF Inv
  <2> QED BY <1>0, <1>4, <2>2
<1>6. (DOMAIN request = Connection)'
  BY <1>4 DEF Inv
<1>7. log' \in Seq(LogOp(clock'))
  BY <1>0, LaterLog DEF Inv
<1>8. "logout" \notin Kinds => Recoverable'
  <2>1. \A i \in DOMAIN log : log[i] \in UNION {Commands(m) : m \in 0..(clock + 1)}
    BY <1>0, LaterLog DEF Inv, LogOp
  <2> QED BY <1>0, <2>1 DEF Inv, Recoverable
<1> QED BY <1>2, <1>3, <1>5, <1>6, <1>7, <1>8 DEF Inv

LEMMA ExecuteInv ==
    ASSUME OneAtATime, Inv, NEW c \in Connection, Execute(c)
    PROVE  Inv'
<1> DEFINE op == request[c]
<1>0. /\ Good(table, clock) /\ clock \in Nat /\ clock' = clock /\ crashes' = crashes
      /\ request' = [request EXCEPT ![c] = NoCommand]
      /\ table' = Effect(table, op) /\ Room(table, op) /\ op # NoCommand
      /\ IF Succeeds(table, op) THEN WriteLog(op) ELSE UNCHANGED <<log, checkpoint>>
  BY InvIs DEF Execute
<1>1. op \in Commands(clock) /\ op.kind \in Kinds /\ ~IntoItself(table, op)
  BY <1>0 DEF Inv, Asked, OneAtATime
<1>2. Good(table', clock)
  BY <1>0, <1>1, EffectGood
<1>3. op \in LogOp(clock)
  <2>1. clock \in 0..clock
    BY <1>0
  <2> QED BY <1>1, <2>1 DEF LogOp
<1>4. "logout" \notin Kinds => op.kind # "logout"
  BY <1>1
<1> HIDE DEF op
<1>5. /\ log' \in Seq(LogOp(clock)) /\ Len(log') <= CheckpointInterval
      /\ "logout" \notin Kinds => table' = Replay(checkpoint', log')
  <2>0. /\ log \in Seq(LogOp(clock)) /\ Len(log) \in Nat /\ Len(log) <= CheckpointInterval
        /\ CheckpointInterval \in Nat \ {0}
        /\ "logout" \notin Kinds => table = Replay(checkpoint, log)
    BY InvIs DEF Inv, Recoverable
  <2>1. CASE ~Succeeds(table, op)
    <3>1. table' = table /\ log' = log /\ checkpoint' = checkpoint
      BY <1>0, <2>1 DEF Effect
    <3> QED BY <2>0, <3>1
  <2>2. CASE Succeeds(table, op) /\ Len(log) >= CheckpointInterval
    <3>1. log' = <<>> /\ checkpoint' = table'
      BY <1>0, <2>2 DEF WriteLog
    <3>2. <<>> \in Seq(LogOp(clock)) /\ Len(<<>>) = 0
      OBVIOUS
    <3>3. Replay(table', <<>>) = table'
      BY ReplayEmpty
    <3> QED BY <2>0, <3>1, <3>2, <3>3
  <2>3. CASE Succeeds(table, op) /\ ~(Len(log) >= CheckpointInterval)
    <3>1. log' = Append(log, op) /\ checkpoint' = checkpoint
      BY <1>0, <2>3 DEF WriteLog
    <3>2. /\ log' \in Seq(LogOp(clock)) /\ Len(log') = Len(log) + 1
          /\ \A i \in 1..Len(log) : log'[i] = log[i]
          /\ log'[Len(log')] = op
      BY <1>3, <2>0, <3>1, AppendProperties
    <3>3. Replay(checkpoint, log') = IF op.kind = "logout" THEN Replay(checkpoint, log)
                                     ELSE Effect(Replay(checkpoint, log), op)
      BY <2>0, <3>2, ReplayStep
    <3>4. "logout" \notin Kinds => table' = Replay(checkpoint', log')
      BY <1>0, <1>4, <2>0, <3>1, <3>3
    <3>5. Len(log') <= CheckpointInterval
      BY <2>0, <2>3, <3>2
    <3> QED BY <3>2, <3>4, <3>5
  <2> QED BY <2>1, <2>2, <2>3
<1>6. TypeOK'
  BY <1>0, <1>2, <1>5 DEF Inv, TypeOK, Good
<1>7. Tree(table)'
  BY <1>2 DEF Good
<1>8. Asked' /\ (DOMAIN request = Connection)'
  <2>1. DOMAIN request' = Connection
    BY <1>0 DEF Inv
  <2>2. \A d \in Connection : request'[d] = NoCommand
    BY <1>0 DEF Inv, OneAtATime
  <2> QED BY <2>1, <2>2 DEF Asked
<1>9. "logout" \notin Kinds => Recoverable'
  <2>1. \A i \in DOMAIN log' : log'[i] \in LogOp(clock)
    BY <1>5
  <2>2. \A i \in DOMAIN log' : log'[i] \in UNION {Commands(m) : m \in 0..clock'}
    BY <1>0, <2>1 DEF LogOp
  <2> QED BY <1>5, <2>2 DEF Recoverable
<1>10. log' \in Seq(LogOp(clock'))
  BY <1>0, <1>5
<1> QED BY <1>6, <1>7, <1>8, <1>9, <1>10 DEF Inv

LEMMA RestartInv ==
    ASSUME OneAtATime, Inv, Restart
    PROVE  Inv'
<1>0. /\ crashes < MaxCrashes /\ crashes' = crashes + 1 /\ table' = Replay(checkpoint, log)
      /\ request' = [c \in Connection |-> NoCommand]
      /\ log' = log /\ checkpoint' = checkpoint /\ clock' = clock
      /\ crashes \in 0..MaxCrashes /\ MaxCrashes \in Nat
  BY InvIs DEF Restart
<1>1. "logout" \notin Kinds
  BY <1>0 DEF OneAtATime
<1>2. table' = table
  BY <1>0, <1>1 DEF Inv, Recoverable
<1>3. crashes' \in 0..MaxCrashes
  BY <1>0
<1>4. TypeOK' /\ Tree(table)'
  BY <1>0, <1>2, <1>3 DEF Inv, TypeOK
<1>5. Asked' /\ (DOMAIN request = Connection)'
  BY <1>0 DEF Asked
<1>6. Recoverable' /\ log' \in Seq(LogOp(clock'))
  BY <1>0, <1>1, <1>2 DEF Inv, Recoverable
<1> QED BY <1>4, <1>5, <1>6 DEF Inv

LEMMA StutterInv ==
    ASSUME Inv, UNCHANGED vars
    PROVE  Inv'
<1>1. /\ table' = table /\ log' = log /\ checkpoint' = checkpoint /\ clock' = clock
      /\ request' = request /\ crashes' = crashes
  BY DEF vars
<1>2. TypeOK' /\ Tree(table)'
  BY <1>1 DEF Inv, TypeOK
<1>3. Asked' /\ (DOMAIN request = Connection)'
  BY <1>1 DEF Inv, Asked
<1>4. log' \in Seq(LogOp(clock')) /\ ("logout" \notin Kinds => Recoverable')
  BY <1>1 DEF Inv, Recoverable
<1> QED BY <1>2, <1>3, <1>4 DEF Inv

LEMMA InvHolds ==
    ASSUME OneAtATime PROVE Spec => []Inv
<1>1. Init => Inv
  BY InitInv
<1>2. Inv /\ [Next]_vars => Inv'
  BY RequestInv, ExecuteInv, RestartInv, StutterInv DEF Next
<1> QED BY <1>1, <1>2, PTL DEF Spec

-----------------------------------------------------------------------------
(* The theorems.                                                            *)

\* A tree is tidy.
LEMMA GoodIsTidy ==
    ASSUME Good(table, clock) PROVE Tidy
<1> DEFINE places(c) == {l \in Listings(table) : Item(table, l).id = c}
<1>0. Linked(table) /\ NoDoubles(table) /\ NoOrphans(table) /\ Acyclic(table) /\ Rooted(table)
  BY DEF Good, Tree
<1>1. ASSUME NEW l \in Listings(table)
      PROVE  /\ Item(table, l).dir \in BOOLEAN
             /\ Item(table, l).dir => Item(table, l).id \in DirCol
             /\ ~Item(table, l).dir => Item(table, l).id \in FileCol
             /\ Present(table, Item(table, l).id)
             /\ Item(table, l).dir => Dir(table, Item(table, l).id).parent = l[1]
  <2>1. /\ l[1] \in Folder /\ l[2] \in DOMAIN Entries(table, l[1])
        /\ Item(table, l) = Entries(table, l[1])[l[2]]
    BY ListingsAre
  <2>2. Entries(table, l[1]) \in Seq(EntryType)
    BY <2>1, DirIs DEF Good
  <2>3. Item(table, l) \in EntryType
    BY <2>1, <2>2
  <2> QED BY <1>0, <2>3 DEF Linked, EntryType
<1>2. ASSUME NEW c \in DirCol \cup FileCol, Present(table, c)
      PROVE  \E l \in places(c) : /\ places(c) = {l}
                                  /\ Item(table, l).dir <=> c \in DirCol
                                  /\ c \in DirCol => Dir(table, c).parent = l[1]
  <2>1. PICK l \in Listings(table) : Item(table, l).id = c
    BY <1>0, <1>2 DEF NoOrphans
  <2>2. places(c) = {l}
    BY <1>0, <2>1 DEF NoDoubles
  <2>3. Item(table, l).dir <=> c \in DirCol
    BY <1>1, <2>1, Columns
  <2>4. c \in DirCol => Dir(table, c).parent = l[1]
    BY <1>1, <2>1, <2>3
  <2> QED BY <2>1, <2>2, <2>3, <2>4
<1>3. ASSUME NEW c \in DirCol \cup FileCol, ~Present(table, c) PROVE places(c) = {}
  BY <1>1, <1>3
<1>4. ASSUME NEW d \in Folder, NEW n \in Name, NEW i \in At(Dir(table, d), n),
             NEW j \in At(Dir(table, d), n)
      PROVE  i = j
  <2>1. NameOnce(table)
    BY TreeForms DEF Good
  <2> QED BY <2>1 DEF NameOnce, At, Entries
<1>5. Present(table, Cwd(table))
  BY <1>0 DEF Rooted
<1> QED BY <1>0, <1>2, <1>3, <1>4, <1>5 DEF Tidy

\* Whatever the user does, one thing at a time, and whenever the server is
\* started again: every cell is listed once, by its parent, and hangs from
\* the root (kvs_upload, kvs_mkdir, kvs_mv, kvs_rm, kvs_cd, kvs_rename).
THEOREM FilesStayTidy ==
    ASSUME OneAtATime PROVE Spec => []Tidy
<1>1. Inv => Tidy
  BY InvIs, GoodIsTidy
<1> QED BY <1>1, InvHolds, PTL

\* The invariant that the run checks, with the log that rebuilds the table,
\* for a user who does not log out.
THEOREM TreeInvariant ==
    ASSUME OneAtATime, "logout" \notin Kinds PROVE Spec => []TreeInv
<1>1. Inv => TreeInv
  BY DEF Inv, TreeInv
<1> QED BY <1>1, InvHolds, PTL

\* A restart, which loads the checkpoint and replays the log, changes
\* nothing in memory, the current folder included (replay_log; the ids are
\* new there, see NewId).
THEOREM RestartRebuilds ==
    ASSUME OneAtATime, "logout" \notin Kinds
    PROVE  Spec => [][Restart => UNCHANGED table]_vars
<1>1. Inv /\ [Next]_vars => [Restart => UNCHANGED table]_vars
  BY DEF Inv, Recoverable, Restart
<1> QED BY <1>1, InvHolds, PTL DEF Spec

-----------------------------------------------------------------------------
(* Transfer: the chunks.                                                    *)

LEMMA TotalIs ==
    ASSUME NEW sizes, Len(sizes) \in Nat
    PROVE  \E sum : /\ Total(sizes) = sum[Len(sizes)]
                    /\ sum[0] = 0
                    /\ \A i \in 1..Len(sizes) : sum[i] = sum[i - 1] + sizes[i]
<1> DEFINE IsSum(f) == f = [i \in 0..Len(sizes) |->
                               IF i = 0 THEN 0 ELSE f[i - 1] + sizes[i]]
           total == CHOOSE f : IsSum(f)
<1>1. PICK f : IsRun(f, "sum", 0, <<>>, sizes, Len(sizes))
  BY RunExists
<1>2. \A i, x : After("sum", <<>>, sizes, x, i) = x + sizes[i]
  BY DEF After
<1>3. IsSum(f)
  BY <1>1, <1>2 DEF IsRun
<1>4. IsSum(total)
  BY <1>3
<1>5. 0 \in 0..Len(sizes) /\ \A i \in 1..Len(sizes) : i \in 0..Len(sizes) /\ i # 0
  OBVIOUS
<1>6. Total(sizes) = total[Len(sizes)]
  BY Zenon DEF Total
<1>7. total[0] = 0 /\ \A i \in 1..Len(sizes) : total[i] = total[i - 1] + sizes[i]
  BY <1>4, <1>5
<1> HIDE DEF total
<1> QED BY <1>6, <1>7

\* The chunks of an upload hold the whole encoding, whatever its length is to
\* the size of a chunk.
LEMMA UploadTotal ==
    ASSUME NEW n \in Nat
    PROVE  Total(UploadSizes(n)) = n
<1> DEFINE C == FILE_CHUNK_SIZE
           sizes == UploadSizes(n)
           k == (n + C - 1) \div C
           size(i) == LET left == n - (i - 1) * C IN IF left < C THEN left ELSE C
<1>1. C \in Nat \ {0}
  BY TransferAssumption
<1> HIDE DEF C
<1>2. k \in Nat /\ (n + C - 1) = C * k + ((n + C - 1) % C) /\ (n + C - 1) % C \in 0..(C - 1)
  BY <1>1
<1> HIDE DEF k
<1>3. sizes = [i \in 1..k |-> size(i)]
  BY DEF UploadSizes, C, k
<1> HIDE DEF sizes
<1>4. Len(sizes) = k /\ \A i \in 1..k : sizes[i] = size(i)
  BY <1>2, <1>3
<1>5. PICK sum : /\ Total(sizes) = sum[k]
                 /\ sum[0] = 0
                 /\ \A i \in 1..k : sum[i] = sum[i - 1] + sizes[i]
  BY <1>2, <1>4, TotalIs
<1>6. k * C >= n /\ (k > 0 => (k - 1) * C < n)
  BY <1>1, <1>2
<1> DEFINE Fails == {i \in 0..k : sum[i] # IF i = k THEN n ELSE i * C}
<1>7. Fails = {}
  <2> SUFFICES ASSUME Fails # {} PROVE FALSE
    OBVIOUS
  <2>1. PICK i \in Fails : \A j \in Fails : i <= j
    <3>1. Fails \in SUBSET Nat
      BY <1>2
    <3> HIDE DEF Fails
    <3> QED BY <3>1, LeastNat
  <2>2. i # 0
    <3>1. k = 0 => n = 0
      BY <1>1, <1>6
    <3> QED BY <1>1, <1>2, <1>5, <3>1
  <2>3. i \in 1..k /\ i - 1 \in 0..k /\ i - 1 # k
    BY <1>2, <2>2
  <2>4. sum[i - 1] = (i - 1) * C
    BY <1>2, <2>1, <2>3
  <2>5. sum[i] = (i - 1) * C + size(i)
    BY <1>4, <1>5, <2>3, <2>4
  <2>6. (i - 1) * C + C = i * C
    BY <1>1, <1>2, <2>3
  <2>7. i < k => i * C <= (k - 1) * C
    BY <1>1, <1>2, <2>3
  <2>8. i < k => size(i) = C
    BY <1>1, <1>2, <1>6, <2>3, <2>6, <2>7
  <2>9. i = k => size(i) = n - (i - 1) * C
    BY <1>1, <1>2, <1>6, <2>3, <2>6
  <2>10. sum[i] = IF i = k THEN n ELSE i * C
    <3>1. (i - 1) * C \in Int
      BY <1>1, <2>3
    <3>2. CASE i = k
      BY <2>5, <2>9, <3>1, <3>2
    <3>3. CASE i < k
      BY <2>5, <2>6, <2>8, <3>3
    <3> QED BY <1>2, <2>3, <3>2, <3>3
  <2> QED BY <2>10
<1>8. sum[k] = n
  BY <1>2, <1>7
<1> QED BY <1>5, <1>8 DEF sizes

\* So do the chunks of a download, the last of which may be empty.
LEMMA DownloadTotal ==
    ASSUME NEW n \in Nat
    PROVE  Total(DownloadSizes(n)) = n
<1> DEFINE C == FILE_CHUNK_SIZE
           sizes == DownloadSizes(n)
           k == n \div C
<1>1. C \in Nat \ {0}
  BY TransferAssumption
<1> HIDE DEF C
<1>2. k \in Nat /\ n = C * k + (n % C) /\ n % C \in 0..(C - 1)
  BY <1>1
<1> HIDE DEF k
<1>3. sizes = Append([i \in 1..k |-> C], n % C)
  BY DEF DownloadSizes, C, k
<1> HIDE DEF sizes
<1>4. /\ Len(sizes) = k + 1
      /\ \A i \in 1..k : sizes[i] = C
      /\ sizes[k + 1] = n % C
  <2>1. [i \in 1..k |-> C] \in Seq(Nat) /\ Len([i \in 1..k |-> C]) = k
    BY <1>1, <1>2
  <2> QED BY <1>2, <1>3, <2>1
<1>5. PICK sum : /\ Total(sizes) = sum[k + 1]
                 /\ sum[0] = 0
                 /\ \A i \in 1..(k + 1) : sum[i] = sum[i - 1] + sizes[i]
  BY <1>2, <1>4, TotalIs
<1> DEFINE Fails == {i \in 0..k : sum[i] # i * C}
<1>7. Fails = {}
  <2> SUFFICES ASSUME Fails # {} PROVE FALSE
    OBVIOUS
  <2>1. PICK i \in Fails : \A j \in Fails : i <= j
    <3>1. Fails \in SUBSET Nat
      BY <1>2
    <3> HIDE DEF Fails
    <3> QED BY <3>1, LeastNat
  <2>2. i # 0
    BY <1>1, <1>2, <1>5
  <2>3. i \in 1..k /\ i \in 1..(k + 1) /\ i - 1 \in 0..k
    BY <1>2, <2>2
  <2>4. sum[i - 1] = (i - 1) * C
    BY <1>2, <2>1, <2>3
  <2>5. sum[i] = (i - 1) * C + C
    BY <1>4, <1>5, <2>3, <2>4
  <2>6. (i - 1) * C + C = i * C
    BY <1>1, <1>2, <2>3
  <2> QED BY <2>5, <2>6
<1>8. sum[k] = k * C
  BY <1>2, <1>7
<1>9. sum[k + 1] = n
  <2>1. k + 1 \in 1..(k + 1) /\ (k + 1) - 1 = k
    BY <1>2
  <2>2. sum[k + 1] = k * C + (n % C)
    BY <1>4, <1>5, <1>8, <2>1
  <2> QED BY <1>1, <1>2, <2>2
<1> QED BY <1>5, <1>9 DEF sizes

-----------------------------------------------------------------------------
(* base64                                                                   *)

Bytes == 0..255

\* b are the three bytes of a group, 0 for those that are missing.
IsGroup(b, s, g) ==
    /\ b \in [1..3 -> Bytes]
    /\ Triple(s, g) = b[1] * 65536 + b[2] * 256 + b[3]
    /\ \A i \in 1..3 : b[i] = IF 3 * g + i <= Len(s) THEN s[3 * g + i] ELSE 0

LEMMA GroupExists ==
    ASSUME NEW s \in Seq(Bytes), NEW g \in Nat
    PROVE  \E b : IsGroup(b, s, g)
<1> DEFINE b == [i \in 1..3 |-> IF 3 * g + i <= Len(s) THEN s[3 * g + i] ELSE 0]
<1>1. \A i \in 1..3 : (IF 3 * g + i <= Len(s) THEN s[3 * g + i] ELSE 0) \in Bytes
  <2> TAKE i \in 1..3
  <2>1. CASE 3 * g + i <= Len(s)
    <3>1. 3 * g + i \in 1..Len(s)
      BY <2>1
    <3> QED BY <2>1, <3>1
  <2>2. CASE ~(3 * g + i <= Len(s))
    BY <2>2 DEF Bytes
  <2> QED BY <2>1, <2>2
<1>2. b \in [1..3 -> Bytes]
  BY <1>1
<1>3. ByteValue[1] = 65536 /\ ByteValue[2] = 256
  BY SMT DEF ByteValue
<1>4. Triple(s, g) = b[1] * ByteValue[1] + b[2] * ByteValue[2] + b[3]
  BY SMT DEF Triple
<1> HIDE DEF b
<1>5. Triple(s, g) = b[1] * 65536 + b[2] * 256 + b[3]
  BY SMT, <1>3, <1>4
<1>6. \A i \in 1..3 : b[i] = IF 3 * g + i <= Len(s) THEN s[3 * g + i] ELSE 0
  BY DEF b
<1>7. IsGroup(b, s, g)
  BY SMT, <1>2, <1>5, <1>6 DEF IsGroup
<1> QED BY <1>7

LEMMA TripleBytes ==
    ASSUME NEW s \in Seq(Bytes), NEW g \in Nat, NEW c \in 1..3, 3 * g + c <= Len(s)
    PROVE  (Triple(s, g) \div ByteValue[c]) % 256 = s[3 * g + c]
<1>1. PICK b : IsGroup(b, s, g)
  BY GroupExists
<1> DEFINE x == b[1]
           y == b[2]
           z == b[3]
<1>2. x \in 0..255 /\ y \in 0..255 /\ z \in 0..255
  BY SMT, <1>1 DEF Bytes, IsGroup
<1>3. b[c] = s[3 * g + c] /\ Triple(s, g) = x * 65536 + y * 256 + z
  BY SMT, <1>1 DEF IsGroup
<1>4. ByteValue[1] = 65536 /\ ByteValue[2] = 256 /\ ByteValue[3] = 1
  BY SMT DEF ByteValue
<1> HIDE DEF x, y, z
<1>5. /\ (Triple(s, g) \div 65536) % 256 = x
      /\ (Triple(s, g) \div 256) % 256 = y
      /\ (Triple(s, g) \div 1) % 256 = z
  <2> DEFINE v == x * 65536 + y * 256 + z
  <2>1. v \div 65536 = x
    BY SMT, <1>2
  <2>2. v \div 256 = x * 256 + y
    BY SMT, <1>2
  <2>3. (x * 256 + y) % 256 = y
    BY SMT, <1>2
  <2>4. (v \div 1) % 256 = z
    BY SMT, <1>2
  <2>5. x % 256 = x
    BY SMT, <1>2
  <2> QED BY SMT, <1>3, <2>1, <2>2, <2>3, <2>4, <2>5
<1> QED BY SMT, <1>3, <1>4, <1>5 DEF x, y, z

\* The four digits of three bytes.
LEMMA DigitsOf ==
    ASSUME NEW x \in Bytes, NEW y \in Bytes, NEW z \in Bytes,
           NEW v, v = x * 65536 + y * 256 + z
    PROVE  /\ (v \div 262144) % 64 = x \div 4
           /\ (v \div 4096) % 64 = (x % 4) * 16 + (y \div 16)
           /\ (v \div 64) % 64 = (y % 16) * 4 + (z \div 64)
           /\ (v \div 1) % 64 = z % 64
<1>1. v \div 262144 = x \div 4
  BY SMT DEF Bytes
<1>2. v \div 4096 = x * 16 + (y \div 16)
  BY SMT DEF Bytes
<1>3. v \div 64 = x * 1024 + y * 4 + (z \div 64)
  BY SMT DEF Bytes
<1>4. (x \div 4) \in 0..63 /\ (y \div 16) \in 0..15 /\ (z \div 64) \in 0..3
  BY SMT DEF Bytes
<1>5. (v \div 4096) % 64 = (x % 4) * 16 + (y \div 16)
  BY SMT, <1>2, <1>4 DEF Bytes
<1>6. (v \div 64) % 64 = (y % 16) * 4 + (z \div 64)
  BY SMT, <1>3, <1>4 DEF Bytes
<1>7. (v \div 1) % 64 = z % 64
  BY SMT DEF Bytes
<1>8. (v \div 262144) % 64 = x \div 4
  BY SMT, <1>1, <1>4
<1> QED BY SMT, <1>5, <1>6, <1>7, <1>8

\* Four digits of three bytes, put together, are the number of these.
LEMMA DigitsAreNumber ==
    ASSUME NEW s \in Seq(Bytes), NEW g \in Nat, NEW d \in [1..4 -> 0..Pad],
           \A r \in 1..4 :
               d[r] = IF 3 * g + r > Len(s) + 1 THEN 0 ELSE Digit(s, g, r),
           3 * g + 1 <= Len(s)
    PROVE  Triple(s, g) = d[1] * DigitValue[1] + d[2] * DigitValue[2]
                              + d[3] * DigitValue[3] + d[4]
<1>1. PICK b : IsGroup(b, s, g)
  BY GroupExists
<1> DEFINE x == b[1]
           y == b[2]
           z == b[3]
           v == Triple(s, g)
<1>2. x \in Bytes /\ y \in Bytes /\ z \in Bytes
  BY SMT, <1>1 DEF IsGroup
<1>3. v = x * 65536 + y * 256 + z
  BY SMT, <1>1 DEF IsGroup
<1>4. /\ 3 * g + 2 > Len(s) => y = 0
      /\ 3 * g + 3 > Len(s) => z = 0
  BY SMT, <1>1 DEF IsGroup
<1>5. /\ DigitValue[1] = 262144 /\ DigitValue[2] = 4096
      /\ DigitValue[3] = 64 /\ DigitValue[4] = 1
  BY SMT DEF DigitValue
<1> HIDE DEF x, y, z
<1>6. /\ (v \div 262144) % 64 = x \div 4
      /\ (v \div 4096) % 64 = (x % 4) * 16 + (y \div 16)
      /\ (v \div 64) % 64 = (y % 16) * 4 + (z \div 64)
      /\ (v \div 1) % 64 = z % 64
  <2> HIDE DEF v
  <2> QED BY SMT, <1>2, <1>3, DigitsOf
<1>7. /\ d[1] = x \div 4
      /\ d[2] = (x % 4) * 16 + (y \div 16)
  BY SMT, <1>5, <1>6 DEF Digit
<1>8. d[3] = (y % 16) * 4 + (z \div 64)
  <2>1. CASE 3 * g + 3 > Len(s) + 1
    <3>1. d[3] = 0 /\ y = 0 /\ z = 0
      BY SMT, <1>4, <2>1
    <3> QED BY SMT, <3>1
  <2>2. CASE ~(3 * g + 3 > Len(s) + 1)
    BY SMT, <1>5, <1>6, <2>2 DEF Digit
  <2> QED BY <2>1, <2>2
<1>9. d[4] = z % 64
  <2>1. CASE 3 * g + 4 > Len(s) + 1
    <3>1. d[4] = 0 /\ z = 0
      BY SMT, <1>4, <2>1
    <3> QED BY SMT, <3>1
  <2>2. CASE ~(3 * g + 4 > Len(s) + 1)
    BY SMT, <1>5, <1>6, <2>2 DEF Digit
  <2> QED BY <2>1, <2>2
<1>10. x * 65536 + y * 256 + z = (x \div 4) * 262144 + ((x % 4) * 16 + (y \div 16)) * 4096
                                    + ((y % 16) * 4 + (z \div 64)) * 64 + (z % 64)
  BY SMT, <1>2 DEF Bytes
<1> QED BY SMT, <1>3, <1>5, <1>7, <1>8, <1>9, <1>10

LEMMA DigitType ==
    ASSUME NEW s \in Seq(Bytes), NEW g \in Nat, NEW r \in 1..4
    PROVE  /\ Digit(s, g, r) \in 0..Pad
           /\ (Digit(s, g, r) = Pad) <=> (3 * g + r > Len(s) + 1)
<1> DEFINE v == Triple(s, g)
<1>1. PICK b : IsGroup(b, s, g)
  BY GroupExists
<1>2. v \in Nat
  <2> DEFINE x == b[1]
             y == b[2]
             z == b[3]
  <2>1. x \in Nat /\ y \in Nat /\ z \in Nat
    <3>1. x \in Bytes /\ y \in Bytes /\ z \in Bytes
      BY SMT, <1>1 DEF IsGroup
    <3> HIDE DEF x, y, z
    <3> QED BY SMT, <3>1 DEF Bytes
  <2>2. v = x * 65536 + y * 256 + z
    BY SMT, <1>1 DEF IsGroup
  <2> HIDE DEF x, y, z, v
  <2> QED BY SMT, <2>1, <2>2
<1>3. DigitValue[r] \in Nat \ {0}
  BY SMT DEF DigitValue
<1> HIDE DEF v
<1> DEFINE w == v \div DigitValue[r]
<1>4. w \in Nat
  BY SMT, <1>2, <1>3
<1>5. w % 64 \in 0..63
  <2> HIDE DEF w
  <2> QED BY SMT, <1>4
<1>6. Digit(s, g, r) = IF 3 * g + r > Len(s) + 1 THEN Pad ELSE w % 64
  BY DEF Digit, v
<1> HIDE DEF w
<1>7. CASE 3 * g + r > Len(s) + 1
  BY SMT, <1>6, <1>7 DEF Pad
<1>8. CASE ~(3 * g + r > Len(s) + 1)
  <2>1. Digit(s, g, r) \in 0..63
    BY SMT, <1>5, <1>6, <1>8
  <2>2. \A d \in 0..63 : d \in 0..Pad /\ d # Pad
    BY SMT DEF Pad
  <2>3. Digit(s, g, r) \in 0..Pad /\ Digit(s, g, r) # Pad
    BY <2>1, <2>2
  <2> QED BY <1>8, <2>3
<1> QED BY <1>7, <1>8

\* The groups of a string of n bytes.
Groups(n) == (n + 2) \div 3

\* A digit is one of those that are not '=' if its place is one of theirs.
LEMMA DigitPlace ==
    ASSUME NEW n \in Nat, NEW g \in Nat, NEW r \in 1..4, g < Groups(n)
    PROVE  4 * g + r <= n + Groups(n) <=> 3 * g + r <= n + 1
<1> DEFINE t == Groups(n)
<1>1. t \in Nat /\ 3 * t <= n + 2 /\ n <= 3 * t
  BY SMT DEF Groups
<1> HIDE DEF t
<1>2. g <= t - 1
  BY SMT, <1>1 DEF t
<1>3. ASSUME 4 * g + r <= n + t PROVE 3 * g + r <= n + 1
  <2>1. CASE g = t - 1
    BY SMT, <1>1, <1>3, <2>1
  <2>2. CASE g < t - 1
    BY SMT, <1>1, <2>2
  <2> QED BY SMT, <1>1, <1>2, <2>1, <2>2
<1>4. ASSUME 3 * g + r <= n + 1 PROVE 4 * g + r <= n + t
  BY SMT, <1>1, <1>2, <1>4
<1> QED BY <1>3, <1>4 DEF t

LEMMA EncodeIs ==
    ASSUME NEW s \in Seq(Bytes)
    PROVE  /\ encode(s) \in Seq(0..Pad)
           /\ Len(encode(s)) = 4 * Groups(Len(s))
           /\ \A g \in Nat : \A r \in 1..4 :
                 4 * g + r <= 4 * Groups(Len(s)) => encode(s)[4 * g + r] = Digit(s, g, r)
<1> DEFINE e(j) == Digit(s, (j - 1) \div 4, ((j - 1) % 4) + 1)
           n == 4 * Groups(Len(s))
<1>1. n \in Nat
  BY SMT DEF Groups
<1>2. encode(s) = [j \in 1..n |-> e(j)]
  BY DEF encode, Groups
<1> HIDE DEF n
<1>3. \A j \in 1..n : (j - 1) \div 4 \in Nat /\ ((j - 1) % 4) + 1 \in 1..4
  BY SMT, <1>1
<1>4. \A j \in 1..n : e(j) \in 0..Pad
  BY <1>3, DigitType
<1>5. \A g \in Nat : \A r \in 1..4 : (4 * g + r - 1) \div 4 = g /\ ((4 * g + r - 1) % 4) + 1 = r
  BY SMT
<1> HIDE DEF e
<1>6. encode(s) \in Seq(0..Pad) /\ Len(encode(s)) = n
  BY <1>1, <1>2, <1>4
<1>7. ASSUME NEW g \in Nat, NEW r \in 1..4, 4 * g + r <= n
      PROVE  encode(s)[4 * g + r] = Digit(s, g, r)
  <2>1. 4 * g + r \in 1..n
    BY SMT, <1>1, <1>7
  <2>2. encode(s)[4 * g + r] = e(4 * g + r)
    BY <1>2, <2>1
  <2>3. e(4 * g + r) = Digit(s, (4 * g + r - 1) \div 4, ((4 * g + r - 1) % 4) + 1)
    BY DEF e
  <2> QED BY <1>5, <2>2, <2>3
<1> QED BY <1>6, <1>7 DEF n

LEMMA CountIs ==
    ASSUME NEW s \in Seq(Bytes)
    PROVE  DigitCount(encode(s)) = Len(s) + Groups(Len(s))
<1> DEFINE L == Len(s)
           T == Groups(L)
           t == encode(s)
           N == L + T
           IsCount(n) == /\ \A j \in 1..n : t[j] # Pad
                         /\ n < Len(t) => t[n + 1] = Pad
<1>1. L \in Nat /\ T \in Nat /\ 3 * T <= L + 2 /\ L <= 3 * T
  BY SMT DEF Groups
<1>2. Len(t) = 4 * T /\ N \in 0..Len(t)
  BY SMT, <1>1, EncodeIs
<1>3. \A g \in Nat : \A r \in 1..4 : 4 * g + r <= 4 * T => t[4 * g + r] = Digit(s, g, r)
  BY EncodeIs
<1>4. ASSUME NEW j \in 1..(4 * T)
      PROVE  t[j] = Pad <=> j > N
  <2> DEFINE g == (j - 1) \div 4
             r == ((j - 1) % 4) + 1
  <2>1. g \in Nat /\ r \in 1..4 /\ j = 4 * g + r /\ g < T
    BY SMT, <1>1
  <2> HIDE DEF g, r, L, T, N, t
  <2>2. t[j] = Digit(s, g, r)
    <3>1. 4 * g + r <= 4 * T
      BY SMT, <1>1, <2>1
    <3>2. t[4 * g + r] = Digit(s, g, r)
      BY Zenon, <1>3, <2>1, <3>1
    <3> QED BY <2>1, <3>2
  <2>3. t[j] = Pad <=> 3 * g + r > L + 1
    BY <2>1, <2>2, DigitType DEF L
  <2>4. 4 * g + r <= N <=> 3 * g + r <= L + 1
    BY <1>1, <2>1, DigitPlace DEF N, T
  <2>5. (j <= N <=> ~(j > N)) /\ (3 * g + r <= L + 1 <=> ~(3 * g + r > L + 1))
    BY SMT, <1>1, <2>1 DEF N
  <2> QED BY <2>1, <2>3, <2>4, <2>5
<1> HIDE DEF L, T, t
<1>5. IsCount(N)
  <2>1. \A j \in 1..N : j \in 1..(4 * T) /\ ~(j > N)
    BY <1>1, <1>2
  <2>2. N < Len(t) => N + 1 \in 1..(4 * T) /\ N + 1 > N
    BY <1>1, <1>2
  <2> QED BY <1>4, <2>1, <2>2
<1>6. ASSUME NEW n \in 0..Len(t), IsCount(n) PROVE n = N
  <2> HIDE DEF N
  <2>1. CASE n < N
    <3>1. n < Len(t) /\ n + 1 \in 1..(4 * T) /\ ~(n + 1 > N)
      BY <1>1, <1>2, <2>1
    <3> QED BY <1>4, <1>6, <3>1
  <2>2. CASE N < n
    <3>1. N + 1 \in 1..n /\ N + 1 \in 1..(4 * T) /\ N + 1 > N
      BY <1>1, <1>2, <2>2
    <3> QED BY <1>4, <1>6, <3>1
  <2> QED BY <1>1, <1>2, <2>1, <2>2
<1>7. DigitCount(t) = CHOOSE n \in 0..Len(t) : IsCount(n)
  BY DEF DigitCount
<1> HIDE DEF N, IsCount
<1>8. (CHOOSE n \in 0..Len(t) : IsCount(n)) = N
  BY <1>2, <1>5, <1>6
<1> QED BY <1>7, <1>8 DEF t, N, T, L

\* What is decoded of an encoding (encode, decode of utils.cc) is what was
\* encoded, for strings of bytes of any length: of an incomplete group the
\* digits that are not '=' are as many as it takes.
THEOREM DecodeEncode ==
    ASSUME NEW s \in Seq(Bytes)
    PROVE  decode(encode(s)) = s
<1> DEFINE L == Len(s)
           T == Groups(L)
           t == encode(s)
           N == L + T
           rest == N % 4
           length == 3 * (N \div 4) + (IF rest = 0 THEN 0 ELSE rest - 1)
           byte(k) == (Quad(t, N, (k - 1) \div 3) \div ByteValue[((k - 1) % 3) + 1]) % 256
<1>1. L \in Nat /\ T \in Nat /\ 3 * T <= L + 2 /\ L <= 3 * T
  BY SMT DEF Groups
<1>2. DigitCount(t) = N
  BY CountIs
<1>3. \A g \in Nat : \A r \in 1..4 : 4 * g + r <= 4 * T => t[4 * g + r] = Digit(s, g, r)
  BY EncodeIs
<1> HIDE DEF t
<1>4. decode(t) = [k \in 1..length |-> byte(k)]
  BY <1>2 DEF decode
<1>5. length = L
  <2> HIDE DEF L, T
  <2>1. CASE L = 3 * T
    <3>1. N = 4 * T
      BY SMT, <1>1, <2>1
    <3> HIDE DEF N
    <3> QED BY SMT, <1>1, <2>1, <3>1
  <2>2. CASE L = 3 * T - 1
    <3>1. N = 4 * (T - 1) + 3
      BY SMT, <1>1, <2>2
    <3> HIDE DEF N
    <3> QED BY SMT, <1>1, <2>2, <3>1
  <2>3. CASE L = 3 * T - 2
    <3>1. N = 4 * (T - 1) + 2
      BY SMT, <1>1, <2>3
    <3> HIDE DEF N
    <3> QED BY SMT, <1>1, <2>3, <3>1
  <2> QED BY SMT, <1>1, <2>1, <2>2, <2>3
<1>6. ASSUME NEW g \in Nat, 3 * g + 1 <= L
      PROVE  Quad(t, N, g) = Triple(s, g)
  <2> DEFINE d == [r \in 1..4 |-> IF 4 * g + r <= N THEN t[4 * g + r] ELSE 0]
  <2>1. g < T
    <3> HIDE DEF L, T
    <3> QED BY SMT, <1>1, <1>6
  <2>2. ASSUME NEW r \in 1..4
        PROVE  /\ d[r] = IF 3 * g + r > L + 1 THEN 0 ELSE Digit(s, g, r)
               /\ d[r] \in 0..Pad
    <3>1. 4 * g + r <= 4 * T
      <4> HIDE DEF L, T
      <4> QED BY SMT, <1>1, <2>1
    <3>2. t[4 * g + r] = Digit(s, g, r)
      BY Zenon, <1>3, <3>1
    <3>3. d[r] = IF 4 * g + r <= N THEN Digit(s, g, r) ELSE 0
      BY <3>2
    <3>4. 4 * g + r <= N <=> ~(3 * g + r > L + 1)
      <4>1. 4 * g + r <= N <=> 3 * g + r <= L + 1
        BY <1>1, <2>1, DigitPlace
      <4>2. 3 * g + r <= L + 1 <=> ~(3 * g + r > L + 1)
        BY SMT, <1>1
      <4> QED BY <4>1, <4>2
    <3>5. Digit(s, g, r) \in 0..Pad
      BY Zenon, DigitType
    <3>6. 0 \in 0..Pad
      BY SMT DEF Pad
    <3> HIDE DEF d
    <3> QED BY Zenon, <3>3, <3>4, <3>5, <3>6
  <2>3. d \in [1..4 -> 0..Pad]
    <3> DEFINE e(r) == IF 4 * g + r <= N THEN t[4 * g + r] ELSE 0
    <3>1. d = [r \in 1..4 |-> e(r)] /\ \A r \in 1..4 : d[r] = e(r)
      OBVIOUS
    <3> HIDE DEF d, e
    <3>2. \A r \in 1..4 : e(r) \in 0..Pad
      BY <2>2, <3>1
    <3> QED BY <3>1, <3>2
  <2>4. Quad(t, N, g) = d[1] * DigitValue[1] + d[2] * DigitValue[2]
                            + d[3] * DigitValue[3] + d[4]
    BY SMT DEF Quad
  <2> HIDE DEF d
  <2>5. Triple(s, g) = d[1] * DigitValue[1] + d[2] * DigitValue[2]
                           + d[3] * DigitValue[3] + d[4]
    BY <1>6, <2>2, <2>3, DigitsAreNumber
  <2> QED BY <2>4, <2>5
<1>7. ASSUME NEW k \in 1..L PROVE byte(k) = s[k]
  <2> DEFINE g == (k - 1) \div 3
             c == ((k - 1) % 3) + 1
  <2>1. g \in Nat /\ c \in 1..3 /\ k = 3 * g + c
    BY SMT, <1>1
  <2>2. byte(k) = (Quad(t, N, g) \div ByteValue[c]) % 256
    OBVIOUS
  <2> HIDE DEF g, c, byte
  <2>3. 3 * g + 1 <= L /\ 3 * g + c <= L
    BY SMT, <1>1, <2>1
  <2>4. Quad(t, N, g) = Triple(s, g)
    BY <1>6, <2>1, <2>3
  <2>5. (Triple(s, g) \div ByteValue[c]) % 256 = s[3 * g + c]
    BY SMT, <2>1, <2>3, TripleBytes
  <2> QED BY SMT, <2>1, <2>2, <2>4, <2>5
<1> HIDE DEF byte, length
<1>8. decode(t) = [k \in 1..L |-> s[k]]
  BY <1>4, <1>5, <1>7
<1>9. s = [k \in 1..L |-> s[k]]
  OBVIOUS
<1> QED BY <1>8, <1>9 DEF t

-----------------------------------------------------------------------------
(* The reader of the form.                                                  *)

(* What the browser sends, what is to be made of it, and how much of it has *)
(* been read.                                                               *)
Sent    == CRLF \o file \o CRLF \o EndLine
Content == file \o CRLF
ReadSoFar == Len(Sent) - Len(input)

(* The place in Content where the line that is being read begins.           *)
LineStart == ReadSoFar - 1 - Len(message)

(* The line that is being read is the last that was read.                   *)
LineInv ==
    /\ file \in Seq(Bytes)
    /\ data \in Seq(Bytes)
    /\ message \in Seq(Bytes)
    /\ ReadSoFar \in 0..Len(Sent)
    /\ Len(message) \in 0..ReadSoFar
    /\ input = SubSeq(Sent, ReadSoFar + 1, Len(Sent))
    /\ message = SubSeq(Sent, ReadSoFar - Len(message) + 1, ReadSoFar)
    /\ message # <<>> => prev = Sent[ReadSoFar]

(* Of a plain file, the reader is before it, in it, in the end line, or     *)
(* waits for ever.                                                          *)
Before == pc = "body" /\ ReadSoFar < 2 /\ Len(message) = ReadSoFar
Within ==
    /\ pc = "content"
    /\ ReadSoFar \in 2..(Len(file) + 3)
    /\ LineStart \in LineStarts
    /\ data = SubSeq(Content, 1, LineStart - 1)
Beyond == pc \in {"body", "content"} /\ ReadSoFar >= Len(file) + 4 /\ data = Content
Stuck  == pc = "content" /\ input = <<>>
Done   == pc \notin {"body", "content"} /\ data = Content

PlainInv == Plain => Before \/ Within \/ Beyond \/ Stuck \/ Done

(* Every copy of the file, on its way or stored, is the encoding of what    *)
(* was read.                                                                *)
IsCopy(w) == w.text = encode(data) /\ Total(w.sizes) = Len(w.text)

Part ==
    [sizes : Seq(Nat), text : Seq(0..Pad), from : Server \cup {Frontend}, sent : BOOLEAN]

CopyInv ==
    /\ wire \in [Server \cup {Frontend} -> Part]
    /\ stored \in [Server -> Seq(0..Pad) \cup {NoFile}]
    /\ pc \in {"body", "content", "received"} =>
          \A r \in Server : ~wire[r].sent /\ stored[r] = NoFile
    /\ \A r \in Server : wire[r].sent => IsCopy(wire[r])
    /\ \A r \in Server : stored[r] # NoFile => stored[r] = encode(data)
    /\ pc = "downloading" => IsCopy(wire[Frontend])
    /\ pc = "served" => served = data

TransferInv == LineInv /\ PlainInv /\ CopyInv

-----------------------------------------------------------------------------
\* u has s and then t.
IsConcat(u, s, t, S) ==
    /\ u \in Seq(S)
    /\ Len(u) = Len(s) + Len(t)
    /\ \A i \in 1..Len(s) : u[i] = s[i]
    /\ \A i \in 1..Len(t) : u[Len(s) + i] = t[i]

LEMMA ConcatIs ==
    ASSUME NEW S, NEW s \in Seq(S), NEW t \in Seq(S)
    PROVE  IsConcat(s \o t, s, t, S)
  BY DEF IsConcat

LEMMA EndLineIs ==
    /\ EndLine \in Seq(Bytes)
    /\ Len(EndLine) = BoundaryDashes + 7
    /\ \A i \in 1..(BoundaryDashes + 6) : EndLine[i] # LF
<1> DEFINE n == BoundaryDashes + 2
           front == Dashes(n) \o <<Word>>
           middle == front \o Dashes(2)
<1>1. n \in Nat /\ n >= 2 /\ BoundaryDashes = n - 2
  BY TransferAssumption
<1>2. Dash \in Bytes /\ Word \in Bytes /\ CR \in Bytes /\ LF \in Bytes
  BY SMT DEF Dash, Word, CR, LF, Bytes
<1>3. Dash # LF /\ Word # LF /\ CR # LF
  BY SMT DEF Dash, Word, CR, LF
<1> HIDE DEF n
<1>4. \A m \in Nat : /\ Dashes(m) \in Seq(Bytes) /\ Len(Dashes(m)) = m
                     /\ \A i \in 1..m : Dashes(m)[i] = Dash
  BY <1>2 DEF Dashes
<1>5. <<Word>> \in Seq(Bytes) /\ Len(<<Word>>) = 1 /\ <<Word>>[1] = Word
  BY <1>2
<1>6. /\ front \in Seq(Bytes) /\ Len(front) = n + 1
      /\ \A i \in 1..(n + 1) : front[i] # LF
  <2>1. Dashes(n) \in Seq(Bytes) /\ Len(Dashes(n)) = n /\ \A i \in 1..n : Dashes(n)[i] = Dash
    BY <1>1, <1>4
  <2> QED BY <1>1, <1>3, <1>5, <2>1
<1> HIDE DEF front
<1>7. /\ middle \in Seq(Bytes) /\ Len(middle) = n + 3
      /\ \A i \in 1..(n + 3) : middle[i] # LF
  <2> DEFINE two == Dashes(2)
  <2>1. two \in Seq(Bytes) /\ Len(two) = 2 /\ \A i \in 1..2 : two[i] = Dash
    BY <1>4
  <2> HIDE DEF two
  <2>2. IsConcat(middle, front, two, Bytes)
    BY Zenon, <1>6, <2>1, ConcatIs DEF two
  <2> HIDE DEF middle
  <2>3. ASSUME NEW i \in (n + 2)..(n + 3) PROVE middle[i] # LF
    <3>1. i - (n + 1) \in 1..2 /\ i = (n + 1) + (i - (n + 1))
      BY <1>1
    <3> DEFINE j == i - (n + 1)
    <3> HIDE DEF j
    <3>2. middle[(n + 1) + j] = two[j] /\ two[j] # LF
      BY <1>3, <1>6, <2>1, <2>2, <3>1 DEF j, IsConcat
    <3> QED BY <3>1, <3>2 DEF j
  <2>4. \A i \in 1..(n + 3) : i \in 1..(n + 1) \/ i \in (n + 2)..(n + 3)
    BY <1>1
  <2> QED BY <1>1, <1>6, <2>1, <2>2, <2>3, <2>4 DEF IsConcat
<1>8. EndLine = middle \o CRLF
  BY DEF EndLine, front, n
<1> HIDE DEF middle
<1>9. CRLF \in Seq(Bytes) /\ Len(CRLF) = 2 /\ CRLF[1] # LF
  <2>1. <<CR, LF>> \in Seq(Bytes) /\ Len(<<CR, LF>>) = 2 /\ <<CR, LF>>[1] = CR
    BY <1>2
  <2> QED BY <1>3, <2>1 DEF CRLF
<1>10. IsConcat(EndLine, middle, CRLF, Bytes)
  BY Zenon, <1>7, <1>8, <1>9, ConcatIs
<1>11. \A i \in 1..(n + 4) : EndLine[i] # LF
  <2>1. \A i \in 1..(n + 4) : i \in 1..(n + 3) \/ i = (n + 3) + 1
    BY <1>1
  <2>2. EndLine[(n + 3) + 1] = CRLF[1]
    BY <1>7, <1>9, <1>10 DEF IsConcat
  <2> QED BY <1>7, <1>9, <1>10, <2>1, <2>2 DEF IsConcat
<1> QED BY <1>1, <1>7, <1>9, <1>10, <1>11 DEF IsConcat

\* What is where in the form.
Layout ==
    /\ Sent \in Seq(Bytes)
    /\ Content \in Seq(Bytes)
    /\ Len(Content) = Len(file) + 2
    /\ Len(Sent) \in Nat /\ Len(Sent) >= Len(file) + 10
    /\ Sent[1] = CR /\ Sent[2] = LF
    /\ \A i \in 1..(Len(file) + 2) : Sent[i + 2] = Content[i]
    /\ \A i \in 1..Len(file) : Content[i] = file[i]
    /\ Content[Len(file) + 1] = CR
    /\ Content[Len(file) + 2] = LF
    /\ \A i \in (Len(file) + 5)..Len(Sent) : Sent[i] = LF => i = Len(Sent)

LEMMA LayoutIs ==
    ASSUME file \in Seq(Bytes)
    PROVE  Layout
<1> DEFINE n == Len(file)
           m == Len(EndLine)
<1>1. n \in Nat /\ m \in Nat /\ m >= 7 /\ BoundaryDashes + 6 = m - 1
  BY EndLineIs, TransferAssumption
<1>2. EndLine \in Seq(Bytes) /\ \A i \in 1..(m - 1) : EndLine[i] # LF
  BY <1>1, EndLineIs
<1> HIDE DEF m
<1>3. CR \in Bytes /\ LF \in Bytes
  BY SMT DEF CR, LF, Bytes
<1>4. CRLF \in Seq(Bytes) /\ Len(CRLF) = 2 /\ CRLF[1] = CR /\ CRLF[2] = LF
  <2>1. /\ <<CR, LF>> \in Seq(Bytes) /\ Len(<<CR, LF>>) = 2
        /\ <<CR, LF>>[1] = CR /\ <<CR, LF>>[2] = LF
    BY <1>3
  <2> QED BY <2>1 DEF CRLF
<1>5. /\ Content \in Seq(Bytes) /\ Len(Content) = n + 2
      /\ \A i \in 1..n : Content[i] = file[i]
      /\ Content[n + 1] = CR /\ Content[n + 2] = LF
  <2>1. IsConcat(Content, file, CRLF, Bytes)
    BY Zenon, <1>4, ConcatIs DEF Content
  <2> QED BY <1>1, <1>4, <2>1 DEF IsConcat
<1> DEFINE front == CRLF \o Content
<1>6. /\ front \in Seq(Bytes) /\ Len(front) = n + 4
      /\ front[1] = CR /\ front[2] = LF
      /\ \A i \in 1..(n + 2) : front[2 + i] = Content[i]
  <2>1. IsConcat(front, CRLF, Content, Bytes)
    BY Zenon, <1>4, <1>5, ConcatIs
  <2> HIDE DEF front
  <2> QED BY <1>1, <1>4, <1>5, <2>1 DEF IsConcat
<1>7. Sent = front \o EndLine
  <2>1. (CRLF \o file) \o CRLF = CRLF \o (file \o CRLF)
    BY <1>4, ConcatAssociative
  <2> QED BY <2>1 DEF Sent, Content
<1> HIDE DEF front, n
<1>8. /\ Sent \in Seq(Bytes) /\ Len(Sent) = (n + 4) + m
      /\ \A i \in 1..(n + 4) : Sent[i] = front[i]
      /\ \A i \in 1..m : Sent[(n + 4) + i] = EndLine[i]
  <2>1. IsConcat(Sent, front, EndLine, Bytes)
    BY Zenon, <1>2, <1>6, <1>7, ConcatIs
  <2> QED BY <1>6, <2>1 DEF m, IsConcat
<1>9. \A i \in (n + 5)..Len(Sent) : Sent[i] = LF => i = Len(Sent)
  <2> TAKE i \in (n + 5)..Len(Sent)
  <2> DEFINE j == i - (n + 4)
  <2>1. j \in 1..m /\ i = (n + 4) + j /\ (j = m => i = Len(Sent)) /\ (j # m => j \in 1..(m - 1))
    BY <1>1, <1>8
  <2> HIDE DEF j
  <2>2. Sent[i] = EndLine[j]
    BY <1>8, <2>1
  <2> QED BY <1>2, <2>1, <2>2
<1>10. /\ \A i \in 1..(n + 2) : Sent[i + 2] = Content[i]
       /\ Sent[1] = CR /\ Sent[2] = LF
  <2>1. \A i \in 1..(n + 2) : i + 2 \in 1..(n + 4) /\ i + 2 = 2 + i
    BY <1>1
  <2>2. 1 \in 1..(n + 4) /\ 2 \in 1..(n + 4)
    BY <1>1
  <2> QED BY <1>6, <1>8, <2>1, <2>2
<1>11. Len(Sent) \in Nat /\ Len(Sent) >= n + 10
  BY <1>1, <1>8
<1> QED BY <1>5, <1>8, <1>9, <1>10, <1>11 DEF Layout, n

\* u is what is in w from a to b.
IsPart(u, w, a, b, S) ==
    /\ u \in Seq(S)
    /\ Len(u) = b - a + 1
    /\ \A i \in 1..(b - a + 1) : u[i] = w[a + i - 1]

LEMMA PartIs ==
    ASSUME NEW S, NEW w \in Seq(S), NEW a \in Nat \ {0}, NEW b \in Nat,
           a - 1 <= b, b <= Len(w)
    PROVE  IsPart(SubSeq(w, a, b), w, a, b, S)
<1>1. SubSeq(w, a, b) = [i \in 1..(b - a + 1) |-> w[a + i - 1]]
  OBVIOUS
<1>2. b - a + 1 \in Nat /\ \A i \in 1..(b - a + 1) : a + i - 1 \in 1..Len(w)
  OBVIOUS
<1>3. \A i \in 1..(b - a + 1) : w[a + i - 1] \in S
  BY <1>2
<1> HIDE <1>1
<1> DEFINE u == [i \in 1..(b - a + 1) |-> w[a + i - 1]]
<1>4. u \in Seq(S) /\ Len(u) = b - a + 1
  BY <1>2, <1>3
<1>5. \A i \in 1..(b - a + 1) : u[i] = w[a + i - 1]
  OBVIOUS
<1>6. IsPart(u, w, a, b, S)
  <2> HIDE DEF u
  <2> QED BY <1>4, <1>5 DEF IsPart
<1> QED BY <1>1, <1>6

LEMMA AppendPart ==
    ASSUME NEW S, NEW w, NEW u, NEW a \in Int, NEW b \in Int, a - 1 <= b,
           IsPart(u, w, a, b, S), w[b + 1] \in S
    PROVE  IsPart(Append(u, w[b + 1]), w, a, b + 1, S)
<1> DEFINE n == b - a + 1
           v == Append(u, w[b + 1])
<1>1. n \in Nat /\ a + n = b + 1
  OBVIOUS
<1>2. u \in Seq(S) /\ Len(u) = n /\ \A i \in 1..n : u[i] = w[a + i - 1]
  BY DEF IsPart
<1>3. /\ v \in Seq(S) /\ Len(v) = n + 1
      /\ \A i \in 1..n : v[i] = u[i]
      /\ v[n + 1] = w[b + 1]
  <2> HIDE DEF n
  <2> QED BY <1>1, <1>2
<1>4. (b + 1) - a + 1 = n + 1
  OBVIOUS
<1> HIDE DEF v, n
<1>5. \A i \in 1..(n + 1) : v[i] = w[a + i - 1]
  <2> TAKE i \in 1..(n + 1)
  <2>1. CASE i = n + 1
    <3>1. a + i - 1 = b + 1
      BY <1>1, <2>1
    <3> QED BY <1>3, <2>1, <3>1
  <2>2. CASE i # n + 1
    <3>1. i \in 1..n
      BY <1>1, <2>2
    <3> QED BY <1>2, <1>3, <3>1
  <2> QED BY <2>1, <2>2
<1>6. IsPart(v, w, a, b + 1, S)
  BY <1>3, <1>4, <1>5 DEF IsPart
<1> QED BY <1>6 DEF v

LEMMA SamePart ==
    ASSUME NEW S, NEW w, NEW a \in Int, NEW b \in Int, NEW u, NEW v,
           IsPart(u, w, a, b, S), IsPart(v, w, a, b, S)
    PROVE  u = v
<1>1. u \in Seq(S) /\ v \in Seq(S) /\ Len(u) = Len(v)
  BY DEF IsPart
<1>2. \A i \in 1..Len(u) : u[i] = v[i]
  BY DEF IsPart
<1> QED BY <1>1, <1>2

\* What a recv does.
LEMMA NextChar ==
    ASSUME LineInv, input # <<>>
    PROVE  /\ Layout
           /\ ReadSoFar + 1 \in 1..Len(Sent)
           /\ Head(input) = Sent[ReadSoFar + 1] /\ Head(input) \in Bytes
           /\ Tail(input) = SubSeq(Sent, ReadSoFar + 2, Len(Sent))
           /\ Len(Tail(input)) = Len(Sent) - (ReadSoFar + 1)
<1> DEFINE R == ReadSoFar
           m == Len(Sent)
<1>1. Layout
  BY LayoutIs DEF LineInv
<1>2. Sent \in Seq(Bytes) /\ m \in Nat /\ R \in 0..m
  BY <1>1 DEF LineInv, Layout
<1>3. input = SubSeq(Sent, R + 1, m)
  BY DEF LineInv
<1> HIDE DEF R, m
<1>4. IsPart(input, Sent, R + 1, m, Bytes)
  BY <1>2, <1>3, PartIs DEF m
<1>5. input \in Seq(Bytes) /\ Len(input) = m - R
  BY <1>2, <1>4 DEF IsPart
<1>6. Len(input) # 0
  BY <1>5
<1>7. R + 1 \in 1..m
  BY <1>2, <1>5, <1>6
<1>8. Head(input) = Sent[R + 1] /\ Head(input) \in Bytes
  <2>1. Head(input) = input[1] /\ Head(input) \in Bytes
    BY <1>5, <1>6
  <2>2. input[1] = Sent[R + 1]
    BY <1>2, <1>4, <1>7 DEF IsPart
  <2> QED BY <2>1, <2>2
<1>9. /\ Tail(input) \in Seq(Bytes) /\ Len(Tail(input)) = m - (R + 1)
      /\ \A i \in 1..(m - (R + 1)) : Tail(input)[i] = input[i + 1]
  BY <1>2, <1>5, <1>6
<1>10. IsPart(Tail(input), Sent, R + 2, m, Bytes)
  <2>1. \A i \in 1..(m - (R + 1)) : input[i + 1] = Sent[R + 2 + i - 1]
    <3> TAKE i \in 1..(m - (R + 1))
    <3>1. i + 1 \in 1..(m - (R + 1) + 1) /\ (R + 1) + (i + 1) - 1 = R + 2 + i - 1
      BY <1>2, <1>7
    <3> QED BY <1>4, <3>1 DEF IsPart
  <2>2. m - (R + 2) + 1 = m - (R + 1)
    BY <1>2
  <2> QED BY <1>9, <2>1, <2>2 DEF IsPart
<1>11. Tail(input) = SubSeq(Sent, R + 2, m)
  <2>1. IsPart(SubSeq(Sent, R + 2, m), Sent, R + 2, m, Bytes)
    BY <1>2, <1>7, PartIs DEF m
  <2>2. R + 2 \in Int /\ m \in Int
    BY <1>2
  <2> QED BY <1>10, <2>1, <2>2, SamePart
<1> QED BY <1>1, <1>7, <1>8, <1>9, <1>11 DEF R, m

\* A step of the reader reads one character; the line is the last that was read.
LEMMA ReadKeepsLine ==
    ASSUME LineInv, Read
    PROVE  /\ LineInv'
           /\ file' = file /\ Sent' = Sent /\ Content' = Content
           /\ ReadSoFar' = ReadSoFar + 1
<1> DEFINE R == ReadSoFar
           m == Len(Sent)
           L == Len(message)
<1>1. input # <<>> /\ input' = Tail(input) /\ file' = file
  BY DEF Read, ReadChar, EndHeadLine, EndFileLine, EndOfFile, Reading, NewLine
<1>2. /\ Layout
      /\ R + 1 \in 1..m
      /\ Head(input) = Sent[R + 1] /\ Head(input) \in Bytes
      /\ Tail(input) = SubSeq(Sent, R + 2, m)
      /\ Len(Tail(input)) = m - (R + 1)
  BY <1>1, NextChar
<1>3. Sent' = Sent /\ Content' = Content
  BY <1>1 DEF Sent, Content
<1>4. Sent \in Seq(Bytes) /\ m \in Nat /\ R \in 0..m /\ L \in 0..R
  BY <1>2 DEF Layout, LineInv
<1>5. ReadSoFar' = R + 1
  <2>1. ReadSoFar' = Len(Sent') - Len(input')
    BY DEF ReadSoFar
  <2>2. ReadSoFar' = m - (m - (R + 1))
    BY <1>1, <1>2, <1>3, <2>1
  <2> QED BY <1>4, <2>2
<1>6. message = SubSeq(Sent, R - L + 1, R)
  BY DEF LineInv
<1>7. data \in Seq(Bytes) /\ file \in Seq(Bytes)
  BY DEF LineInv
<1> HIDE DEF R, m, L
<1>8. IsPart(message, Sent, R - L + 1, R, Bytes)
  <2>1. R - L + 1 \in Nat \ {0} /\ R \in Nat /\ R - L + 1 - 1 <= R /\ R <= m
    BY <1>4
  <2> QED BY <1>4, <1>6, <2>1, PartIs DEF m
<1>9. message \in Seq(Bytes)
  BY <1>8 DEF IsPart
<1>10. CASE ReadChar
  <2>1. message' = Append(message, Head(input)) /\ prev' = Head(input) /\ data' = data
    BY <1>10 DEF ReadChar
  <2>2. message' \in Seq(Bytes) /\ Len(message') = L + 1 /\ message' # <<>>
    BY <1>2, <1>9, <2>1 DEF L
  <2>3. IsPart(message', Sent, R - L + 1, R + 1, Bytes)
    <3> DEFINE a == R - L + 1
               w == Sent
    <3>1. a \in Int /\ R \in Int /\ a - 1 <= R
      BY <1>4
    <3>2. message' = Append(message, w[R + 1]) /\ w[R + 1] \in Bytes
      BY <1>2, <2>1
    <3>3. IsPart(message, w, a, R, Bytes)
      BY <1>8
    <3> HIDE DEF a, w
    <3>4. IsPart(Append(message, w[R + 1]), w, a, R + 1, Bytes)
      BY <3>1, <3>2, <3>3, AppendPart
    <3> QED BY <3>2, <3>4 DEF a, w
  <2>4. message' = SubSeq(Sent, R - L + 1, R + 1)
    <3>1. R - L + 1 \in Nat \ {0} /\ R + 1 \in Nat /\ R - L + 1 - 1 <= R + 1 /\ R + 1 <= m
      BY <1>2, <1>4
    <3>2. IsPart(SubSeq(Sent, R - L + 1, R + 1), Sent, R - L + 1, R + 1, Bytes)
      BY <1>4, <3>1, PartIs DEF m
    <3>3. R - L + 1 \in Int /\ R + 1 \in Int
      BY <3>1
    <3> QED BY <2>3, <3>2, <3>3, SamePart
  <2>5. (R + 1) - (L + 1) + 1 = R - L + 1 /\ L + 1 \in 0..(R + 1) /\ R + 1 \in 0..m
    BY <1>2, <1>4
  <2>6. /\ input' = SubSeq(Sent', ReadSoFar' + 1, Len(Sent'))
        /\ message' = SubSeq(Sent', ReadSoFar' - Len(message') + 1, ReadSoFar')
        /\ ReadSoFar' \in 0..Len(Sent')
        /\ Len(message') \in 0..ReadSoFar'
        /\ prev' = Sent'[ReadSoFar']
    <3>1. R + 1 + 1 = R + 2
      BY <1>4
    <3> QED BY <1>1, <1>2, <1>3, <1>5, <2>1, <2>2, <2>4, <2>5, <3>1 DEF m
  <2>7. LineInv'
    BY <1>1, <1>7, <2>1, <2>2, <2>6 DEF LineInv
  <2> QED BY <1>1, <1>3, <1>5, <2>7 DEF R
<1>11. CASE EndHeadLine \/ EndFileLine \/ EndOfFile
  <2>1. message' = <<>>
    BY <1>11 DEF EndHeadLine, EndFileLine, EndOfFile, NewLine
  <2>2. data' \in Seq(Bytes)
    <3>1. CASE EndFileLine
      <4>1. Line \in Seq(Bytes)
        BY <1>9 DEF Line
      <4>2. CR \in Bytes /\ LF \in Bytes
        BY SMT DEF CR, LF, Bytes
      <4>3. CRLF \in Seq(Bytes)
        BY <4>2 DEF CRLF
      <4> QED BY <1>7, <3>1, <4>1, <4>3 DEF EndFileLine
    <3>2. CASE ~EndFileLine
      <4>1. data' = data \/ data' = <<>>
        BY <1>11, <3>2 DEF EndHeadLine, EndOfFile
      <4>2. <<>> \in Seq(Bytes)
        OBVIOUS
      <4> QED BY <1>7, <4>1, <4>2
    <3> QED BY <3>1, <3>2
  <2>3. Len(message') = 0 /\ 0 \in 0..(R + 1) /\ R + 1 \in 0..m
    BY <1>2, <1>4, <2>1
  <2>4. message' = SubSeq(Sent, (R + 1) - 0 + 1, R + 1)
    BY <1>4, <2>1
  <2>5. /\ input' = SubSeq(Sent', ReadSoFar' + 1, Len(Sent'))
        /\ message' = SubSeq(Sent', ReadSoFar' - Len(message') + 1, ReadSoFar')
        /\ ReadSoFar' \in 0..Len(Sent')
        /\ Len(message') \in 0..ReadSoFar'
    <3>1. R + 1 + 1 = R + 2
      BY <1>4
    <3> QED BY <1>1, <1>2, <1>3, <1>5, <2>3, <2>4, <3>1 DEF m
  <2>6. LineInv'
    BY <1>1, <1>7, <2>1, <2>2, <2>5, EmptySeq DEF LineInv
  <2> QED BY <1>1, <1>3, <1>5, <2>6 DEF R
<1> QED BY <1>10, <1>11 DEF Read

-----------------------------------------------------------------------------
(* What is read of a plain file.                                            *)

LEMMA LineStartsIs ==
    ASSUME file \in Seq(Bytes), NEW i \in LineStarts
    PROVE  /\ i \in 1..(Len(file) + 1)
           /\ Plain /\ i \in 1..Len(file) => file[i] # LF
           /\ Plain => \A j \in i..Len(file) : ~IsEnd(SubSeq(file, i, j))
<1>1. Len(file) \in Nat /\ DOMAIN file = 1..Len(file)
  OBVIOUS
<1>2. i = 1 \/ i \in 3..(Len(file) + 1)
  BY DEF LineStarts
<1>3. i \in 1..(Len(file) + 1)
  BY <1>1, <1>2
<1>4. i \in 1..Len(file) /\ Plain =>
         file[i] # LF /\ \A j \in i..Len(file) : ~IsEnd(SubSeq(file, i, j))
  BY <1>1 DEF Plain
<1>5. \A j \in i..Len(file) : i \in 1..Len(file)
  BY <1>1, <1>3
<1> QED BY <1>3, <1>4, <1>5

\* Within the file, the line that is being read does not look like an end line.
LEMMA NoEndWithin ==
    ASSUME LineInv, Layout, Within, Plain
    PROVE  ~IsEnd(message)
<1> DEFINE R == ReadSoFar
           L == Len(message)
           n == Len(file)
           S == LineStart
<1>1. /\ R \in 2..(n + 3) /\ S \in LineStarts /\ S = R - 1 - L
      /\ n \in Nat /\ L \in Nat /\ R \in Nat
      /\ file \in Seq(Bytes)
  BY DEF Within, LineStart, LineInv
<1>2. message = SubSeq(Sent, R - L + 1, R) /\ L \in 0..R
  BY DEF LineInv
<1>3. /\ Sent \in Seq(Bytes) /\ R <= Len(Sent) /\ Len(Sent) \in Nat
      /\ \A i \in 1..(n + 2) : Sent[i + 2] = Content[i]
      /\ \A i \in 1..n : Content[i] = file[i]
      /\ Content[n + 1] = CR
  BY DEF Layout, LineInv
<1>4. S \in 1..(n + 1) /\ \A j \in S..n : ~IsEnd(SubSeq(file, S, j))
  BY <1>1, LineStartsIs
<1> HIDE DEF R, n, S
<1>5. R - L + 1 = S + 2
  BY <1>1
<1>6. IsPart(message, Sent, S + 2, R, Bytes)
  <2>1. S + 2 \in Nat \ {0} /\ R \in Nat /\ S + 2 - 1 <= R /\ R <= Len(Sent)
    BY <1>1, <1>3, <1>4
  <2> HIDE DEF L
  <2> QED BY <1>2, <1>3, <1>5, <2>1, PartIs
<1>7. L = R - S - 1 /\ \A i \in 1..L : message[i] = Sent[S + 1 + i]
  <2>1. R - (S + 2) + 1 = R - S - 1 /\ \A i \in Nat : S + 2 + i - 1 = S + 1 + i
    BY <1>1, <1>4
  <2> QED BY <1>1, <1>6, <2>1 DEF IsPart
<1> HIDE DEF L
<1>8. CASE R = n + 3
  <2>1. CASE L = 0
    BY <2>1 DEF IsEnd, L
  <2>2. CASE L # 0
    <3>1. L \in 1..L /\ S + 1 + L = (n + 1) + 2 /\ n + 1 \in 1..(n + 2)
      BY <1>1, <1>4, <1>7, <1>8, <2>2
    <3>2. message[L] = CR
      BY <1>3, <1>7, <3>1
    <3>3. CR # Dash
      BY SMT DEF CR, Dash
    <3> QED BY <3>2, <3>3 DEF IsEnd, L
  <2> QED BY <2>1, <2>2
<1>9. CASE R # n + 3 /\ L # 0
  <2>1. R - 2 \in S..n
    BY <1>1, <1>4, <1>7, <1>9
  <2>2. IsPart(SubSeq(file, S, R - 2), file, S, R - 2, Bytes)
    <3>1. S \in Nat \ {0} /\ R - 2 \in Nat /\ S - 1 <= R - 2 /\ R - 2 <= Len(file)
      BY <1>1, <1>4, <2>1 DEF n
    <3> QED BY <1>1, <3>1, PartIs
  <2>3. IsPart(message, file, S, R - 2, Bytes)
    <3>1. (R - 2) - S + 1 = L
      BY <1>1, <1>4, <1>7
    <3>2. ASSUME NEW i \in 1..L PROVE message[i] = file[S + i - 1]
      <4>1. S + i - 1 \in 1..n /\ S + i - 1 \in 1..(n + 2) /\ (S + i - 1) + 2 = S + 1 + i
        BY <1>1, <1>4, <1>7, <2>1
      <4> QED BY <1>3, <1>7, <4>1
    <3>3. message \in Seq(Bytes) /\ Len(message) = L
      BY <1>6 DEF IsPart, L
    <3> QED BY <3>1, <3>2, <3>3 DEF IsPart
  <2>4. message = SubSeq(file, S, R - 2)
    <3>1. S \in Int /\ R - 2 \in Int
      BY <1>1, <1>4
    <3> QED BY <2>2, <2>3, <3>1, SamePart
  <2> QED BY <1>4, <2>1, <2>4
<1>10. CASE L = 0
  BY <1>10 DEF IsEnd, L
<1> QED BY <1>8, <1>9, <1>10

\* The first character of a line is no line feed: the reader does not look at
\* prev before it has a value.
LEMMA EndsWithin ==
    ASSUME LineInv, Layout, Within, Plain, input # <<>>
    PROVE  /\ Head(input) = Content[ReadSoFar - 1]
           /\ EndsLine => message # <<>> /\ prev = CR
           /\ ReadSoFar = Len(file) + 3 => EndsLine
<1> DEFINE R == ReadSoFar
           L == Len(message)
           n == Len(file)
           S == LineStart
<1>1. /\ R \in 2..(n + 3) /\ S \in LineStarts /\ S = R - 1 - L
      /\ n \in Nat /\ L \in Nat /\ R \in Nat
      /\ file \in Seq(Bytes)
  BY DEF Within, LineStart, LineInv
<1>2. S \in 1..(n + 1) /\ (S \in 1..n => file[S] # LF)
  BY <1>1, LineStartsIs
<1>3. /\ \A i \in 1..(n + 2) : Sent[i + 2] = Content[i]
      /\ \A i \in 1..n : Content[i] = file[i]
      /\ Content[n + 1] = CR /\ Content[n + 2] = LF
  BY DEF Layout
<1>4. message # <<>> => prev = Sent[R]
  BY DEF LineInv
<1>5. Head(input) = Sent[R + 1]
  BY NextChar
<1>6. message = <<>> => L = 0
  OBVIOUS
<1> HIDE DEF R, n, S, L
<1>7. Head(input) = Content[R - 1]
  <2>1. R - 1 \in 1..(n + 2) /\ (R - 1) + 2 = R + 1
    BY <1>1
  <2> QED BY <1>3, <1>5, <2>1
<1>8. CR # LF
  BY SMT DEF CR, LF
<1>9. ASSUME EndsLine PROVE message # <<>> /\ prev = CR
  <2>1. Head(input) = LF /\ prev = CR
    BY <1>9 DEF EndsLine
  <2>2. ASSUME message = <<>> PROVE FALSE
    <3>1. S = R - 1
      BY <1>1, <1>6, <2>2
    <3>2. CASE S \in 1..n
      BY <1>2, <1>3, <1>7, <2>1, <3>1, <3>2
    <3>3. CASE S \notin 1..n
      <4>1. S = n + 1
        BY <1>1, <1>2, <3>3
      <4> QED BY <1>3, <1>7, <1>8, <2>1, <3>1, <4>1
    <3> QED BY <3>2, <3>3
  <2> QED BY <2>1, <2>2
<1>10. ASSUME R = n + 3 PROVE EndsLine
  <2>1. R - 1 = n + 2 /\ L # 0 /\ R = (n + 1) + 2 /\ n + 1 \in 1..(n + 2)
    BY <1>1, <1>2, <1>10
  <2>2. Head(input) = LF /\ prev = CR
    BY <1>3, <1>4, <1>6, <1>7, <2>1
  <2> QED BY <2>2 DEF EndsLine
<1> QED BY <1>7, <1>9, <1>10 DEF R, n

\* A line that ends within the file becomes a part of the content, and the next
\* one begins a line of the file, unless it was the last.
LEMMA LineWithin ==
    ASSUME LineInv, Layout, Within, Plain, input # <<>>, EndsLine
    PROVE  /\ data \o Line \o CRLF = SubSeq(Content, 1, ReadSoFar - 1)
           /\ ReadSoFar < Len(file) + 3 => ReadSoFar \in LineStarts
<1> DEFINE R == ReadSoFar
           L == Len(message)
           n == Len(file)
           S == LineStart
<1>1. /\ R \in 2..(n + 3) /\ S \in LineStarts /\ S = R - 1 - L
      /\ n \in Nat /\ L \in Nat /\ R \in Nat
      /\ file \in Seq(Bytes)
      /\ data = SubSeq(Content, 1, S - 1)
  BY DEF Within, LineStart, LineInv
<1>2. S \in 1..(n + 1)
  BY <1>1, LineStartsIs
<1>3. /\ Sent \in Seq(Bytes) /\ R <= Len(Sent) /\ Len(Sent) \in Nat
      /\ Content \in Seq(Bytes) /\ Len(Content) = n + 2
      /\ \A i \in 1..(n + 2) : Sent[i + 2] = Content[i]
      /\ \A i \in 1..n : Content[i] = file[i]
      /\ Content[n + 1] = CR /\ Content[n + 2] = LF
  BY DEF Layout, LineInv
<1>4. message # <<>> /\ prev = Sent[R] /\ prev = CR /\ Content[R - 1] = LF
  BY EndsWithin DEF LineInv, EndsLine
<1>5. message = SubSeq(Sent, R - L + 1, R)
  BY DEF LineInv
<1> HIDE DEF R, n, S
<1>6. R - L + 1 = S + 2
  BY <1>1
<1>7. IsPart(message, Sent, S + 2, R, Bytes)
  <2> DEFINE a == S + 2
  <2>1. a \in Nat \ {0} /\ R \in Nat /\ a - 1 <= R /\ R <= Len(Sent)
    BY <1>1, <1>2, <1>3
  <2>2. message = SubSeq(Sent, a, R) /\ Sent \in Seq(Bytes)
    BY <1>3, <1>5, <1>6
  <2> HIDE DEF a, L
  <2>3. IsPart(message, Sent, a, R, Bytes)
    BY <2>1, <2>2, PartIs
  <2> QED BY <2>3 DEF a
<1>8. /\ message \in Seq(Bytes) /\ L = R - S - 1
      /\ \A i \in 1..L : message[i] = Sent[S + 1 + i]
  <2>1. R - (S + 2) + 1 = R - S - 1 /\ \A i \in Nat : S + 2 + i - 1 = S + 1 + i
    BY <1>1, <1>2
  <2> QED BY <1>1, <1>7, <2>1 DEF IsPart
<1>9. L # 0
  BY <1>4, <1>8
<1>10. IsPart(data, Content, 1, S - 1, Bytes)
  <2>1. 1 \in Nat \ {0} /\ S - 1 \in Nat /\ 1 - 1 <= S - 1 /\ S - 1 <= Len(Content)
    BY <1>1, <1>2, <1>3
  <2> QED BY <1>1, <1>3, <2>1, PartIs
<1>11. /\ data \in Seq(Bytes) /\ Len(data) = S - 1
       /\ \A i \in 1..(S - 1) : data[i] = Content[i]
  <2>1. S - 1 - 1 + 1 = S - 1 /\ \A i \in Nat : 1 + i - 1 = i
    BY <1>1, <1>2
  <2> QED BY <1>10, <2>1 DEF IsPart
<1>12. /\ Line \in Seq(Bytes) /\ Len(Line) = L - 1
       /\ \A i \in 1..(L - 1) : Line[i] = message[i]
  <2>1. 1 \in Nat \ {0} /\ L - 1 \in Nat /\ 1 - 1 <= L - 1 /\ L - 1 <= Len(message)
    BY <1>1, <1>9
  <2>2. IsPart(Line, message, 1, L - 1, Bytes)
    BY <1>8, <2>1, PartIs DEF Line
  <2>3. L - 1 - 1 + 1 = L - 1 /\ \A i \in Nat : 1 + i - 1 = i
    BY <1>1
  <2> HIDE DEF L
  <2> QED BY <2>2, <2>3 DEF IsPart
<1> HIDE DEF L
<1>13. CRLF \in Seq(Bytes) /\ Len(CRLF) = 2 /\ CRLF[1] = CR /\ CRLF[2] = LF
  <2>1. CR \in Bytes /\ LF \in Bytes
    BY SMT DEF CR, LF, Bytes
  <2>2. /\ <<CR, LF>> \in Seq(Bytes) /\ Len(<<CR, LF>>) = 2
        /\ <<CR, LF>>[1] = CR /\ <<CR, LF>>[2] = LF
    BY <2>1
  <2> QED BY <2>2 DEF CRLF
<1> DEFINE most == data \o Line
           all == most \o CRLF
<1>14. IsConcat(most, data, Line, Bytes)
  BY Zenon, <1>11, <1>12, ConcatIs
<1>15. most \in Seq(Bytes)
  BY <1>14 DEF IsConcat
<1>16. IsConcat(all, most, CRLF, Bytes)
  BY Zenon, <1>13, <1>15, ConcatIs
<1> HIDE DEF most, all
<1>17. /\ Len(most) = R - 3 /\ Len(all) = R - 1 /\ all \in Seq(Bytes)
  BY <1>1, <1>2, <1>8, <1>11, <1>12, <1>13, <1>14, <1>16 DEF IsConcat
<1>18. R >= 3 /\ Sent[R] = Content[R - 2] /\ R - 2 \in 1..(n + 1)
  <2>1. R - 2 \in 1..(n + 2) /\ (R - 2) + 2 = R /\ R >= 3 /\ R - 2 <= n + 1
    BY <1>1, <1>2, <1>8, <1>9
  <2> QED BY <1>1, <1>3, <2>1
<1>19. ASSUME NEW i \in 1..(R - 1) PROVE all[i] = Content[i]
  <2>1. CASE i \in 1..(S - 1)
    <3>1. i \in 1..Len(most) /\ i \in 1..Len(data)
      BY <1>1, <1>2, <1>8, <1>9, <1>11, <1>17, <2>1
    <3> QED BY <1>11, <1>14, <1>16, <2>1, <3>1 DEF IsConcat
  <2>2. CASE i \in S..(R - 3)
    <3> DEFINE j == i - (S - 1)
    <3>1. /\ j \in 1..(L - 1) /\ j \in 1..L /\ i = (S - 1) + j /\ i \in 1..Len(most)
          /\ S + 1 + j = i + 2 /\ i \in 1..(n + 2)
      BY <1>1, <1>2, <1>8, <1>17, <2>2
    <3> HIDE DEF j
    <3>2. all[i] = most[i]
      BY <1>16, <3>1 DEF IsConcat
    <3>3. most[(S - 1) + j] = Line[j]
      BY <1>11, <1>12, <1>14, <3>1 DEF IsConcat
    <3>4. Line[j] = Sent[i + 2]
      BY <1>8, <1>12, <3>1
    <3> QED BY <1>3, <3>1, <3>2, <3>3, <3>4
  <2>3. CASE i = R - 2
    <3>1. i = Len(most) + 1
      BY <1>1, <1>17, <2>3
    <3>2. all[Len(most) + 1] = CRLF[1]
      BY <1>13, <1>16 DEF IsConcat
    <3> QED BY <1>4, <1>13, <1>18, <2>3, <3>1, <3>2
  <2>4. CASE i = R - 1
    <3>1. i = Len(most) + 2
      BY <1>1, <1>17, <2>4
    <3>2. all[Len(most) + 2] = CRLF[2]
      BY <1>13, <1>16 DEF IsConcat
    <3> QED BY <1>4, <1>13, <2>4, <3>1, <3>2
  <2> QED BY <1>1, <1>2, <2>1, <2>2, <2>3, <2>4
<1>20. all = SubSeq(Content, 1, R - 1)
  <2>1. IsPart(all, Content, 1, R - 1, Bytes)
    <3>1. (R - 1) - 1 + 1 = R - 1 /\ \A i \in 1..(R - 1) : 1 + i - 1 = i
      BY <1>1
    <3> QED BY <1>17, <1>19, <3>1 DEF IsPart
  <2>2. IsPart(SubSeq(Content, 1, R - 1), Content, 1, R - 1, Bytes)
    <3>1. 1 \in Nat \ {0} /\ R - 1 \in Nat /\ 1 - 1 <= R - 1 /\ R - 1 <= Len(Content)
      BY <1>1, <1>3
    <3> QED BY <1>3, <3>1, PartIs
  <2>3. 1 \in Int /\ R - 1 \in Int
    BY <1>1
  <2> QED BY <2>1, <2>2, <2>3, SamePart
<1>21. ASSUME R < n + 3 PROVE R \in LineStarts
  <2>1. R - 1 \in 1..(n + 1) /\ (R - 1 = n + 1 \/ R - 1 \in 1..n)
    BY <1>1, <1>18, <1>21
  <2>2. CR # LF
    BY SMT DEF CR, LF
  <2>3. R - 1 \in 1..n
    BY <1>3, <1>4, <2>1, <2>2
  <2>4. R - 2 \in 1..n /\ R \in 3..(n + 1)
    BY <1>1, <1>18, <2>3
  <2>5. file[R - 2] = CR /\ file[R - 1] = LF
    BY <1>3, <1>4, <1>18, <2>3, <2>4
  <2> QED BY <2>4, <2>5 DEF LineStarts, n
<1> QED BY <1>20, <1>21 DEF all, most, R, n

LEMMA EmptyNoEnd ==
    ~IsEnd(<<>>)
  BY DEF IsEnd

LEMMA ReadKeepsPlain ==
    ASSUME LineInv, PlainInv, Read
    PROVE  PlainInv'
<1> DEFINE R == ReadSoFar
           L == Len(message)
           n == Len(file)
<1>1. /\ LineInv' /\ file' = file /\ Sent' = Sent /\ Content' = Content
      /\ ReadSoFar' = R + 1
  BY ReadKeepsLine
<1>2. input # <<>> /\ input' = Tail(input) /\ pc \in {"body", "content"}
  BY DEF Read, ReadChar, EndHeadLine, EndFileLine, EndOfFile, Reading, NewLine
<1>3. /\ Layout
      /\ R + 1 \in 1..Len(Sent)
      /\ Head(input) = Sent[R + 1]
      /\ Tail(input) = SubSeq(Sent, R + 2, Len(Sent))
  BY <1>2, NextChar
<1>4. Plain' <=> Plain
  BY <1>1 DEF Plain, LineStarts
<1>5. LineStarts' = LineStarts
  BY <1>1 DEF LineStarts
<1>6. /\ n \in Nat /\ L \in Nat /\ R \in Nat /\ L \in 0..R
      /\ Len(Sent) \in Nat /\ Len(Sent) >= n + 10
      /\ Sent[1] = CR /\ Sent[2] = LF
      /\ \A i \in (n + 5)..Len(Sent) : Sent[i] = LF => i = Len(Sent)
  BY <1>3 DEF Layout, LineInv
<1>7. /\ LineStart = R - 1 - L
      /\ LineStart' = ReadSoFar' - 1 - Len(message')
  BY DEF LineStart
<1>8. message \in Seq(Bytes)
  BY DEF LineInv
<1>9. CR # LF
  BY SMT DEF CR, LF
<1>10. SUFFICES ASSUME Plain
       PROVE  Before' \/ Within' \/ Beyond' \/ Stuck' \/ Done'
  BY <1>4 DEF PlainInv
<1>11. CASE Before
  <2>1. pc = "body" /\ R < 2 /\ L = R
    BY <1>11 DEF Before
  <2>2. CASE R = 0
    <3>1. ~EndsLine
      BY <1>3, <1>6, <1>9, <2>2 DEF EndsLine
    <3>2. ReadChar
      BY <2>1, <3>1 DEF Read, EndHeadLine, EndFileLine, EndOfFile
    <3>3. Len(message') = 1 /\ pc' = "body"
      BY <1>8, <2>1, <2>2, <3>2 DEF ReadChar
    <3>4. Before'
      BY <1>1, <2>2, <3>3 DEF Before
    <3> QED BY <3>4
  <2>3. CASE R # 0
    <3>1. R = 1 /\ L = 1 /\ message # <<>>
      BY <1>6, <1>8, <2>1, <2>3
    <3>2. EndsLine
      BY <1>3, <1>6, <3>1 DEF EndsLine, LineInv
    <3>3. EndHeadLine
      BY <2>1, <3>2 DEF Read, ReadChar, EndFileLine, EndOfFile
    <3>4. Line = <<>>
      <4>1. Line = SubSeq(message, 1, 0)
        BY <3>1 DEF Line
      <4> QED BY <1>8, <4>1
    <3>5. pc' = "content" /\ data' = <<>> /\ message' = <<>>
      BY <3>3, <3>4, EmptyNoEnd DEF EndHeadLine, NewLine
    <3>6. R + 1 = 2 /\ R + 1 \in 2..(n + 3) /\ LineStart' = 1
      BY <1>1, <1>6, <1>7, <3>1, <3>5
    <3>7. 1 \in LineStarts
      BY DEF LineStarts
    <3>8. SubSeq(Content, 1, 1 - 1) = <<>>
      BY <1>3 DEF Layout
    <3>9. Within'
      BY <1>1, <1>5, <3>5, <3>6, <3>7, <3>8 DEF Within
    <3> QED BY <3>9
  <2> QED BY <2>2, <2>3
<1>12. CASE Within
  <2>1. /\ pc = "content" /\ R \in 2..(n + 3) /\ LineStart \in LineStarts
        /\ data = SubSeq(Content, 1, LineStart - 1)
    BY <1>12 DEF Within
  <2>2. ~IsEnd(message)
    BY <1>3, <1>10, <1>12, NoEndWithin
  <2>3. R = n + 3 => EndsLine
    BY <1>2, <1>3, <1>10, <1>12, EndsWithin
  <2>4. CASE ReadChar
    <3>1. Len(message') = L + 1 /\ pc' = "content" /\ data' = data /\ ~EndsLine
      BY <1>8, <2>1, <2>4 DEF ReadChar
    <3>2. R + 1 \in 2..(n + 3) /\ LineStart' = LineStart
      BY <1>1, <1>6, <1>7, <2>1, <2>3, <3>1
    <3>3. Within'
      BY <1>1, <1>5, <2>1, <3>1, <3>2 DEF Within
    <3> QED BY <3>3
  <2>5. CASE EndFileLine
    <3>1. /\ pc' = "content" /\ message' = <<>> /\ EndsLine
          /\ data' = data \o Line \o CRLF
      BY <2>1, <2>5 DEF EndFileLine, NewLine
    <3>2. /\ data' = SubSeq(Content, 1, R - 1)
          /\ R < n + 3 => R \in LineStarts
      BY <1>2, <1>3, <1>10, <1>12, <3>1, LineWithin
    <3>3. LineStart' = R
      BY <1>1, <1>6, <1>7, <3>1
    <3>4. CASE R < n + 3
      <4>1. R + 1 \in 2..(n + 3)
        BY <1>6, <2>1, <3>4
      <4>2. Within'
        BY <1>1, <1>5, <3>1, <3>2, <3>3, <3>4, <4>1 DEF Within
      <4> QED BY <4>2
    <3>5. CASE R = n + 3
      <4>1. R - 1 = Len(Content) /\ Content \in Seq(Bytes) /\ R + 1 >= n + 4
        BY <1>3, <1>6, <3>5 DEF Layout
      <4>2. data' = Content
        BY <3>2, <4>1
      <4>3. Beyond'
        BY <1>1, <3>1, <4>1, <4>2 DEF Beyond
      <4> QED BY <4>3
    <3> QED BY <1>6, <2>1, <3>4, <3>5
  <2> QED BY <2>1, <2>2, <2>4, <2>5 DEF Read, EndHeadLine, EndOfFile
<1>13. CASE Beyond
  <2>1. R >= n + 4 /\ data = Content /\ R + 1 >= n + 4
    BY <1>6, <1>13 DEF Beyond
  <2>2. Head(input) = LF => input' = <<>>
    <3>1. R + 1 \in (n + 5)..Len(Sent)
      BY <1>3, <1>6, <2>1
    <3>2. Head(input) = LF => R + 1 = Len(Sent)
      BY <1>3, <1>6, <3>1
    <3>3. R + 1 = Len(Sent) => SubSeq(Sent, R + 2, Len(Sent)) = <<>>
      BY <1>3, <1>6 DEF Layout
    <3> QED BY <1>2, <1>3, <3>2, <3>3
  <2>3. CASE ReadChar \/ EndOfFile
    <3>1. pc' \in {"body", "content"} /\ data' = data
      BY <1>2, <2>3 DEF ReadChar, EndOfFile
    <3>2. Beyond'
      BY <1>1, <2>1, <3>1 DEF Beyond
    <3> QED BY <3>2
  <2>4. CASE EndFileLine
    <3>1. Stuck'
      BY <2>2, <2>4 DEF EndFileLine, EndsLine, Stuck
    <3> QED BY <3>1
  <2>5. CASE EndHeadLine
    <3>1. CASE Line = <<>>
      <4>1. pc' = "content" /\ input' = <<>>
        BY <2>2, <2>5, <3>1, EmptyNoEnd DEF EndHeadLine, EndsLine
      <4>2. Stuck'
        BY <4>1 DEF Stuck
      <4> QED BY <4>2
    <3>2. CASE Line # <<>>
      <4>1. data' = data /\ pc' \in {"body", "received"}
        BY <2>5, <3>2 DEF EndHeadLine
      <4>2. Beyond' \/ Done'
        BY <1>1, <2>1, <4>1 DEF Beyond, Done
      <4> QED BY <4>2
    <3> QED BY <3>1, <3>2
  <2> QED BY <2>3, <2>4, <2>5 DEF Read
<1> QED BY <1>2, <1>10, <1>11, <1>12, <1>13 DEF PlainInv, Stuck, Done

-----------------------------------------------------------------------------
(* The copies.                                                              *)

LEMMA EncodingIs ==
    ASSUME NEW s \in Seq(Bytes)
    PROVE  encode(s) \in Seq(0..Pad)
  BY Zenon, EncodeIs

LEMMA SizesType ==
    ASSUME NEW n \in Nat
    PROVE  UploadSizes(n) \in Seq(Nat) /\ DownloadSizes(n) \in Seq(Nat)
<1> DEFINE C == FILE_CHUNK_SIZE
           k == (n + C - 1) \div C
           q == n \div C
           size(i) == LET left == n - (i - 1) * C IN IF left < C THEN left ELSE C
<1>1. C \in Nat \ {0}
  BY TransferAssumption
<1> HIDE DEF C
<1>2. k \in Nat /\ (n + C - 1) = C * k + ((n + C - 1) % C) /\ (n + C - 1) % C \in 0..(C - 1)
  BY <1>1
<1>3. q \in Nat /\ n % C \in Nat
  BY <1>1
<1>4. UploadSizes(n) = [i \in 1..k |-> size(i)]
  BY DEF UploadSizes, C
<1>5. DownloadSizes(n) = Append([i \in 1..q |-> C], n % C)
  BY DEF DownloadSizes, C
<1> HIDE DEF k, q
<1>6. \A i \in 1..k : size(i) \in Nat
  <2> TAKE i \in 1..k
  <2>1. (i - 1) * C <= (k - 1) * C /\ (i - 1) * C \in Int
    BY <1>1, <1>2
  <2>2. (k - 1) * C < n
    BY <1>1, <1>2
  <2>3. (k - 1) * C \in Int
    BY <1>1, <1>2
  <2> DEFINE left == n - (i - 1) * C
  <2>4. left \in Nat
    BY <2>1, <2>2, <2>3
  <2>5. size(i) = IF left < C THEN left ELSE C
    OBVIOUS
  <2> HIDE DEF left
  <2> QED BY <1>1, <2>4, <2>5
<1> HIDE DEF size
<1>7. UploadSizes(n) \in Seq(Nat)
  BY <1>2, <1>4, <1>6
<1>8. [i \in 1..q |-> C] \in Seq(Nat)
  BY <1>1, <1>3
<1>9. DownloadSizes(n) \in Seq(Nat)
  BY <1>3, <1>5, <1>8
<1> QED BY <1>7, <1>9

\* What is sent in chunks is read.
LEMMA CopyIsRead ==
    ASSUME NEW w \in Part, IsCopy(w)
    PROVE  ReadAll(w) = encode(data)
<1>1. w.text \in Seq(0..Pad) /\ Total(w.sizes) = Len(w.text) /\ w.text = encode(data)
  BY DEF Part, IsCopy
<1>2. SubSeq(w.text, 1, Len(w.text)) = w.text
  BY <1>1
<1> QED BY <1>1, <1>2 DEF ReadAll

LEMMA CopyIsSent ==
    ASSUME NEW s \in Seq(Bytes), NEW r \in Server \cup {Frontend}, s = data
    PROVE  /\ Chunks(UploadSizes(Len(encode(s))), encode(s), r) \in Part
           /\ Chunks(DownloadSizes(Len(encode(s))), encode(s), r) \in Part
           /\ IsCopy(Chunks(UploadSizes(Len(encode(s))), encode(s), r))
           /\ IsCopy(Chunks(DownloadSizes(Len(encode(s))), encode(s), r))
<1> DEFINE e == encode(s)
           n == Len(e)
<1>1. e \in Seq(0..Pad)
  BY EncodingIs
<1>2. e = encode(data)
  OBVIOUS
<1> HIDE DEF e
<1>3. n \in Nat
  BY <1>1
<1> HIDE DEF n
<1>4. UploadSizes(n) \in Seq(Nat) /\ DownloadSizes(n) \in Seq(Nat)
  BY <1>3, SizesType
<1>5. Total(UploadSizes(n)) = n /\ Total(DownloadSizes(n)) = n
  BY <1>3, UploadTotal, DownloadTotal
<1>6. /\ Chunks(UploadSizes(n), e, r) \in Part
      /\ Chunks(DownloadSizes(n), e, r) \in Part
  BY <1>1, <1>4 DEF Chunks, Part
<1>7. /\ IsCopy(Chunks(UploadSizes(n), e, r))
      /\ IsCopy(Chunks(DownloadSizes(n), e, r))
  BY <1>2, <1>5 DEF IsCopy, Chunks, n
<1> QED BY <1>6, <1>7 DEF e, n

LEMMA NothingIs ==
    Nothing \in Part /\ ~Nothing.sent
<1>1. Frontend \in Server \cup {Frontend}
  OBVIOUS
<1>2. <<>> \in Seq(Nat) /\ <<>> \in Seq(0..Pad)
  OBVIOUS
<1> QED BY <1>1, <1>2 DEF Nothing, Part

LEMMA ReceiversAre ==
    ASSUME NEW r \in Server, NEW from
    PROVE  Receivers(r, from) \subseteq Server /\ Frontend \notin Server
  BY TransferAssumption DEF Receivers, Server, Primary, Frontend

\* Whoever reads the form has sent nothing yet.
LEMMA ReadKeepsCopies ==
    ASSUME CopyInv, Read
    PROVE  CopyInv'
<1>1. /\ wire' = wire /\ stored' = stored
      /\ pc \in {"body", "content"} /\ pc' \in {"body", "content", "received"}
  BY DEF Read, ReadChar, EndHeadLine, EndFileLine, EndOfFile, Reading
<1>2. /\ \A r \in Server : ~wire[r].sent /\ stored[r] = NoFile
      /\ wire \in [Server \cup {Frontend} -> Part]
      /\ stored \in [Server -> Seq(0..Pad) \cup {NoFile}]
  BY <1>1 DEF CopyInv
<1>3. pc' # "downloading" /\ pc' # "served"
  BY <1>1
<1> QED BY <1>1, <1>2, <1>3 DEF CopyInv

LEMMA UploadKeepsCopies ==
    ASSUME CopyInv, LineInv, NEW r \in Server, UploadTo(r)
    PROVE  CopyInv'
<1> DEFINE w == Chunks(UploadSizes(Len(encode(data))), encode(data), Frontend)
<1>1. /\ pc = "received" /\ pc' = "uploading"
      /\ wire' = [wire EXCEPT ![r] = w]
      /\ stored' = stored /\ data' = data
  BY DEF UploadTo
<1>2. /\ \A t \in Server : ~wire[t].sent /\ stored[t] = NoFile
      /\ wire \in [Server \cup {Frontend} -> Part]
      /\ stored \in [Server -> Seq(0..Pad) \cup {NoFile}]
  BY <1>1 DEF CopyInv
<1>3. w \in Part /\ IsCopy(w)
  BY CopyIsSent DEF LineInv
<1> HIDE DEF w
<1>4. wire' \in [Server \cup {Frontend} -> Part]
  BY <1>1, <1>2, <1>3
<1>5. \A t \in Server : (wire[t].sent)' => IsCopy(wire[t])'
  <2> TAKE t \in Server
  <2>1. wire'[t] = w \/ ~wire'[t].sent
    BY <1>1, <1>2
  <2> QED BY <1>1, <1>3, <2>1 DEF IsCopy
<1>6. \A t \in Server : stored'[t] # NoFile => stored'[t] = encode(data')
  BY <1>1, <1>2
<1> QED BY <1>1, <1>2, <1>4, <1>5, <1>6 DEF CopyInv

LEMMA RefuseKeepsCopies ==
    ASSUME CopyInv, NEW r \in Server, Refuse(r) \/ Swallow(r)
    PROVE  CopyInv'
<1>1. /\ wire' = [wire EXCEPT ![r] = Nothing] /\ pc' \in {"refused", "swallowed"}
      /\ wire[r].sent /\ stored' = stored /\ data' = data
  BY DEF Refuse, Swallow
<1>2. /\ wire \in [Server \cup {Frontend} -> Part]
      /\ stored \in [Server -> Seq(0..Pad) \cup {NoFile}]
      /\ \A t \in Server : wire[t].sent => IsCopy(wire[t])
      /\ \A t \in Server : stored[t] # NoFile => stored[t] = encode(data)
  BY DEF CopyInv
<1>3. wire' \in [Server \cup {Frontend} -> Part]
  BY <1>1, <1>2, NothingIs
<1>4. \A t \in Server : (wire[t].sent)' => IsCopy(wire[t])'
  <2> TAKE t \in Server
  <2>1. wire'[t] = wire[t] \/ ~wire'[t].sent
    BY <1>1, <1>2, NothingIs
  <2> QED BY <1>1, <1>2, <2>1 DEF IsCopy
<1> QED BY <1>1, <1>2, <1>3, <1>4 DEF CopyInv

LEMMA StoreKeepsCopies ==
    ASSUME CopyInv, LineInv, NEW r \in Server, Store(r)
    PROVE  CopyInv'
<1> DEFINE e == encode(data)
           from == wire[r].from
           w == Chunks(DownloadSizes(Len(e)), e, r)
<1>1. /\ wire \in [Server \cup {Frontend} -> Part]
      /\ stored \in [Server -> Seq(0..Pad) \cup {NoFile}]
      /\ \A t \in Server : wire[t].sent => IsCopy(wire[t])
      /\ \A t \in Server : stored[t] # NoFile => stored[t] = e
      /\ pc = "downloading" => IsCopy(wire[Frontend])
      /\ pc = "served" => served = data
  BY DEF CopyInv
<1>2. wire[r].sent /\ ReadAll(wire[r]) = e
  BY <1>1, CopyIsRead DEF Store
<1>3. /\ stored' = [stored EXCEPT ![r] = e]
      /\ wire' = [t \in DOMAIN wire |->
                     CASE t = r -> Nothing
                       [] t \in Receivers(r, from) -> w
                       [] OTHER -> wire[t]]
      /\ pc' = "stored" \/ pc' = pc
      /\ data' = data /\ served' = served
  BY <1>2 DEF Store
<1>4. w \in Part /\ IsCopy(w) /\ e \in Seq(0..Pad)
  BY CopyIsSent, EncodingIs DEF LineInv
<1>5. pc \notin {"body", "content", "received"} /\ pc' \notin {"body", "content", "received"}
  BY <1>2, <1>3 DEF CopyInv
<1>6. \A t \in Server \cup {Frontend} :
         \/ wire'[t] = Nothing /\ t = r
         \/ wire'[t] = w /\ t \in Server
         \/ wire'[t] = wire[t]
  BY <1>1, <1>3, ReceiversAre
<1>7. stored' \in [Server -> Seq(0..Pad) \cup {NoFile}]
  BY <1>1, <1>3, <1>4
<1>8. \A t \in Server : stored'[t] # NoFile => stored'[t] = encode(data')
  BY <1>1, <1>3
<1>9. wire' \in [Server \cup {Frontend} -> Part]
  <2>1. \A t \in Server \cup {Frontend} : wire'[t] \in Part
    BY <1>1, <1>4, <1>6, NothingIs
  <2>2. wire' = [t \in Server \cup {Frontend} |-> wire'[t]]
    BY <1>1, <1>3
  <2> QED BY <2>1, <2>2
<1>10. \A t \in Server : (wire[t].sent)' => IsCopy(wire[t])'
  <2> TAKE t \in Server
  <2>1. wire'[t] = wire[t] \/ wire'[t] = w \/ ~wire'[t].sent
    BY <1>6, NothingIs
  <2> HIDE DEF w
  <2> QED BY <1>1, <1>3, <1>4, <2>1 DEF IsCopy
<1>11. pc' = "downloading" => IsCopy(wire[Frontend])'
  <2>1. Frontend # r /\ Frontend \notin Server
    BY ReceiversAre
  <2>2. wire'[Frontend] = wire[Frontend]
    BY <1>6, <2>1
  <2>3. pc' = "downloading" => pc = "downloading"
    BY <1>3
  <2> QED BY <1>1, <1>3, <2>2, <2>3 DEF IsCopy
<1>12. pc' = "served" => served' = data'
  BY <1>1, <1>3
<1> HIDE DEF w, e
<1> QED BY <1>5, <1>7, <1>8, <1>9, <1>10, <1>11, <1>12 DEF CopyInv

LEMMA FetchKeepsCopies ==
    ASSUME CopyInv, LineInv, NEW r \in Server, Fetch(r)
    PROVE  CopyInv'
<1> DEFINE e == encode(data)
           w == Chunks(DownloadSizes(Len(e)), e, r)
<1>1. /\ wire \in [Server \cup {Frontend} -> Part]
      /\ stored \in [Server -> Seq(0..Pad) \cup {NoFile}]
      /\ \A t \in Server : wire[t].sent => IsCopy(wire[t])
      /\ \A t \in Server : stored[t] # NoFile => stored[t] = e
  BY DEF CopyInv
<1>2. stored[r] = e
  BY <1>1 DEF Fetch
<1>3. /\ wire' = [wire EXCEPT ![Frontend] = w]
      /\ pc' = "downloading" /\ stored' = stored /\ data' = data
  BY <1>2 DEF Fetch
<1>4. w \in Part /\ IsCopy(w)
  BY CopyIsSent DEF LineInv
<1> HIDE DEF w
<1>5. wire' \in [Server \cup {Frontend} -> Part]
  BY <1>1, <1>3, <1>4
<1>6. wire'[Frontend] = w /\ \A t \in Server : wire'[t] = wire[t]
  BY <1>1, <1>3, ReceiversAre
<1>7. \A t \in Server : (wire[t].sent)' => IsCopy(wire[t])'
  BY <1>1, <1>3, <1>6 DEF IsCopy
<1>8. IsCopy(wire[Frontend])'
  BY <1>3, <1>4, <1>6 DEF IsCopy
<1> QED BY <1>1, <1>3, <1>5, <1>7, <1>8 DEF CopyInv

LEMMA DownloadKeepsCopies ==
    ASSUME CopyInv, LineInv, Download
    PROVE  CopyInv'
<1>1. /\ wire \in [Server \cup {Frontend} -> Part]
      /\ stored \in [Server -> Seq(0..Pad) \cup {NoFile}]
      /\ \A t \in Server : wire[t].sent => IsCopy(wire[t])
      /\ \A t \in Server : stored[t] # NoFile => stored[t] = encode(data)
      /\ IsCopy(wire[Frontend])
  BY DEF CopyInv, Download
<1>2. ReadAll(wire[Frontend]) = encode(data)
  BY <1>1, CopyIsRead
<1>3. decode(encode(data)) = data
  BY DecodeEncode DEF LineInv
<1>4. /\ wire' = [wire EXCEPT ![Frontend] = Nothing]
      /\ pc' = "served" /\ served' = data
      /\ stored' = stored /\ data' = data
  BY <1>2, <1>3 DEF Download
<1>5. wire' \in [Server \cup {Frontend} -> Part]
  BY <1>1, <1>4, NothingIs
<1>6. \A t \in Server : wire'[t] = wire[t]
  BY <1>1, <1>4, ReceiversAre
<1>7. \A t \in Server : (wire[t].sent)' => IsCopy(wire[t])'
  BY <1>1, <1>4, <1>6 DEF IsCopy
<1> QED BY <1>1, <1>4, <1>5, <1>7 DEF CopyInv

-----------------------------------------------------------------------------
(* What is not the reader's leaves what was read alone.                     *)

LEMMA OthersKeepRead ==
    ASSUME LineInv, PlainInv, UNCHANGED <<file, input, message, prev, data>>,
           pc \notin {"body", "content"}, pc' \notin {"body", "content"}
    PROVE  LineInv' /\ PlainInv'
<1>1. Sent' = Sent /\ Content' = Content /\ (Plain' <=> Plain)
  BY DEF Sent, Content, Plain, LineStarts
<1>2. ReadSoFar' = ReadSoFar
  BY <1>1 DEF ReadSoFar
<1>3. LineInv'
  BY <1>1, <1>2 DEF LineInv
<1>4. PlainInv'
  BY <1>1 DEF PlainInv, Before, Within, Beyond, Stuck, Done
<1> QED BY <1>3, <1>4

LEMMA InitFile ==
    ASSUME TransferInit
    PROVE  file \in Seq(Bytes)
<1>1. PICK n \in 0..MaxLength : file \in [1..n -> Byte]
  BY DEF TransferInit, Files
<1>2. n \in Nat /\ Byte \subseteq Bytes
  BY <1>1, TransferAssumption DEF Bytes
<1> QED BY <1>1, <1>2

LEMMA TransferBegins ==
    ASSUME TransferInit
    PROVE  TransferInv
<1>1. file \in Seq(Bytes) /\ Layout
  BY InitFile, LayoutIs
<1>2. /\ input = CRLF \o file \o CRLF \o EndLine /\ pc = "body"
      /\ message = <<>> /\ data = <<>>
      /\ wire = [r \in Server \cup {Frontend} |-> Nothing]
      /\ stored = [r \in Server |-> NoFile]
  BY DEF TransferInit
<1>3. input = Sent
  BY <1>2 DEF Sent
<1>4. Sent \in Seq(Bytes) /\ Len(Sent) \in Nat
  BY <1>1 DEF Layout
<1>5. ReadSoFar = 0
  BY <1>3, <1>4 DEF ReadSoFar
<1>6. Len(message) = 0 /\ message = SubSeq(Sent, 0 - 0 + 1, 0)
  BY <1>2, <1>4
<1>7. input = SubSeq(Sent, 0 + 1, Len(Sent))
  BY <1>3, <1>4
<1>8. LineInv
  BY <1>1, <1>2, <1>4, <1>5, <1>6, <1>7, EmptySeq DEF LineInv
<1>9. PlainInv
  BY <1>2, <1>5, <1>6 DEF PlainInv, Before
<1>10. CopyInv
  BY <1>2, NothingIs DEF CopyInv
<1> QED BY <1>8, <1>9, <1>10 DEF TransferInv

LEMMA TransferStep ==
    ASSUME TransferInv, [TransferNext]_transferVars
    PROVE  TransferInv'
<1>0. LineInv /\ PlainInv /\ CopyInv
  BY DEF TransferInv
<1>1. CASE Read
  BY <1>0, <1>1, ReadKeepsLine, ReadKeepsPlain, ReadKeepsCopies DEF TransferInv
<1>2. ASSUME NEW r \in Server, UploadTo(r) PROVE TransferInv'
  <2>1. LineInv' /\ PlainInv'
    BY <1>0, <1>2, OthersKeepRead DEF UploadTo
  <2> QED BY <1>0, <1>2, <2>1, UploadKeepsCopies DEF TransferInv
<1>3. ASSUME NEW r \in Server, Refuse(r) \/ Swallow(r) PROVE TransferInv'
  <2>1. pc \notin {"body", "content"}
    BY <1>0, <1>3 DEF Refuse, Swallow, CopyInv
  <2>2. LineInv' /\ PlainInv'
    BY <1>0, <1>3, <2>1, OthersKeepRead DEF Refuse, Swallow
  <2> QED BY <1>0, <1>3, <2>2, RefuseKeepsCopies DEF TransferInv
<1>4. ASSUME NEW r \in Server, Store(r) PROVE TransferInv'
  <2>1. pc \notin {"body", "content"} /\ (pc' = "stored" \/ pc' = pc)
    BY <1>0, <1>4 DEF Store, CopyInv
  <2>2. LineInv' /\ PlainInv'
    BY <1>0, <1>4, <2>1, OthersKeepRead DEF Store
  <2> QED BY <1>0, <1>4, <2>2, StoreKeepsCopies DEF TransferInv
<1>5. ASSUME NEW r \in Server, Fetch(r) PROVE TransferInv'
  <2>1. LineInv' /\ PlainInv'
    BY <1>0, <1>5, OthersKeepRead DEF Fetch
  <2> QED BY <1>0, <1>5, <2>1, FetchKeepsCopies DEF TransferInv
<1>6. CASE Download
  <2>1. LineInv' /\ PlainInv'
    BY <1>0, <1>6, OthersKeepRead DEF Download
  <2> QED BY <1>0, <1>6, <2>1, DownloadKeepsCopies DEF TransferInv
<1>7. CASE UNCHANGED transferVars
  <2>1. UNCHANGED <<file, input, message, prev, data, pc, wire, stored, served>>
    BY <1>7 DEF transferVars
  <2>2. Sent' = Sent /\ Content' = Content /\ LineStarts' = LineStarts /\ (Plain' <=> Plain)
    BY <2>1 DEF Sent, Content, Plain, LineStarts
  <2>3. ReadSoFar' = ReadSoFar
    BY <2>1, <2>2 DEF ReadSoFar
  <2>4. LineInv'
    BY <1>0, <2>1, <2>2, <2>3 DEF LineInv
  <2>5. PlainInv'
    BY <1>0, <2>1, <2>2, <2>3 DEF PlainInv, Before, Within, Beyond, Stuck, Done, LineStart
  <2>6. CopyInv'
    BY <1>0, <2>1 DEF CopyInv, IsCopy
  <2> QED BY <2>4, <2>5, <2>6 DEF TransferInv
<1> QED BY <1>1, <1>2, <1>3, <1>4, <1>5, <1>6, <1>7 DEF TransferNext

\* The inductive invariant of a transfer: the line that is being read is the
\* last that was sent, of a plain file the lines read so far are its beginning,
\* and every copy on its way or stored is the encoding of what was read.
THEOREM TransferInvariant == TransferSpec => []TransferInv
<1>1. TransferInit => TransferInv
  BY TransferBegins
<1>2. TransferInv /\ [TransferNext]_transferVars => TransferInv'
  BY TransferStep
<1> QED BY <1>1, <1>2, PTL DEF TransferSpec

\* What the reader made of the form comes back from every server, and of a
\* plain file that is the file: for files, chunks and groups of any size, and
\* whatever the variables without a value hold (Receive_File_Content, encode,
\* the chunks of uploadfile and downloadfile, decode).
THEOREM FilesComeBack == TransferSpec => []ComesBack
<1>1. TransferInv => ComesBack
  <2> SUFFICES ASSUME TransferInv, pc = "served"
               PROVE  served = data /\ (Plain => served = file \o CRLF)
    BY DEF ComesBack
  <2>1. served = data
    BY DEF TransferInv, CopyInv
  <2>2. Plain => data = Content
    BY DEF TransferInv, PlainInv, Before, Within, Beyond, Stuck, Done
  <2> QED BY <2>1, <2>2 DEF Content
<1> QED BY <1>1, TransferInvariant, PTL
=============================================================================
