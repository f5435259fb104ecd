---------------------------- MODULE RelayProofs -----------------------------
(***************************************************************************)
(* Proofs about the relay and the file mqueue, for any number of mails and *)
(* crashes: RelayInv is inductive, and from it what becomes of a mail.     *)
(***************************************************************************)
EXTENDS Relay, FiniteSetTheorems, WellFoundedInduction, TLAPS

-----------------------------------------------------------------------------
(* Sets of numbers.                                                         *)

(* The least number of a set: the form in which these proofs use induction. *)
LEMMA Least ==
  ASSUME NEW S \in SUBSET Nat, S # {}
  PROVE  \E n \in S : \A m \in S : n <= m
<1>1. OpToRel(<, Nat) = {p \in Nat \X Nat : p[1] < p[2]}
  BY DEF OpToRel
<1>2. IsWellFoundedOn({p \in Nat \X Nat : p[1] < p[2]}, Nat)
  BY <1>1, NatLessThanWellFounded
<1>3. PICK n \in S : \A m \in S : ~(<<m, n>> \in {p \in Nat \X Nat : p[1] < p[2]})
  BY <1>2, WFMin, Zenon
<1>4. ASSUME NEW m \in S
      PROVE  n <= m
  <2>1. m \in Nat /\ n \in Nat /\ <<m, n>> \in Nat \X Nat
    BY Zenon
  <2>2. ~(m < n)
    BY <1>3, <2>1
  <2> QED
    BY <2>1, <2>2
<1> QED
  BY <1>4

(* A sequence of positive numbers that increases is above its positions.    *)
LEMMA AbovePosition ==
  ASSUME NEW n \in Nat, NEW s \in [1..n -> Nat \ {0}], Increases(s)
  PROVE  \A i \in 1..n : s[i] >= i
<1> DEFINE Below == {i \in 1..n : s[i] < i}
<1> SUFFICES ASSUME Below # {}
             PROVE  FALSE
  OBVIOUS
<1>1. PICK i \in Below : \A j \in Below : i <= j
  <2>1. Below \in SUBSET Nat
    OBVIOUS
  <2> HIDE DEF Below
  <2> QED
    BY <2>1, Least
<1>2. i \in 1..n /\ s[i] < i /\ i # 1
  OBVIOUS
<1>3. i - 1 \in 1..n /\ s[i - 1] < s[i]
  BY <1>2 DEF Increases
<1>4. i - 1 \in Below
  BY <1>2, <1>3
<1> QED
  BY <1>1, <1>2, <1>4

LEMMA FiniteBelow ==
  ASSUME NEW n \in Nat, NEW S \in SUBSET (1..n)
  PROVE  IsFiniteSet(S) /\ Cardinality(S) \in Nat
<1>1. IsFiniteSet(1..n)
  BY FS_Interval
<1>2. IsFiniteSet(S)
  BY <1>1, FS_Subset
<1> QED
  BY <1>2, FS_CardinalityType

(* Every finite set of positive numbers has an order.                       *)
LEMMA HasOrder ==
  ASSUME NEW n \in Nat, NEW S \in SUBSET (1..n)
  PROVE  \E s \in [1..Cardinality(S) -> S] : Increases(s)
<1> DEFINE Has(T) == \E s \in [1..Cardinality(T) -> T] : Increases(s)
           Fails == {k \in Nat : \E T \in SUBSET (1..k) : ~Has(T)}
<1> SUFFICES ASSUME Fails # {}
             PROVE  FALSE
  OBVIOUS
<1>1. PICK k \in Fails : \A j \in Fails : k <= j
  <2>1. Fails \in SUBSET Nat
    OBVIOUS
  <2> HIDE DEF Fails
  <2> QED
    BY <2>1, Least
<1>2. PICK T \in SUBSET (1..k) : ~Has(T)
  OBVIOUS
<1> DEFINE R == T \ {k}
<1>3. IsFiniteSet(T) /\ Cardinality(T) \in Nat
  BY FiniteBelow
<1>4. k # 0
  <2> SUFFICES ASSUME k = 0
               PROVE  FALSE
    OBVIOUS
  <2>0. T = {}
    OBVIOUS
  <2>1. Cardinality(T) = 0
    BY <2>0, FS_EmptySet
  <2>2. [i \in 1..Cardinality(T) |-> i] \in [1..Cardinality(T) -> T]
    BY <2>1
  <2>3. Increases([i \in 1..Cardinality(T) |-> i])
    BY <2>1 DEF Increases
  <2> QED
    BY <1>2, <2>2, <2>3
<1>5. k - 1 \in Nat /\ k - 1 \notin Fails
  <2>1. k \in Nat /\ k - 1 \in Nat /\ ~(k <= k - 1)
    BY <1>4
  <2> HIDE DEF Fails
  <2> QED
    BY <1>1, <2>1
<1>6. R \in SUBSET (1..(k - 1))
  BY <1>5
<1>7. PICK r \in [1..Cardinality(R) -> R] : Increases(r)
  BY <1>5, <1>6
<1>8. CASE k \notin T
  BY <1>2, <1>7, <1>8
<1>9. CASE k \in T
  <2> DEFINE c == Cardinality(R)
             s == [i \in 1..(c + 1) |-> IF i = c + 1 THEN k ELSE r[i]]
  <2>1. c \in Nat
    BY <1>5, <1>6, FiniteBelow
  <2>2. Cardinality(T) = c + 1
    <3>1. c = Cardinality(T) - 1
      BY <1>3, <1>9, FS_RemoveElement
    <3> HIDE DEF R, c
    <3> QED
      BY <1>3, <3>1
  <2>3. \A i \in 1..c : r[i] \in T /\ r[i] \in 1..(k - 1)
    BY <1>6, <2>1
  <2>4. \A i, j \in 1..c : i < j => r[i] < r[j]
    BY <1>7 DEF Increases
  <2> HIDE DEF R, c
  <2>5. /\ s \in [1..(c + 1) -> T]
        /\ s[c + 1] = k
        /\ \A i \in 1..c : s[i] = r[i]
    BY <1>9, <2>1, <2>3
  <2> HIDE DEF s
  <2>6. Increases(s)
    <3> SUFFICES ASSUME NEW i \in 1..(c + 1), NEW j \in 1..(c + 1), i < j
                 PROVE  s[i] < s[j]
      BY <2>5 DEF Increases
    <3>1. i \in 1..c
      BY <2>1
    <3>2. CASE j = c + 1
      BY <1>5, <2>3, <2>5, <3>1, <3>2
    <3>3. CASE j \in 1..c
      BY <2>4, <2>5, <3>1, <3>3
    <3> QED
      BY <2>1, <3>2, <3>3
  <2> QED
    BY <1>2, <2>2, <2>5, <2>6
<1> QED
  BY <1>8, <1>9

(* Ordered(S) has the elements of S in their order.                         *)
LEMMA OrderedElements ==
  ASSUME NEW n \in Nat, NEW S \in SUBSET (1..n)
  PROVE  /\ Cardinality(S) \in Nat
         /\ Ordered(S) \in [1..Cardinality(S) -> S]
         /\ Increases(Ordered(S))
         /\ \A x \in S : \E i \in 1..Cardinality(S) : Ordered(S)[i] = x
<1> DEFINE c == Cardinality(S)
           s == Ordered(S)
<1>1. IsFiniteSet(S) /\ c \in Nat
  BY FiniteBelow
<1>2. s \in [1..c -> S] /\ Increases(s)
  BY HasOrder DEF Ordered
<1> HIDE DEF s
<1>3. s \in Injection(1..c, S)
  <2>1. \A i, j \in 1..c : s[i] = s[j] => i = j
    <3> SUFFICES ASSUME NEW i \in 1..c, NEW j \in 1..c, i < j
                 PROVE  s[i] # s[j]
      BY <1>1
    <3>1. s[i] < s[j] /\ s[i] \in 1..n
      BY <1>2 DEF Increases
    <3> QED
      BY <3>1
  <2> QED
    BY <1>2, <2>1 DEF Injection, IsInjective
<1>4. Cardinality(1..c) = c
  BY <1>1, FS_Interval
<1>5. s \in Surjection(1..c, S)
  BY <1>1, <1>3, <1>4, FS_Injection
<1> QED
  BY <1>1, <1>2, <1>5 DEF s, Surjection

-----------------------------------------------------------------------------
(* The rewriting of the file.                                               *)

(* The mails that are written back: those without a mark, in order.         *)
LEMMA WrittenMails ==
  ASSUME TypeOK, Increases(emails), at \in {"deliver", "write"}
  PROVE  /\ WrittenBack \in Seq(Mails)
         /\ Increases(WrittenBack)
         /\ \A k \in DOMAIN WrittenBack :
               \E i \in DOMAIN emails : ~marked_deleted[i] /\ WrittenBack[k] = emails[i]
         /\ \A i \in DOMAIN emails : ~marked_deleted[i] =>
               \E k \in DOMAIN WrittenBack : WrittenBack[k] = emails[i]
<1> DEFINE n == Len(emails)
           S == {i \in DOMAIN emails : ~marked_deleted[i]}
           c == Cardinality(S)
           u == Unmarked
<1>1. emails \in Seq(Mails) /\ n \in Nat /\ DOMAIN emails = 1..n /\ S \in SUBSET (1..n)
  BY DEF TypeOK
<1>2. u = Ordered(S)
  BY DEF Unmarked
<1> HIDE DEF n, S, u
<1>3. /\ c \in Nat /\ u \in [1..c -> S] /\ Increases(u)
      /\ \A x \in S : \E i \in 1..c : u[i] = x
  BY <1>1, <1>2, OrderedElements
<1> HIDE DEF c
<1>4. DOMAIN u = 1..c /\ \A k \in 1..c : u[k] \in S /\ u[k] \in 1..n
  BY <1>1, <1>3
<1>5. /\ DOMAIN WrittenBack = 1..c
      /\ \A k \in 1..c : WrittenBack[k] = emails[u[k]] /\ emails[u[k]] \in Mails
  BY <1>1, <1>4 DEF WrittenBack, u
<1>6. WrittenBack \in Seq(Mails)
  <2>1. WrittenBack = [k \in 1..c |-> emails[u[k]]]
    BY <1>4 DEF WrittenBack, u
  <2> QED
    BY <1>3, <1>5, <2>1
<1>7. Increases(WrittenBack)
  <2> SUFFICES ASSUME NEW i \in 1..c, NEW j \in 1..c, i < j
               PROVE  emails[u[i]] < emails[u[j]]
    BY <1>5 DEF Increases
  <2>1. u[i] < u[j] /\ u[i] \in DOMAIN emails /\ u[j] \in DOMAIN emails
    BY <1>1, <1>3, <1>4 DEF Increases
  <2> QED
    BY <2>1 DEF Increases
<1>8. \A k \in DOMAIN WrittenBack :
         \E i \in DOMAIN emails : ~marked_deleted[i] /\ WrittenBack[k] = emails[i]
  <2> SUFFICES ASSUME NEW k \in 1..c
               PROVE  \E i \in DOMAIN emails : ~marked_deleted[i] /\ WrittenBack[k] = emails[i]
    BY <1>5
  <2>1. u[k] \in DOMAIN emails /\ ~marked_deleted[u[k]] /\ WrittenBack[k] = emails[u[k]]
    BY <1>4, <1>5 DEF S
  <2> QED
    BY <2>1
<1>9. \A i \in DOMAIN emails : ~marked_deleted[i] =>
         \E k \in DOMAIN WrittenBack : WrittenBack[k] = emails[i]
  <2> SUFFICES ASSUME NEW i \in DOMAIN emails, ~marked_deleted[i]
               PROVE  \E k \in 1..c : WrittenBack[k] = emails[i]
    BY <1>5
  <2>1. i \in S
    BY DEF S
  <2> QED
    BY <1>3, <1>5, <2>1
<1> QED
  BY <1>6, <1>7, <1>8, <1>9

(* What is in a file that was written over.                                 *)
LEMMA Overwriting ==
  ASSUME NEW f \in Seq(Mails), NEW text \in Seq(Mails), NEW g \in Overwritten(f, text),
         Increases(f), Increases(text),
         \A i \in DOMAIN text, j \in DOMAIN f : text[i] < f[j]
  PROVE  /\ g \in Seq(Mails)
         /\ Increases(g)
         /\ \A j \in DOMAIN g : \/ \E i \in DOMAIN text : g[j] = text[i]
                                \/ \E i \in DOMAIN f : g[j] = f[i]
         /\ \A i \in DOMAIN text : i \in DOMAIN g /\ g[i] = text[i]
         /\ text = <<>> => g = f
<1>1. CASE text = <<>>
  BY <1>1 DEF Overwritten
<1>2. CASE text # <<>>
  <2>1. PICK k \in 2..(Len(f) + 2) : g = text \o SubSeq(f, k, Len(f))
    BY <1>2 DEF Overwritten
  <2> DEFINE r == SubSeq(f, k, Len(f))
             n == Len(text)
             l == Len(r)
  <2>2. k \in Int /\ k >= 2 /\ Len(f) \in Nat /\ n \in Nat
    OBVIOUS
  <2>3. r \in Seq(Mails) /\ l \in Nat
    BY <2>2
  <2>4. \A i \in 1..l : i + k - 1 \in 1..Len(f) /\ r[i] = f[i + k - 1]
    BY <2>2
  <2> HIDE DEF r
  <2>5. /\ g \in Seq(Mails) /\ DOMAIN g = 1..(n + l)
        /\ \A i \in 1..n : g[i] = text[i]
        /\ \A i \in (n + 1)..(n + l) : g[i] = r[i - n] /\ i - n \in 1..l
    BY <2>1, <2>2, <2>3 DEF r
  <2>6. \A i \in (n + 1)..(n + l) : i - n + k - 1 \in DOMAIN f /\ g[i] = f[i - n + k - 1]
    BY <2>2, <2>3, <2>4, <2>5
  <2>7. Increases(g)
    <3> SUFFICES ASSUME NEW i \in 1..(n + l), NEW j \in 1..(n + l), i < j
                 PROVE  g[i] < g[j]
      BY <2>5 DEF Increases
    <3>1. CASE j <= n
      BY <2>2, <2>5, <3>1 DEF Increases
    <3>2. CASE i <= n /\ j > n
      <4>1. g[i] = text[i] /\ i \in DOMAIN text /\ j \in (n + 1)..(n + l)
        BY <2>2, <2>3, <2>5, <3>2
      <4> QED
        BY <2>6, <4>1
    <3>3. CASE i > n
      <4>1. i \in (n + 1)..(n + l) /\ j \in (n + 1)..(n + l) /\ i - n + k - 1 < j - n + k - 1
        BY <2>2, <2>3, <3>3
      <4> QED
        BY <2>6, <4>1 DEF Increases
    <3> QED
      BY <2>2, <2>3, <3>1, <3>2, <3>3
  <2>8. \A j \in DOMAIN g : \/ \E i \in DOMAIN text : g[j] = text[i]
                            \/ \E i \in DOMAIN f : g[j] = f[i]
    <3> SUFFICES ASSUME NEW j \in 1..(n + l)
                 PROVE  \/ \E i \in DOMAIN text : g[j] = text[i]
                        \/ \E i \in DOMAIN f : g[j] = f[i]
      BY <2>5
    <3>1. CASE j <= n
      BY <2>2, <2>5, <3>1
    <3>2. CASE j > n
      BY <2>2, <2>3, <2>6, <3>2
    <3> QED
      BY <2>2, <2>3, <3>1, <3>2
  <2> QED
    BY <1>2, <2>2, <2>3, <2>5, <2>7, <2>8
<1> QED
  BY <1>1, <1>2

-----------------------------------------------------------------------------
(* Every step keeps the invariant.                                          *)

LEMMA Bounds == MaxMails \in Nat /\ MaxCrashes \in Nat
BY RelayAssumption

(* Values in the file and the vectors.                                      *)
LEMMA Elements ==
  ASSUME TypeOK, ReadInv
  PROVE  /\ mqueue \in Seq(Mails) /\ emails \in Seq(Mails)
         /\ saved \in Nat
         /\ \A j \in DOMAIN mqueue : mqueue[j] \in 1..saved
         /\ \A j \in DOMAIN emails : emails[j] \in 1..saved
         /\ Len(emails) \in 0..MaxMails
<1>1. /\ mqueue \in Seq(Mails) /\ emails \in Seq(Mails)
      /\ saved \in 0..MaxMails
      /\ \A j \in DOMAIN mqueue : mqueue[j] \in 1..saved
      /\ \A j \in DOMAIN emails : emails[j] \in 1..saved
  BY DEF TypeOK, ReadInv, Ext!ToSet
<1>2. Len(emails) <= MaxMails
  <2> DEFINE n == Len(emails)
  <2> SUFFICES ASSUME n > 0
               PROVE  n <= MaxMails
    BY <1>1, Bounds
  <2>1. n \in Nat /\ n \in DOMAIN emails /\ emails \in [1..n -> Nat \ {0}]
    BY <1>1 DEF Mails
  <2>2. emails[n] >= n
    <3>1. Increases(emails)
      BY DEF ReadInv
    <3> HIDE DEF n
    <3> QED
      BY <2>1, <3>1, AbovePosition
  <2> QED
    BY <1>1, <2>1, <2>2, Bounds
<1> QED
  BY <1>1, <1>2, Bounds

LEMMA SaveStep == ASSUME RelayInv, Save PROVE RelayInv'
<1> DEFINE n == Len(mqueue)
<1>1. /\ saved \in Nat /\ saved < MaxMails /\ saved' = saved + 1
      /\ mqueue \in Seq(Mails) /\ mqueue' = Append(mqueue, saved + 1)
      /\ UNCHANGED <<emails, marked_deleted, at, next, crashes, taken, confirmed>>
      /\ exposed' = IF at \in {"deliver", "write"} THEN exposed \cup {saved + 1} ELSE exposed
  BY Elements DEF RelayInv, Save, vectors
<1>2. /\ \A j \in DOMAIN mqueue : mqueue[j] \in 1..saved
      /\ \A j \in DOMAIN emails : emails[j] \in 1..saved
      /\ emails \in Seq(Mails)
      /\ confirmed \subseteq 1..saved
  BY Elements DEF RelayInv, ReadInv
<1>3. /\ n \in Nat /\ DOMAIN mqueue = 1..n /\ DOMAIN mqueue' = 1..(n + 1)
      /\ mqueue'[n + 1] = saved + 1 /\ \A j \in 1..n : mqueue'[j] = mqueue[j]
      /\ saved + 1 \in Mails /\ mqueue' \in Seq(Mails) /\ Len(mqueue') = n + 1
  BY <1>1, Bounds DEF Mails
<1> HIDE DEF n
<1>4. TypeOK'
  BY <1>1, <1>3, Bounds DEF RelayInv, TypeOK
<1>5. ReadInv'
  <2>1. Increases(mqueue')
    <3> SUFFICES ASSUME NEW i \in 1..(n + 1), NEW j \in 1..(n + 1), i < j
                 PROVE  mqueue'[i] < mqueue'[j]
      BY <1>3 DEF Increases
    <3>1. CASE j = n + 1
      BY <1>1, <1>2, <1>3, <3>1
    <3>2. CASE j # n + 1
      BY <1>3, <3>2 DEF RelayInv, ReadInv, Increases
    <3> QED
      BY <3>1, <3>2
  <2>2. Increases(emails')
    BY <1>1 DEF RelayInv, ReadInv
  <2>3. (Ext!ToSet(mqueue) \cup Ext!ToSet(emails) \cup confirmed \subseteq 1..saved)'
    <3>1. \A j \in DOMAIN mqueue' : mqueue'[j] \in 1..(saved + 1)
      BY <1>1, <1>2, <1>3
    <3>2. \A j \in DOMAIN emails' : emails'[j] \in 1..(saved + 1)
      BY <1>1, <1>2
    <3>3. confirmed' \subseteq 1..(saved + 1)
      BY <1>1, <1>2
    <3> QED
      BY <1>1, <3>1, <3>2, <3>3 DEF Ext!ToSet
  <2>4. (at = "deliver" =>
           Len(emails) <= Len(mqueue) /\ \A i \in DOMAIN emails : mqueue[i] = emails[i])'
    BY <1>1, <1>2, <1>3 DEF RelayInv, ReadInv, n
  <2>5. (at = "write" => \A i \in DOMAIN emails, j \in DOMAIN mqueue : emails[i] < mqueue[j])'
    <3> SUFFICES ASSUME at = "write", NEW i \in DOMAIN emails, NEW j \in 1..(n + 1)
                 PROVE  emails[i] < mqueue'[j]
      BY <1>1, <1>3
    <3>1. CASE j = n + 1
      BY <1>1, <1>2, <1>3, <3>1
    <3>2. CASE j # n + 1
      BY <1>3, <3>2 DEF RelayInv, ReadInv
    <3> QED
      BY <3>1, <3>2
  <2> QED
    BY <2>1, <2>2, <2>3, <2>4, <2>5 DEF ReadInv
<1>6. ConfirmedInv'
  <2>1. saved + 1 \notin confirmed
    BY <1>1, <1>2
  <2> QED
    BY <1>1, <1>3, <2>1 DEF RelayInv, ConfirmedInv
<1>7. ExposedInv'
  <2>1. \A i \in DOMAIN emails : emails[i] \in taken \cup exposed => emails[i] \in taken \cup exposed'
    BY <1>1
  <2>2. ASSUME NEW j \in 1..(n + 1), at = "write" \/ (at = "deliver" /\ j > Len(emails))
        PROVE  mqueue'[j] \in exposed'
    <3>1. CASE j = n + 1
      BY <1>1, <1>3, <2>2, <3>1
    <3>2. CASE j # n + 1
      BY <1>1, <1>3, <2>2, <3>2 DEF RelayInv, ExposedInv
    <3> QED
      BY <3>1, <3>2
  <2> QED
    BY <1>1, <1>3, <2>1, <2>2 DEF RelayInv, ExposedInv
<1>8. Kept'
  <2> SUFFICES ASSUME NEW m \in 1..(saved + 1)
               PROVE  \/ m \in taken \cup exposed'
                      \/ Ext!Contains(mqueue', m)
                      \/ at = "write" /\ Ext!Contains(WrittenBack, m)
    BY <1>1 DEF Kept, WrittenBack, Unmarked
  <2>1. CASE m = saved + 1
    BY <1>3, <2>1 DEF Ext!Contains
  <2>2. CASE m # saved + 1
    <3>1. m \in 1..saved
      BY <1>1, <2>2
    <3>2. Ext!Contains(mqueue, m) => Ext!Contains(mqueue', m)
      BY <1>3 DEF Ext!Contains
    <3> QED
      BY <1>1, <3>1, <3>2 DEF RelayInv, Kept
  <2> QED
    BY <2>1, <2>2
<1> QED
  BY <1>4, <1>5, <1>6, <1>7, <1>8 DEF RelayInv

LEMMA ReadStep == ASSUME RelayInv, Read PROVE RelayInv'
<1>1. /\ at = "sleep" /\ at' = "deliver" /\ next' = 1 /\ emails' = mqueue
      /\ marked_deleted' = Resized(marked_deleted, Len(mqueue))
      /\ exposed' = exposed \cup {mqueue[i] : i \in {j \in DOMAIN mqueue : marked_deleted'[j]}}
      /\ UNCHANGED <<mqueue, saved, crashes, taken, confirmed>>
      /\ mqueue \in Seq(Mails) /\ saved \in Nat
  BY Elements DEF RelayInv, Read
<1>2. /\ marked_deleted' \in Seq(BOOLEAN) /\ Len(marked_deleted') = Len(mqueue)
  <2>1. \A i \in 1..Len(mqueue) : (i <= Len(marked_deleted) /\ marked_deleted[i]) \in BOOLEAN
    BY DEF RelayInv, TypeOK
  <2>2. marked_deleted' \in [1..Len(mqueue) -> BOOLEAN] /\ Len(mqueue) \in Nat
    BY <1>1, <2>1 DEF Resized
  <2> QED
    BY <2>2
<1>3. TypeOK'
  <2>1. exposed' \subseteq Mails
    BY <1>1 DEF RelayInv, TypeOK
  <2> QED
    BY <1>1, <1>2, <2>1, Bounds DEF RelayInv, TypeOK
<1>4. ReadInv'
  BY <1>1 DEF RelayInv, ReadInv
<1>5. ConfirmedInv'
  BY <1>1 DEF RelayInv, ConfirmedInv
<1>6. ExposedInv'
  BY <1>1 DEF RelayInv, ExposedInv
<1>7. Kept'
  BY <1>1 DEF RelayInv, Kept
<1> QED
  BY <1>3, <1>4, <1>5, <1>6, <1>7 DEF RelayInv

(* A delivery: what is tried may be taken; what is confirmed is marked.     *)
LEMMA TriedStep ==
  ASSUME RelayInv, Delivering,
         next' = next + 1,
         UNCHANGED <<mqueue, emails, at, saved, crashes, exposed>>,
         \/ /\ marked_deleted' = [marked_deleted EXCEPT ![next] = TRUE]
            /\ taken' = taken \cup {emails[next]}
            /\ confirmed' = confirmed \cup {emails[next]}
         \/ /\ taken' \in {taken, taken \cup {emails[next]}}
            /\ UNCHANGED <<marked_deleted, confirmed>>
  PROVE  RelayInv'
<1>1. /\ at = "deliver" /\ next \in 1..Len(emails) /\ next \in Nat
      /\ emails \in Seq(Mails) /\ DOMAIN emails = 1..Len(emails) /\ Len(emails) \in 0..MaxMails
      /\ emails[next] \in 1..saved /\ emails[next] \in Mails
      /\ marked_deleted \in Seq(BOOLEAN) /\ Len(marked_deleted) = Len(emails)
  BY Elements DEF RelayInv, TypeOK, Delivering
<1>2. marked_deleted' \in Seq(BOOLEAN) /\ Len(marked_deleted') = Len(emails)
  <2>1. CASE marked_deleted' = [marked_deleted EXCEPT ![next] = TRUE]
    <3> DEFINE n == Len(emails)
    <3>1. n \in Nat /\ next \in 1..n /\ marked_deleted \in [1..n -> BOOLEAN]
      BY <1>1
    <3> HIDE DEF n
    <3>2. marked_deleted' \in [1..n -> BOOLEAN]
      BY <2>1, <3>1
    <3> QED
      BY <3>1, <3>2 DEF n
  <2>2. CASE marked_deleted' = marked_deleted
    BY <1>1, <2>2
  <2> QED
    BY <2>1, <2>2
<1>3. /\ taken \subseteq taken' /\ taken' \subseteq Mails
      /\ confirmed' \in {confirmed, confirmed \cup {emails[next]}}
      /\ confirmed' \subseteq 1..saved /\ confirmed' \subseteq Mails
  BY <1>1 DEF RelayInv, TypeOK, ReadInv
<1>4. /\ \A i \in 1..Len(emails) : marked_deleted'[i] =>
            marked_deleted[i] \/ (i = next /\ emails[next] \in taken')
      /\ \A i \in 1..Len(emails) : marked_deleted[i] => marked_deleted'[i]
      /\ emails[next] \in confirmed' => emails[next] \in confirmed \/ marked_deleted'[next]
  BY <1>1
<1>5. TypeOK'
  BY <1>1, <1>2, <1>3, Bounds DEF RelayInv, TypeOK
<1>6. ReadInv'
  BY <1>3 DEF RelayInv, ReadInv
<1>7. \A i \in 1..Len(emails) : emails[i] = emails[next] => i = next
  <2> SUFFICES ASSUME NEW i \in 1..Len(emails), i # next
               PROVE  emails[i] # emails[next]
    OBVIOUS
  <2>1. emails[i] \in 1..saved /\ emails[next] \in 1..saved
    BY <1>1, Elements DEF RelayInv
  <2>2. i < next \/ next < i
    BY <1>1
  <2>3. emails[i] < emails[next] \/ emails[next] < emails[i]
    BY <1>1, <2>2 DEF RelayInv, ReadInv, Increases
  <2> QED
    BY <2>1, <2>3
<1>8. ConfirmedInv'
  <2>1. ASSUME NEW i \in 1..Len(emails), emails[i] \in confirmed'
        PROVE  marked_deleted'[i] /\ i < next + 1
    <3>1. CASE emails[i] \in confirmed
      BY <1>1, <1>4, <3>1 DEF RelayInv, ConfirmedInv
    <3>2. CASE emails[i] \notin confirmed
      <4>1. i = next
        BY <1>3, <1>7, <2>1, <3>2
      <4> QED
        BY <1>1, <1>4, <2>1, <3>2, <4>1
    <3> QED
      BY <3>1, <3>2
  <2>2. ASSUME NEW j \in DOMAIN mqueue, mqueue[j] \in confirmed'
        PROVE  j <= Len(emails)
    <3> SUFFICES ASSUME mqueue[j] = emails[next]
                 PROVE  j <= Len(emails)
      BY <1>3, <2>2 DEF RelayInv, ConfirmedInv
    <3>1. /\ next \in DOMAIN mqueue /\ mqueue[next] = emails[next] /\ mqueue \in Seq(Mails)
          /\ next <= Len(emails)
      BY <1>1, Elements DEF RelayInv, ReadInv
    <3>2. j \in Nat /\ mqueue[j] \in 1..saved
      BY <3>1, Elements DEF RelayInv
    <3>3. ~(next < j)
      BY <3>1, <3>2 DEF RelayInv, ReadInv, Increases
    <3> QED
      BY <1>1, <3>1, <3>2, <3>3
  <2> QED
    BY <1>1, <2>1, <2>2 DEF ConfirmedInv
<1>9. ExposedInv'
  BY <1>1, <1>3, <1>4 DEF RelayInv, ExposedInv
<1>10. Kept'
  BY <1>1, <1>3 DEF RelayInv, Kept
<1> QED
  BY <1>5, <1>6, <1>8, <1>9, <1>10 DEF RelayInv

LEMMA DeliverStep == ASSUME RelayInv, Deliver PROVE RelayInv'
<1>1. Delivering /\ next' = next + 1
  BY DEF Deliver, Accepted, Unanswered, Failed
<1>2. CASE Accepted
  BY <1>1, <1>2, TriedStep DEF Accepted
<1>3. CASE Unanswered
  BY <1>1, <1>3, TriedStep DEF Unanswered, vectors
<1>4. CASE Failed
  BY <1>1, <1>4, TriedStep DEF Failed, vectors, ghosts
<1> QED
  BY <1>2, <1>3, <1>4 DEF Deliver

LEMMA TruncateStep == ASSUME RelayInv, Truncate PROVE RelayInv'
<1>1. /\ at = "deliver" /\ at' = "write" /\ mqueue' = <<>>
      /\ UNCHANGED <<emails, marked_deleted, next, saved, crashes, taken, confirmed, exposed>>
      /\ mqueue \in Seq(Mails) /\ emails \in Seq(Mails)
      /\ marked_deleted \in Seq(BOOLEAN) /\ Len(marked_deleted) = Len(emails)
  BY Elements DEF RelayInv, TypeOK, Truncate, vectors, ghosts
<1>2. mqueue' \in Seq(Mails) /\ DOMAIN mqueue' = {}
  BY <1>1
<1>3. TypeOK'
  BY <1>1, <1>2 DEF RelayInv, TypeOK
<1>4. ReadInv'
  <2>1. Increases(mqueue') /\ Ext!ToSet(mqueue') = {}
    BY <1>2 DEF Increases, Ext!ToSet
  <2> QED
    BY <1>1, <1>2, <2>1 DEF RelayInv, ReadInv
<1>5. ConfirmedInv' /\ ExposedInv'
  BY <1>1, <1>2 DEF RelayInv, ConfirmedInv, ExposedInv
<1>6. Kept'
  <2> SUFFICES ASSUME NEW m \in 1..saved, m \notin taken \cup exposed
               PROVE  Ext!Contains(WrittenBack, m)
    BY <1>1 DEF Kept, WrittenBack, Unmarked
  <2>1. PICK j \in 1..Len(mqueue) : mqueue[j] = m
    BY <1>1 DEF RelayInv, Kept, Ext!Contains
  <2>2. j \in DOMAIN emails /\ emails[j] = m
    BY <1>1, <2>1 DEF RelayInv, ExposedInv, ReadInv
  <2>3. ~marked_deleted[j]
    BY <1>1, <2>2 DEF RelayInv, ExposedInv
  <2>4. /\ WrittenBack \in Seq(Mails)
        /\ \E k \in DOMAIN WrittenBack : WrittenBack[k] = m
    BY <1>1, <2>2, <2>3, WrittenMails DEF RelayInv, ReadInv
  <2> QED
    BY <2>4 DEF Ext!Contains
<1> QED
  BY <1>3, <1>4, <1>5, <1>6 DEF RelayInv

(* The file is written over with the mails that have no mark, or with as    *)
(* many of them as were written before a crash.                             *)
LEMMA RewrittenFile ==
  ASSUME RelayInv, at = "write", NEW k \in 0..Len(WrittenBack),
         mqueue' \in Overwritten(mqueue, SubSeq(WrittenBack, 1, k))
  PROVE  /\ mqueue' \in Seq(Mails)
         /\ Increases(mqueue')
         /\ \A j \in DOMAIN mqueue' : mqueue'[j] \in 1..saved /\ mqueue'[j] \notin confirmed
         /\ \A i \in 1..k : Ext!Contains(mqueue', WrittenBack[i])
         /\ k = 0 => mqueue' = mqueue
<1> DEFINE w == WrittenBack
           text == SubSeq(w, 1, k)
<1>1. /\ w \in Seq(Mails) /\ Increases(w)
      /\ \A i \in DOMAIN w : \E j \in DOMAIN emails : ~marked_deleted[j] /\ w[i] = emails[j]
  BY WrittenMails DEF RelayInv, ReadInv
<1>2. /\ mqueue \in Seq(Mails) /\ saved \in Nat
      /\ \A j \in DOMAIN mqueue : mqueue[j] \in 1..saved /\ mqueue[j] \notin confirmed
      /\ \A j \in DOMAIN emails :
            emails[j] \in 1..saved /\ (~marked_deleted[j] => emails[j] \notin confirmed)
  BY Elements DEF RelayInv, ConfirmedInv
<1> HIDE DEF w
<1>3. /\ k \in 0..Len(w) /\ text \in Seq(Mails) /\ DOMAIN text = 1..k
      /\ Len(text) = k
      /\ \A i \in 1..k : text[i] = w[i] /\ i \in DOMAIN w
  BY <1>1 DEF w
<1>4. mqueue' \in Overwritten(mqueue, text)
  BY DEF w
<1> HIDE DEF text
<1>5. Increases(text)
  BY <1>1, <1>3 DEF Increases
<1>6. \A i \in DOMAIN text : \E j \in DOMAIN emails : ~marked_deleted[j] /\ text[i] = emails[j]
  BY <1>1, <1>3
<1>7. \A i \in DOMAIN text, j \in DOMAIN mqueue : text[i] < mqueue[j]
  BY <1>6 DEF RelayInv, ReadInv
<1>8. /\ mqueue' \in Seq(Mails)
      /\ Increases(mqueue')
      /\ \A j \in DOMAIN mqueue' : \/ \E i \in DOMAIN text : mqueue'[j] = text[i]
                                   \/ \E i \in DOMAIN mqueue : mqueue'[j] = mqueue[i]
      /\ \A i \in DOMAIN text : i \in DOMAIN mqueue' /\ mqueue'[i] = text[i]
      /\ text = <<>> => mqueue' = mqueue
  BY <1>2, <1>3, <1>4, <1>5, <1>7, Overwriting DEF RelayInv, ReadInv
<1>9. \A j \in DOMAIN mqueue' : mqueue'[j] \in 1..saved /\ mqueue'[j] \notin confirmed
  BY <1>2, <1>6, <1>8
<1>10. \A i \in 1..k : Ext!Contains(mqueue', WrittenBack[i])
  <2> SUFFICES ASSUME NEW i \in 1..k
               PROVE  \E j \in 1..Len(mqueue') : mqueue'[j] = WrittenBack[i]
    BY DEF Ext!Contains
  <2>1. i \in DOMAIN mqueue' /\ mqueue'[i] = w[i] /\ DOMAIN mqueue' = 1..Len(mqueue')
    BY <1>3, <1>8
  <2> QED
    BY <2>1 DEF w
<1>11. k = 0 => mqueue' = mqueue
  <2>1. k = 0 => text = <<>>
    BY <1>3
  <2> QED
    BY <1>8, <2>1
<1> QED
  BY <1>8, <1>9, <1>10, <1>11

(* Away from a round the invariant is about the file.                       *)
LEMMA Resting ==
  ASSUME RelayInv, at' \in {"sleep", "blocked", "down"}, TypeOK', Kept',
         emails' \in {emails, <<>>}, UNCHANGED saved,
         confirmed' \in {confirmed, {}}, at' = "down" => confirmed' = {},
         Increases(mqueue'),
         \A j \in DOMAIN mqueue' : mqueue'[j] \in 1..saved /\ mqueue'[j] \notin confirmed'
  PROVE  RelayInv'
<1>1. ReadInv'
  <2>1. Increases(emails') /\ (\A j \in DOMAIN emails' : emails'[j] \in 1..saved)
    <3>1. CASE emails' = emails
      BY <3>1, Elements DEF RelayInv, ReadInv
    <3>2. CASE emails' = <<>>
      BY <3>2 DEF Increases
    <3> QED
      BY <3>1, <3>2
  <2>2. confirmed' \subseteq 1..saved
    BY DEF RelayInv, ReadInv
  <2> QED
    BY <2>1, <2>2 DEF ReadInv, Ext!ToSet
<1>2. ConfirmedInv' /\ ExposedInv'
  BY DEF ConfirmedInv, ExposedInv
<1> QED
  BY <1>1, <1>2 DEF RelayInv

LEMMA WriteStep == ASSUME RelayInv, Write PROVE RelayInv'
<1> DEFINE w == WrittenBack
<1>1. /\ at = "write" /\ at' = "sleep" /\ mqueue' \in Overwritten(mqueue, w)
      /\ UNCHANGED <<emails, marked_deleted, next, saved, crashes, taken, confirmed, exposed>>
  BY DEF Write, vectors, ghosts
<1>2. w \in Seq(Mails)
  BY <1>1, WrittenMails DEF RelayInv, ReadInv
<1> HIDE DEF w
<1>3. Len(w) \in 0..Len(w) /\ w = SubSeq(w, 1, Len(w))
  BY <1>2
<1>4. /\ mqueue' \in Seq(Mails)
      /\ Increases(mqueue')
      /\ \A j \in DOMAIN mqueue' : mqueue'[j] \in 1..saved /\ mqueue'[j] \notin confirmed
      /\ \A i \in 1..Len(w) : Ext!Contains(mqueue', w[i])
  BY <1>1, <1>3, RewrittenFile DEF w
<1>5. TypeOK'
  BY <1>1, <1>4 DEF RelayInv, TypeOK
<1>6. Kept'
  <2> SUFFICES ASSUME NEW m \in 1..saved, m \notin taken \cup exposed
               PROVE  Ext!Contains(mqueue', m)
    BY <1>1 DEF Kept
  <2>1. mqueue \in Seq(Mails) /\ ~Ext!Contains(mqueue, m)
    BY <1>1, Elements DEF RelayInv, ExposedInv, Ext!Contains
  <2>2. Ext!Contains(w, m)
    BY <1>1, <2>1 DEF RelayInv, Kept, w
  <2> QED
    BY <1>4, <2>2 DEF Ext!Contains
<1> QED
  BY <1>1, <1>4, <1>5, <1>6, Resting

LEMMA CrashStep == ASSUME RelayInv, Crash PROVE RelayInv'
<1> DEFINE w == WrittenBack
<1>1. /\ at # "down" /\ at' = "down" /\ emails' = <<>> /\ marked_deleted' = <<>>
      /\ confirmed' = {} /\ crashes < MaxCrashes /\ crashes' = crashes + 1
      /\ UNCHANGED <<next, saved, taken>>
  BY DEF Crash
<1>2. CASE at = "write"
  <2>1. w \in Seq(Mails)
    BY <1>2, WrittenMails DEF RelayInv, ReadInv
  <2>2. PICK k \in 0..Len(w) : mqueue' \in Overwritten(mqueue, SubSeq(w, 1, k))
    BY <1>2 DEF Crash
  <2>3. exposed' = exposed \cup Ext!ToSet(w)
    BY <1>2 DEF Crash
  <2>4. /\ mqueue' \in Seq(Mails)
        /\ Increases(mqueue')
        /\ \A j \in DOMAIN mqueue' : mqueue'[j] \in 1..saved
    BY <1>2, <2>2, RewrittenFile
  <2> HIDE DEF w
  <2>5. TypeOK'
    <3>1. exposed' \subseteq Mails
      BY <2>1, <2>3 DEF RelayInv, TypeOK, Ext!ToSet
    <3> QED
      BY <1>1, <2>4, <3>1, Bounds DEF RelayInv, TypeOK
  <2>6. Kept'
    <3> SUFFICES ASSUME NEW m \in 1..saved
                 PROVE  m \in taken \cup exposed'
      BY <1>1 DEF Kept
    <3>1. Ext!Contains(mqueue, m) => m \in exposed
      BY <1>2, Elements DEF RelayInv, ExposedInv, Ext!Contains
    <3>2. Ext!Contains(w, m) => m \in exposed'
      BY <2>1, <2>3 DEF Ext!Contains, Ext!ToSet
    <3> QED
      BY <2>3, <3>1, <3>2 DEF RelayInv, Kept, w
  <2> QED
    BY <1>1, <2>4, <2>5, <2>6, Resting
<1>3. CASE at # "write"
  <2>1. UNCHANGED <<mqueue, exposed>>
    BY <1>3 DEF Crash
  <2>2. TypeOK'
    BY <1>1, <2>1, Bounds DEF RelayInv, TypeOK
  <2>3. Kept'
    BY <1>1, <1>3, <2>1 DEF RelayInv, Kept
  <2>4. Increases(mqueue') /\ \A j \in DOMAIN mqueue' : mqueue'[j] \in 1..saved
    BY <2>1, Elements DEF RelayInv, ReadInv
  <2> QED
    BY <1>1, <2>2, <2>3, <2>4, Resting
<1> QED
  BY <1>2, <1>3

LEMMA BlockStep == ASSUME RelayInv, Block PROVE RelayInv'
<1>1. /\ at = "sleep" /\ at' = "blocked" /\ emails' = <<>>
      /\ UNCHANGED <<mqueue, marked_deleted, next, saved, crashes>>
      /\ UNCHANGED <<taken, confirmed, exposed>>
  BY DEF Block, ghosts
<1>2. TypeOK' /\ Kept'
  BY <1>1 DEF RelayInv, TypeOK, Kept
<1>3. /\ Increases(mqueue')
      /\ \A j \in DOMAIN mqueue' : mqueue'[j] \in 1..saved /\ mqueue'[j] \notin confirmed'
  BY <1>1, Elements DEF RelayInv, ReadInv, ConfirmedInv
<1> QED
  BY <1>1, <1>2, <1>3, Resting

LEMMA StartStep == ASSUME RelayInv, Start PROVE RelayInv'
<1>1. /\ at = "down" /\ at' = "sleep"
      /\ UNCHANGED <<mqueue, emails, marked_deleted, next, saved, crashes>>
      /\ UNCHANGED <<taken, confirmed, exposed>>
  BY DEF Start, vectors, ghosts
<1>2. TypeOK' /\ Kept'
  BY <1>1 DEF RelayInv, TypeOK, Kept
<1>3. /\ Increases(mqueue')
      /\ \A j \in DOMAIN mqueue' : mqueue'[j] \in 1..saved /\ mqueue'[j] \notin confirmed'
  BY <1>1, Elements DEF RelayInv, ReadInv, ConfirmedInv
<1> QED
  BY <1>1, <1>2, <1>3, Resting

LEMMA InitInv == Init => RelayInv
<1> SUFFICES ASSUME Init
             PROVE  RelayInv
  OBVIOUS
<1>1. TypeOK
  BY Bounds DEF Init, TypeOK
<1>2. ReadInv
  BY DEF Init, ReadInv, Increases, Ext!ToSet
<1>3. ConfirmedInv /\ ExposedInv
  BY DEF Init, ConfirmedInv, ExposedInv
<1>4. Kept
  BY DEF Init, Kept
<1> QED
  BY <1>1, <1>2, <1>3, <1>4 DEF RelayInv

LEMMA NextInv == RelayInv /\ [Next]_vars => RelayInv'
<1> SUFFICES ASSUME RelayInv, [Next]_vars
             PROVE  RelayInv'
  OBVIOUS
<1>1. CASE UNCHANGED vars
  BY <1>1 DEF vars, vectors, ghosts, RelayInv, TypeOK, ReadInv, ConfirmedInv, ExposedInv, Kept,
              WrittenBack, Unmarked
<1> QED
  BY <1>1, SaveStep, ReadStep, DeliverStep, TruncateStep, WriteStep, BlockStep, CrashStep,
     StartStep
     DEF Next, Round

-----------------------------------------------------------------------------
(* The results.                                                             *)

(* The inductive invariant of the relay and the file (relay.cc: main,       *)
(* get_connection_and_deliver): what was read is the file until the         *)
(* truncation, what is confirmed is marked, what may be lost is exposed.    *)
THEOREM RelayInvariant == Spec => []RelayInv
<1> QED
  BY InitInv, NextInv, PTL DEF Spec

(* Type correctness: marked_deleted has one mark for each mail of a round,  *)
(* and the loop stays within both (relay.cc: marked_deleted.resize).        *)
THEOREM TypeCorrect == Spec => []TypeOK
<1>1. RelayInv => TypeOK
  BY DEF RelayInv
<1> QED
  BY <1>1, RelayInvariant, PTL

(* No mail is lost in another way than the three that Kept names, however   *)
(* saving, delivery, rewriting and crashes are interleaved (relay.cc: main).*)
THEOREM MailsAreKept == Spec => []Kept
<1>1. RelayInv => Kept
  BY DEF RelayInv
<1> QED
  BY <1>1, RelayInvariant, PTL

(* A delivery that the relay process knows of is not made again, though     *)
(* marks outlive their round (get_connection_and_deliver: marked_deleted).  *)
THEOREM NothingIsSentTwice == Spec => []NotSentTwice
<1>1. RelayInv => NotSentTwice
  <2> SUFFICES ASSUME RelayInv, Delivering, emails[next] \in confirmed
               PROVE  FALSE
    BY DEF NotSentTwice
  <2>1. next \in Nat /\ next \in DOMAIN emails /\ at = "deliver"
    BY DEF RelayInv, TypeOK, Delivering
  <2>2. next < next
    BY <2>1 DEF RelayInv, ConfirmedInv
  <2> QED
    BY <2>1, <2>2
<1> QED
  BY <1>1, RelayInvariant, PTL

(* The mails in the file stay in the order of saving (relay.cc: the mails   *)
(* are written back in the order in which they were read).                  *)
THEOREM MailsStayInOrder == Spec => []InOrder
<1>1. RelayInv => InOrder
  BY DEF RelayInv, ReadInv, InOrder
<1> QED
  BY <1>1, RelayInvariant, PTL

=============================================================================
