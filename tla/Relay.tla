------------------------------- MODULE Relay --------------------------------
(***************************************************************************)
(* The queue of outgoing mails: the file mqueue, to which the backend      *)
(* servers append (src/backend/backend_server.cc:                          *)
(* save_external_email_to_mqueue) and which the relay reads, delivers and  *)
(* rewrites once a second (src/email_service/relay.cc).                    *)
(*                                                                         *)
(* The relay holds flock on the file for the whole round, but the backends *)
(* take only a mutex of their own process: an append may come at any       *)
(* moment.  The vector marked_deleted outlives the round.  Every round     *)
(* opens the file once without closing it, and every delivery leaves a     *)
(* socket: in time the relay has no descriptor left and waits for ever.    *)
(*                                                                         *)
(* A mail is its number in the order of saving.  Its "From " line          *)
(* (emails_header) is written back and read as a separator only, and is    *)
(* left out.                                                               *)
(***************************************************************************)
EXTENDS Integers, Sequences, FiniteSets

Ext == INSTANCE SequencesExt

CONSTANTS
  MaxMails,    \* bound on the mails that are saved
  MaxCrashes   \* bound on the crashes of the relay

ASSUME RelayAssumption == {MaxMails, MaxCrashes} \subseteq Nat

VARIABLES
  mqueue,          \* the file
  emails,          \* the mails read in this round
  marked_deleted,  \* positions that are not written back
  at,              \* where the relay is
  next,            \* loop index of get_connection_and_deliver
  saved,           \* mails saved so far
  crashes,
  \* history: what the properties speak about
  taken,           \* mails that some server has accepted
  confirmed,       \* those whose acceptance this relay process knows of
  exposed          \* mails that the code may lose: see Kept

vectors == <<emails, marked_deleted>>
ghosts == <<taken, confirmed, exposed>>
vars == <<mqueue, vectors, at, next, saved, crashes, ghosts>>

Mails == 1..MaxMails

(* Type correctness of the relay, its vectors (marked_deleted is indexed    *)
(* with the positions of emails) and the file.                              *)
TypeOK ==
  /\ {mqueue, emails} \subseteq Seq(Mails)
  /\ marked_deleted \in Seq(BOOLEAN)
  /\ at \in {"deliver", "write"} => Len(marked_deleted) = Len(emails)
  /\ at \in {"sleep", "deliver", "write", "blocked", "down"}
  /\ next \in 1..(MaxMails + 1)
  /\ saved \in 0..MaxMails
  /\ crashes \in 0..MaxCrashes
  /\ {taken, confirmed, exposed} \subseteq SUBSET Mails

Init ==
  /\ mqueue = <<>>
  /\ emails = <<>>
  /\ marked_deleted = <<>>
  /\ at = "sleep"
  /\ next = 1
  /\ saved = 0
  /\ crashes = 0
  /\ taken = {}
  /\ confirmed = {}
  /\ exposed = {}

-----------------------------------------------------------------------------
(* A backend appends a mail, in one write.  During a round of the relay     *)
(* nothing keeps it.                                                        *)
Save ==
  /\ saved < MaxMails
  /\ saved' = saved + 1
  /\ mqueue' = Append(mqueue, saved + 1)
  /\ exposed' = IF at \in {"deliver", "write"} THEN exposed \cup {saved + 1} ELSE exposed
  /\ UNCHANGED <<vectors, at, next, crashes, taken, confirmed>>

-----------------------------------------------------------------------------
(* A round of the relay.                                                    *)

(* Mutation of Resized: the vector is not cut.                              *)
ResizedUp(marks, n) ==
  [i \in 1..(IF n < Len(marks) THEN Len(marks) ELSE n) |-> i <= Len(marks) /\ marks[i]]

(* vector<bool>::resize: the marks of the round before stay.                *)
Resized(marks, n) == [i \in 1..n |-> i <= Len(marks) /\ marks[i]]

Read ==
  /\ at = "sleep"
  /\ at' = "deliver"
  /\ next' = 1
  /\ emails' = mqueue
  /\ marked_deleted' = Resized(marked_deleted, Len(mqueue))
  /\ exposed' = exposed \cup {mqueue[i] : i \in {j \in DOMAIN mqueue : marked_deleted'[j]}}
  /\ UNCHANGED <<mqueue, saved, crashes, taken, confirmed>>

Delivering == at = "deliver" /\ next <= Len(emails)

(* Mutation of Accepted: the mark is set one position too far.              *)
AcceptedNextMarked ==
  /\ Delivering
  /\ next' = next + 1
  /\ marked_deleted' = [i \in DOMAIN marked_deleted |-> marked_deleted[i] \/ i = next + 1]
  /\ taken' = taken \cup {emails[next]}
  /\ confirmed' = confirmed \cup {emails[next]}
  /\ UNCHANGED <<mqueue, emails, at, saved, crashes, exposed>>

(* The server answers the final dot with 250.                               *)
Accepted ==
  /\ Delivering
  /\ next' = next + 1
  /\ marked_deleted' = [marked_deleted EXCEPT ![next] = TRUE]
  /\ taken' = taken \cup {emails[next]}
  /\ confirmed' = confirmed \cup {emails[next]}
  /\ UNCHANGED <<mqueue, emails, at, saved, crashes, exposed>>

(* The server takes the mail and its answer does not arrive.                *)
Unanswered ==
  /\ Delivering
  /\ next' = next + 1
  /\ taken' = taken \cup {emails[next]}
  /\ UNCHANGED <<mqueue, vectors, at, saved, crashes, confirmed, exposed>>

(* Mutation of Failed: the round is given up at the first mail that fails.  *)
FailedStops ==
  /\ Delivering
  /\ at' = "sleep"
  /\ UNCHANGED <<mqueue, vectors, next, saved, crashes, ghosts>>

(* No address, no mail server, or a refusal.                                *)
Failed ==
  /\ Delivering
  /\ next' = next + 1
  /\ UNCHANGED <<mqueue, vectors, at, saved, crashes, ghosts>>

(* The file is opened for writing, which empties it.                        *)
Truncate ==
  /\ at = "deliver" /\ next > Len(emails)
  /\ at' = "write"
  /\ mqueue' = <<>>
  /\ UNCHANGED <<vectors, next, saved, crashes, ghosts>>

Increases(s) == \A i, j \in DOMAIN s : i < j => s[i] < s[j]

(* The numbers of a finite set in their order.                              *)
Ordered(S) == CHOOSE s \in [1..Cardinality(S) -> S] : Increases(s)

(* Mutation of Unmarked: the loop ends one too early.                       *)
UnmarkedShort == Ordered({i \in 1..(Len(emails) - 1) : ~marked_deleted[i]})

(* Positions and mails that are written back, in order.                     *)
Unmarked == Ordered({i \in DOMAIN emails : ~marked_deleted[i]})
WrittenBack == [k \in DOMAIN Unmarked |-> emails[Unmarked[k]]]

(* Mutation of Overwritten: the text comes after what was appended.         *)
OverwrittenAfter(f, text) == {f \o text}

(* What becomes of the file f when text is written from its start: the      *)
(* first mail of f is destroyed, later ones as far as the text goes.        *)
Overwritten(f, text) ==
  IF text = <<>> THEN {f}
  ELSE {text \o SubSeq(f, k, Len(f)) : k \in 2..(Len(f) + 2)}

Write ==
  /\ at = "write"
  /\ at' = "sleep"
  /\ mqueue' \in Overwritten(mqueue, WrittenBack)
  /\ UNCHANGED <<vectors, next, saved, crashes, ghosts>>

-----------------------------------------------------------------------------
(* The process dies: killed, or by SIGPIPE when it sends on a connection    *)
(* that was refused.  Of what was being written a part may be in the file.  *)
Crash ==
  /\ at # "down"
  /\ crashes < MaxCrashes
  /\ crashes' = crashes + 1
  /\ at' = "down"
  /\ emails' = <<>>
  /\ marked_deleted' = <<>>
  /\ confirmed' = {}
  /\ IF at = "write"
     THEN /\ \E k \in 0..Len(WrittenBack) :
                mqueue' \in Overwritten(mqueue, SubSeq(WrittenBack, 1, k))
          /\ exposed' = exposed \cup Ext!ToSet(WrittenBack)
     ELSE UNCHANGED <<mqueue, exposed>>
  /\ UNCHANGED <<next, saved, taken>>

Start ==
  /\ at = "down"
  /\ at' = "sleep"
  /\ UNCHANGED <<mqueue, vectors, next, saved, crashes, ghosts>>

(* The file cannot be opened any more, and select waits without a timeout   *)
(* on no descriptor at all.  How many rounds that takes depends on the      *)
(* limit of the process and on the deliveries: it may be any.               *)
Block ==
  /\ at = "sleep"
  /\ at' = "blocked"
  /\ emails' = <<>>
  /\ UNCHANGED <<mqueue, marked_deleted, next, saved, crashes, ghosts>>

Deliver == Accepted \/ Unanswered \/ Failed
Round == Read \/ Deliver \/ Truncate \/ Write

Next == Save \/ Round \/ Block \/ Crash \/ Start

Spec == Init /\ [][Next]_vars

(* A relay that has descriptors goes on; nothing starts it again.           *)
FairSpec == Spec /\ WF_vars(Round)

-----------------------------------------------------------------------------
(* The ways to lose a mail are three: it was appended during a round, its   *)
(* position carries a mark of the round before, or the relay died while it  *)
(* wrote the file.  Every other mail is with some server, in the file, or   *)
(* about to be written back (relay.cc: main, marked_deleted and the         *)
(* rewriting).                                                              *)
Kept ==
  \A m \in 1..saved :
    \/ m \in taken \cup exposed
    \/ Ext!Contains(mqueue, m)
    \/ at = "write" /\ Ext!Contains(WrittenBack, m)

(* A mail that the relay knows to be delivered is not sent again            *)
(* (get_connection_and_deliver: marked_deleted[i] = true).                  *)
NotSentTwice == Delivering => emails[next] \notin confirmed

(* No mail overtakes another in the file, across rounds and crashes.        *)
InOrder == Increases(mqueue)

(* Why these hold, as an inductive invariant.  A round has read what was    *)
(* the file; from the truncation on the file has later mails only.          *)
ReadInv ==
  /\ Increases(mqueue) /\ Increases(emails)
  /\ Ext!ToSet(mqueue) \cup Ext!ToSet(emails) \cup confirmed \subseteq 1..saved
  /\ at = "deliver" =>
        Len(emails) <= Len(mqueue) /\ \A i \in DOMAIN emails : mqueue[i] = emails[i]
  /\ at = "write" =>
        \A i \in DOMAIN emails, j \in DOMAIN mqueue : emails[i] < mqueue[j]

\* A confirmed mail is in this round's mails only, behind the loop and marked.
ConfirmedInv ==
  /\ at \in {"deliver", "write"} =>
        \A i \in DOMAIN emails : emails[i] \in confirmed =>
            marked_deleted[i] /\ (at = "deliver" => i < next)
  /\ \A j \in DOMAIN mqueue :
        mqueue[j] \in confirmed => at = "deliver" /\ j <= Len(emails)
  /\ at = "down" => confirmed = {}

\* What the rewriting does not keep may be lost: marks, and what was appended.
ExposedInv ==
  /\ at \in {"deliver", "write"} =>
        \A i \in DOMAIN emails : marked_deleted[i] => emails[i] \in taken \cup exposed
  /\ \A j \in DOMAIN mqueue :
        at = "write" \/ (at = "deliver" /\ j > Len(emails)) => mqueue[j] \in exposed

RelayInv == TypeOK /\ ReadInv /\ ConfirmedInv /\ ExposedInv /\ Kept

(* A mail in the file comes to be tried, or leaves it, whatever happens to  *)
(* the mails before it (get_connection_and_deliver: continue), unless the   *)
(* relay dies or uses up its descriptors (main: open, select).              *)
Tried ==
  \A m \in Mails :
    Ext!Contains(mqueue, m) ~>
      \/ Delivering /\ emails[next] = m
      \/ ~Ext!Contains(mqueue, m) \/ at \in {"blocked", "down"}
=============================================================================
