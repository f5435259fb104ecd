----------------------------- MODULE MailSpool ------------------------------
(***************************************************************************)
(* The SMTP server and the POP3 server of email_service on the mailbox     *)
(* files they share (src/email_service/smtp.cc and pop3.cc, client_handler *)
(* of both).  They are two processes with one thread per connection.  A    *)
(* mailbox file is guarded twice: by flock, between the processes, and by  *)
(* a mutex per file in each process.  SMTP holds both while it appends one *)
(* mail to one recipient's file; POP3 takes the flock at PASS and keeps it *)
(* until QUIT, and takes its mutex only to read the file and to rewrite    *)
(* it, with trylock.                                                       *)
(*                                                                         *)
(* A file is a sequence of mails.  A mail is its "From " line, named by    *)
(* the number of the MAIL FROM command it comes from, and its text, each   *)
(* line named by the MAIL FROM in force when the client sent it.  A line   *)
(* of text that reads like HELO, MAIL FROM, RCPT TO or DATA is answered    *)
(* and not stored (the branches of smtp.cc:109-173 come first): no step.   *)
(* A client that hangs up without QUIT sends nothing more and its thread   *)
(* loops with what it holds, which here is a client that takes no step.    *)
(***************************************************************************)
EXTENDS Naturals, Sequences

CONSTANTS
  Box,        \* mailbox files found when the servers started
  Smtp, Pop,  \* connections of the two servers
  NoBox,      \* no USER yet
  NoConn,     \* nobody holds the lock
  OldBox,     \* the mailbox files that hold a mail at the start
  MaxMails,   \* bound on the MAIL FROM commands
  MaxRcpts,   \* bound on a connection's list of recipients
  MaxLines,   \* bound on a connection's text
  MaxCrashes  \* bound on the crashes of the two processes

ASSUME SpoolAssumption ==
  /\ NoBox \notin Box
  /\ NoConn \notin Smtp \cup Pop
  /\ Smtp \cap Pop = {}
  /\ OldBox \subseteq Box
  /\ {MaxMails, MaxRcpts, MaxLines, MaxCrashes} \subseteq Nat

VARIABLES
  smtp,       \* the local variables of an SMTP thread
  pop,        \* the local variables of a POP3 thread
  file,       \* the mailbox files
  flock,      \* the connection that holds flock(2) on a file
  smtpMutex,  \* mailbox_mutexes of smtp.cc
  popMutex,   \* mailbox_mutexes of pop3.cc
  mails,      \* MAIL FROM commands so far
  crashes

files == <<file, flock, smtpMutex, popMutex>>
vars == <<smtp, pop, files, mails, crashes>>

Mail == [from : Nat, data : Seq(Nat)]

\* A connection that has just been accepted.
NewSmtp == [state |-> "CONN", from |-> 0, rcpts |-> <<>>, data |-> <<>>,
            receiving |-> FALSE, at |-> "read", next |-> 1]
NewPop == [state |-> "AUTHORIZATION", user |-> NoBox, emails |-> <<>>,
           marked |-> {}, at |-> "read", next |-> 1]

Init ==
  /\ smtp = [c \in Smtp |-> NewSmtp]
  /\ pop = [p \in Pop |-> NewPop]
  /\ file = [b \in Box |->
       IF b \in OldBox THEN <<[from |-> 0, data |-> <<0>>]>> ELSE <<>>]
  /\ flock = [b \in Box |-> NoConn]
  /\ smtpMutex = [b \in Box |-> NoConn]
  /\ popMutex = [b \in Box |-> NoConn]
  /\ mails = 0
  /\ crashes = 0

-----------------------------------------------------------------------------
(* The SMTP server.                                                        *)

Reads(c) == smtp[c].at = "read"
SmtpOnly == UNCHANGED <<pop, files, mails, crashes>>

Helo(c) ==
  /\ Reads(c) /\ smtp[c].state = "CONN"
  /\ smtp' = [smtp EXCEPT ![c].state = "HELO"]
  /\ SmtpOnly

MailFrom(c) ==
  /\ Reads(c) /\ smtp[c].state \in {"HELO", "MAIL FROM"}
  /\ mails < MaxMails
  /\ mails' = mails + 1
  /\ smtp' = [smtp EXCEPT ![c].state = "MAIL FROM", ![c].from = mails + 1]
  /\ UNCHANGED <<pop, files, crashes>>

RcptTo(c, b) ==
  /\ Reads(c) /\ smtp[c].state \in {"MAIL FROM", "RCPT TO"}
  /\ Len(smtp[c].rcpts) < MaxRcpts
  /\ smtp' = [smtp EXCEPT ![c].state = "RCPT TO", ![c].rcpts = Append(@, b)]
  /\ SmtpOnly

Data(c) ==
  /\ Reads(c) /\ smtp[c].state \in {"RCPT TO", "DATA"} /\ ~smtp[c].receiving
  /\ smtp' = [smtp EXCEPT ![c].state = "DATA", ![c].receiving = TRUE]
  /\ SmtpOnly

Line(c) ==
  /\ Reads(c) /\ smtp[c].receiving
  /\ Len(smtp[c].data) < MaxLines
  /\ smtp' = [smtp EXCEPT ![c].data = Append(@, smtp[c].from)]
  /\ SmtpOnly

Dot(c) ==
  /\ Reads(c) /\ smtp[c].receiving
  /\ smtp' = [smtp EXCEPT ![c].receiving = FALSE, ![c].at = "flock"]
  /\ SmtpOnly

RsetMail(c) ==
  /\ Reads(c) /\ smtp[c].state # "CONN" /\ ~smtp[c].receiving
  /\ smtp' = [smtp EXCEPT ![c] = [NewSmtp EXCEPT !.state = "HELO"]]
  /\ SmtpOnly

\* The thread ends and its place is taken by the next connection.
QuitSmtp(c) ==
  /\ Reads(c) /\ ~smtp[c].receiving
  /\ smtp' = [smtp EXCEPT ![c] = NewSmtp]
  /\ SmtpOnly

\* The loop over recipients_list, and the recipient it has come to.
Delivering(c) == smtp[c].at # "read"
Recipient(c) == smtp[c].rcpts[smtp[c].next]

(* A mutation: the append is not guarded by flock.                          *)
DeliverNoFlock(c) ==
  /\ smtp[c].at = "flock" /\ smtp[c].next <= Len(smtp[c].rcpts)
  /\ smtp' = [smtp EXCEPT ![c].at = "mutex"]
  /\ UNCHANGED <<pop, files, mails, crashes>>

DeliverFlock(c) ==
  /\ smtp[c].at = "flock" /\ smtp[c].next <= Len(smtp[c].rcpts)
  /\ flock[Recipient(c)] = NoConn
  /\ flock' = [flock EXCEPT ![Recipient(c)] = c]
  /\ smtp' = [smtp EXCEPT ![c].at = "mutex"]
  /\ UNCHANGED <<pop, file, smtpMutex, popMutex, mails, crashes>>

DeliverMutex(c) ==
  /\ smtp[c].at = "mutex"
  /\ smtpMutex[Recipient(c)] = NoConn
  /\ smtpMutex' = [smtpMutex EXCEPT ![Recipient(c)] = c]
  /\ smtp' = [smtp EXCEPT ![c].at = "append"]
  /\ UNCHANGED <<pop, file, flock, popMutex, mails, crashes>>

DeliverAppend(c) ==
  /\ smtp[c].at = "append"
  /\ file' = [file EXCEPT ![Recipient(c)] =
                Append(@, [from |-> smtp[c].from, data |-> smtp[c].data])]
  /\ smtpMutex' = [smtpMutex EXCEPT ![Recipient(c)] = NoConn]
  /\ smtp' = [smtp EXCEPT ![c].at = "unlock"]
  /\ UNCHANGED <<pop, flock, popMutex, mails, crashes>>

(* A mutation: close(flock_fd) is all there is, and another descriptor of   *)
(* the thread keeps the lock.                                               *)
DeliverKeepsFlock(c) ==
  /\ smtp[c].at = "unlock"
  /\ smtp' = [smtp EXCEPT ![c].at = "flock", ![c].next = @ + 1]
  /\ UNCHANGED <<pop, files, mails, crashes>>

DeliverUnlock(c) ==
  /\ smtp[c].at = "unlock"
  /\ flock' = [flock EXCEPT ![Recipient(c)] = NoConn]
  /\ smtp' = [smtp EXCEPT ![c].at = "flock", ![c].next = @ + 1]
  /\ UNCHANGED <<pop, file, smtpMutex, popMutex, mails, crashes>>

\* 250 OK.  recipients_list and mail_data keep their contents.
Delivered(c) ==
  /\ smtp[c].at = "flock" /\ smtp[c].next > Len(smtp[c].rcpts)
  /\ smtp' = [smtp EXCEPT ![c].at = "read", ![c].state = "HELO", ![c].next = 1]
  /\ SmtpOnly

SmtpServer(c) ==
  DeliverMutex(c) \/ DeliverAppend(c) \/ DeliverUnlock(c) \/ Delivered(c)

SmtpClient(c) ==
  \/ Helo(c) \/ MailFrom(c) \/ Data(c) \/ Line(c) \/ Dot(c)
  \/ RsetMail(c) \/ QuitSmtp(c)
  \/ \E b \in Box : RcptTo(c, b)

-----------------------------------------------------------------------------
(* The POP3 server.                                                        *)

PopReads(p, s) == pop[p].at = "read" /\ pop[p].state = s
PopOnly == UNCHANGED <<smtp, files, mails, crashes>>

UserName(p, b) ==
  /\ PopReads(p, "AUTHORIZATION") /\ pop[p].user = NoBox
  /\ pop' = [pop EXCEPT ![p].user = b]
  /\ PopOnly

WrongPass(p) ==
  /\ PopReads(p, "AUTHORIZATION") /\ pop[p].user # NoBox
  /\ pop' = [pop EXCEPT ![p].user = NoBox]
  /\ PopOnly

Pass(p) ==
  /\ PopReads(p, "AUTHORIZATION") /\ pop[p].user # NoBox
  /\ pop' = [pop EXCEPT ![p].at = "flock"]
  /\ PopOnly

(* A mutation: LOCK_SH in place of LOCK_EX.                                 *)
PassSharedFlock(p) ==
  /\ pop[p].at = "flock"
  /\ flock[pop[p].user] \in Pop \cup {NoConn}
  /\ flock' = [flock EXCEPT ![pop[p].user] = p]
  /\ pop' = [pop EXCEPT ![p].at = "trylock"]
  /\ UNCHANGED <<smtp, file, smtpMutex, popMutex, mails, crashes>>

PassFlock(p) ==
  /\ pop[p].at = "flock"
  /\ flock[pop[p].user] = NoConn
  /\ flock' = [flock EXCEPT ![pop[p].user] = p]
  /\ pop' = [pop EXCEPT ![p].at = "trylock"]
  /\ UNCHANGED <<smtp, file, smtpMutex, popMutex, mails, crashes>>

\* A failed trylock forgets the user and keeps the flock.
PassTrylock(p) ==
  LET b == pop[p].user free == popMutex[b] = NoConn IN
  /\ pop[p].at = "trylock"
  /\ popMutex' = IF free THEN [popMutex EXCEPT ![b] = p] ELSE popMutex
  /\ pop' = [pop EXCEPT ![p].at = IF free THEN "load" ELSE "read",
                        ![p].user = IF free THEN @ ELSE NoBox]
  /\ UNCHANGED <<smtp, file, flock, smtpMutex, mails, crashes>>

PassRead(p) ==
  /\ pop[p].at = "load"
  /\ popMutex' = [popMutex EXCEPT ![pop[p].user] = NoConn]
  /\ pop' = [pop EXCEPT ![p].at = "read", ![p].state = "TRANSACTION",
                        ![p].emails = file[pop[p].user]]
  /\ UNCHANGED <<smtp, file, flock, smtpMutex, mails, crashes>>

Dele(p, i) ==
  /\ PopReads(p, "TRANSACTION")
  /\ i \in DOMAIN pop[p].emails \ pop[p].marked
  /\ pop' = [pop EXCEPT ![p].marked = @ \cup {i}]
  /\ PopOnly

RsetMarks(p) ==
  /\ PopReads(p, "TRANSACTION")
  /\ pop' = [pop EXCEPT ![p].marked = {}]
  /\ PopOnly

QuitUnread(p) ==
  /\ PopReads(p, "AUTHORIZATION")
  /\ pop' = [pop EXCEPT ![p] = NewPop]
  /\ PopOnly

Quit(p) ==
  /\ PopReads(p, "TRANSACTION")
  /\ pop' = [pop EXCEPT ![p].state = "UPDATE", ![p].at = "quit"]
  /\ PopOnly

\* A failed trylock ends the thread with its flock taken for good.
UpdateTruncate(p) ==
  LET b == pop[p].user free == popMutex[b] = NoConn IN
  /\ pop[p].at = "quit"
  /\ popMutex' = IF free THEN [popMutex EXCEPT ![b] = p] ELSE popMutex
  /\ file' = IF free THEN [file EXCEPT ![b] = <<>>] ELSE file
  /\ pop' = [pop EXCEPT ![p] = IF free THEN [@ EXCEPT !.at = "write", !.next = 1]
                                       ELSE NewPop]
  /\ UNCHANGED <<smtp, flock, smtpMutex, mails, crashes>>

(* A mutation: a mark counts mails that are left, not mails.                *)
UpdateWriteShifted(p) ==
  LET b == pop[p].user i == pop[p].next IN
  /\ pop[p].at = "write" /\ i <= Len(pop[p].emails)
  /\ file' = IF Len(file[b]) + 1 \in pop[p].marked THEN file
             ELSE [file EXCEPT ![b] = Append(@, pop[p].emails[i])]
  /\ pop' = [pop EXCEPT ![p].next = i + 1]
  /\ UNCHANGED <<smtp, flock, smtpMutex, popMutex, mails, crashes>>

UpdateWrite(p) ==
  LET b == pop[p].user i == pop[p].next IN
  /\ pop[p].at = "write" /\ i <= Len(pop[p].emails)
  /\ file' = IF i \in pop[p].marked THEN file
             ELSE [file EXCEPT ![b] = Append(@, pop[p].emails[i])]
  /\ pop' = [pop EXCEPT ![p].next = i + 1]
  /\ UNCHANGED <<smtp, flock, smtpMutex, popMutex, mails, crashes>>

(* A mutation: the loop ends before the last mail.                          *)
UpdateCloseEarly(p) ==
  /\ pop[p].at = "write" /\ pop[p].next >= Len(pop[p].emails)
  /\ popMutex' = [popMutex EXCEPT ![pop[p].user] = NoConn]
  /\ pop' = [pop EXCEPT ![p].at = "unlock"]
  /\ UNCHANGED <<smtp, file, flock, smtpMutex, mails, crashes>>

UpdateClose(p) ==
  /\ pop[p].at = "write" /\ pop[p].next > Len(pop[p].emails)
  /\ popMutex' = [popMutex EXCEPT ![pop[p].user] = NoConn]
  /\ pop' = [pop EXCEPT ![p].at = "unlock"]
  /\ UNCHANGED <<smtp, file, flock, smtpMutex, mails, crashes>>

UpdateUnlock(p) ==
  /\ pop[p].at = "unlock"
  /\ flock' = [flock EXCEPT ![pop[p].user] = NoConn]
  /\ pop' = [pop EXCEPT ![p] = NewPop]
  /\ UNCHANGED <<smtp, file, smtpMutex, popMutex, mails, crashes>>

PopServer(p) ==
  \/ PassTrylock(p) \/ PassRead(p)
  \/ UpdateTruncate(p) \/ UpdateWrite(p) \/ UpdateClose(p) \/ UpdateUnlock(p)

PopClient(p) ==
  \/ WrongPass(p) \/ Pass(p) \/ RsetMarks(p) \/ QuitUnread(p) \/ Quit(p)
  \/ \E b \in Box : UserName(p, b)
  \/ \E i \in DOMAIN pop[p].emails : Dele(p, i)

-----------------------------------------------------------------------------
(* A process dies and is started again: its locks are gone, the files stay. *)

Released(locks, dead) ==
  [b \in Box |-> IF locks[b] \in dead THEN NoConn ELSE locks[b]]

SmtpCrash ==
  /\ crashes < MaxCrashes /\ crashes' = crashes + 1
  /\ smtp' = [c \in Smtp |-> NewSmtp]
  /\ flock' = Released(flock, Smtp)
  /\ smtpMutex' = [b \in Box |-> NoConn]
  /\ UNCHANGED <<pop, file, popMutex, mails>>

PopCrash ==
  /\ crashes < MaxCrashes /\ crashes' = crashes + 1
  /\ pop' = [p \in Pop |-> NewPop]
  /\ flock' = Released(flock, Pop)
  /\ popMutex' = [b \in Box |-> NoConn]
  /\ UNCHANGED <<smtp, file, smtpMutex, mails>>

Next ==
  \/ \E c \in Smtp : SmtpClient(c) \/ DeliverFlock(c) \/ SmtpServer(c)
  \/ \E p \in Pop : PopClient(p) \/ PassFlock(p) \/ PopServer(p)
  \/ SmtpCrash
  \/ PopCrash

Spec == Init /\ [][Next]_vars

(* The threads run, and flock lets everyone in who waits while others come  *)
(* and go.  Clients owe nothing: they may stop anywhere.                    *)
Fairness ==
  /\ \A c \in Smtp : WF_vars(SmtpServer(c)) /\ SF_vars(DeliverFlock(c))
  /\ \A p \in Pop : WF_vars(PopServer(p)) /\ SF_vars(PassFlock(p))

FairSpec == Spec /\ Fairness
-----------------------------------------------------------------------------
SmtpThread ==
  [state : {"CONN", "HELO", "MAIL FROM", "RCPT TO", "DATA"}, from : Nat,
   rcpts : Seq(Box), data : Seq(Nat), receiving : BOOLEAN,
   at : {"read", "flock", "mutex", "append", "unlock"}, next : Nat \ {0}]
PopThread ==
  [state : {"AUTHORIZATION", "TRANSACTION", "UPDATE"},
   user : Box \cup {NoBox}, emails : Seq(Mail), marked : SUBSET Nat,
   at : {"read", "flock", "trylock", "load", "quit", "write", "unlock"},
   next : Nat \ {0}]

TypeOK ==
  /\ smtp \in [Smtp -> SmtpThread]
  /\ pop \in [Pop -> PopThread]
  /\ file \in [Box -> Seq(Mail)]
  /\ flock \in [Box -> Smtp \cup Pop \cup {NoConn}]
  /\ smtpMutex \in [Box -> Smtp \cup {NoConn}]
  /\ popMutex \in [Box -> Pop \cup {NoConn}]
  /\ mails \in Nat
  /\ crashes \in Nat

(* Whoever comes to a mutex finds it free, because it has the flock: no     *)
(* trylock fails (pop3.cc:186 and 356), so no client is turned away with    *)
(* PASS_CANNOT_LOCK_MAILDROP, no thread ends with a maildrop locked for     *)
(* good, and no QUIT loses its deletions.                                   *)
MutexFree ==
  /\ \A p \in Pop : pop[p].at \in {"trylock", "quit"} => popMutex[pop[p].user] = NoConn
  /\ \A c \in Smtp : smtp[c].at = "mutex" => smtpMutex[Recipient(c)] = NoConn

(* What a session read at PASS is what is in the file until it rewrites it, *)
(* however long the client takes: QUIT, which writes the emails it read     *)
(* (pop3.cc:356-369), can remove no mail that came in meanwhile.            *)
SessionView ==
  \A p \in Pop : (pop[p].state = "TRANSACTION" \/ pop[p].at = "quit")
                   => pop[p].emails = file[pop[p].user]

(* The two servers implement Maildrop.  A maildrop that is being rewritten  *)
(* still stands for what its session read; a session begins when PASS has   *)
(* read the file and ends when QUIT gives the flock up.                     *)
InSession(p) == pop[p].state # "AUTHORIZATION"
Rewrites(p, b) == pop[p].user = b /\ pop[p].at \in {"write", "unlock"}
ToGo(c) == CASE smtp[c].at = "read" -> <<>>
             [] smtp[c].at = "unlock" ->
                  SubSeq(smtp[c].rcpts, smtp[c].next + 1, Len(smtp[c].rcpts))
             [] OTHER -> SubSeq(smtp[c].rcpts, smtp[c].next, Len(smtp[c].rcpts))

absDrop == [b \in Box |->
  IF \E p \in Pop : Rewrites(p, b)
  THEN pop[CHOOSE p \in Pop : Rewrites(p, b)].emails ELSE file[b]]
absSession == [p \in Pop |->
  IF InSession(p)
  THEN [box |-> pop[p].user, marks |-> pop[p].marked,
        closing |-> pop[p].state = "UPDATE"]
  ELSE [box |-> NoBox, marks |-> {}, closing |-> FALSE]]
absOutbox == [c \in Smtp |->
  IF ToGo(c) = <<>> THEN [mail |-> <<>>, to |-> <<>>]
  ELSE [mail |-> [from |-> smtp[c].from, data |-> smtp[c].data], to |-> ToGo(c)]]

Drop == INSTANCE Maildrop WITH
          drop <- absDrop, session <- absSession, outbox <- absOutbox

(* Mails arrive once at each recipient, only outside sessions; sessions on  *)
(* one maildrop exclude each other; QUIT removes the marked mails and no    *)
(* others; a crash costs undelivered mails and a tail of a maildrop that is *)
(* being rewritten (smtp.cc:184-243, pop3.cc:165-222 and 345-387).          *)
ImplementsMaildrop == Drop!Spec

(* Why it holds, as an inductive invariant: who is past flock has it, the   *)
(* holder of a mutex is at the one place where it needs it, a session's     *)
(* emails are the file's, and a file that is being rewritten has the        *)
(* unmarked mails as far as the loop has come.                              *)
SmtpInv(c) ==
  /\ smtp[c].at \in {"mutex", "append", "unlock"} =>
       smtp[c].next <= Len(smtp[c].rcpts) /\ flock[Recipient(c)] = c
  /\ \A b \in Box :
       smtpMutex[b] = c <=> smtp[c].at = "append" /\ Recipient(c) = b

PopInv(p) ==
  /\ pop[p].state = "AUTHORIZATION" =>
       /\ pop[p].at \in {"read", "flock", "trylock", "load"}
       /\ pop[p].emails = <<>> /\ pop[p].marked = {}
  /\ pop[p].state = "TRANSACTION" => pop[p].at = "read"
  /\ pop[p].state = "UPDATE" => pop[p].at \in {"quit", "write", "unlock"}
  /\ pop[p].at # "read" \/ InSession(p) => pop[p].user \in Box
  /\ pop[p].at \in {"trylock", "load"} \/ InSession(p) => flock[pop[p].user] = p
  /\ \A b \in Box :
       popMutex[b] = p <=> pop[p].at \in {"load", "write"} /\ pop[p].user = b
  /\ pop[p].marked \subseteq DOMAIN pop[p].emails
  /\ pop[p].at = "write" =>
       /\ pop[p].next <= Len(pop[p].emails) + 1
       /\ Drop!IsRest(file[pop[p].user], pop[p].emails, pop[p].marked,
                      pop[p].next - 1)
  /\ pop[p].at = "unlock" =>
       Drop!IsRest(file[pop[p].user], pop[p].emails, pop[p].marked,
                   Len(pop[p].emails))

SpoolInv ==
  /\ TypeOK
  /\ \A c \in Smtp : SmtpInv(c)
  /\ \A p \in Pop : PopInv(p)
  /\ SessionView

(* A mail that has been sent to its end is delivered and answered, and a    *)
(* PASS is answered, unless the maildrop is in the hands of a session whose *)
(* client has not said QUIT; QUIT always comes to its end.  The loop of     *)
(* smtp.cc:194-239 takes one lock after another and never two.              *)
IdleSession(b) == \E p \in Pop : pop[p].user = b /\ PopReads(p, "TRANSACTION")
Served ==
  /\ \A c \in Smtp : Delivering(c) ~> \/ ~Delivering(c)
                                      \/ /\ smtp[c].next <= Len(smtp[c].rcpts)
                                         /\ IdleSession(Recipient(c))
  /\ \A p \in Pop : pop[p].at = "flock" ~> \/ pop[p].at # "flock"
                                          \/ IdleSession(pop[p].user)
  /\ \A p \in Pop : pop[p].state = "UPDATE" ~> pop[p].state = "AUTHORIZATION"
=============================================================================
