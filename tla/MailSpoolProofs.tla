-------------------------- MODULE MailSpoolProofs ---------------------------
(***************************************************************************)
(* Proofs about MailSpool: the inductive invariant SpoolInv, from it that  *)
(* no mutex is ever contended and that a session sees its file, and that   *)
(* the two servers implement Maildrop.                                     *)
(***************************************************************************)
EXTENDS MailSpool, TLAPS, SequenceTheorems

-----------------------------------------------------------------------------
(* Type correctness.                                                       *)

(* A connection that has just been accepted is well typed.                  *)
LEMMA NewTypes == NewSmtp \in SmtpThread /\ NewPop \in PopThread
  BY DEF NewSmtp, NewPop, SmtpThread, PopThread

(* What a client says to the SMTP server keeps the types.                   *)
LEMMA SmtpClientTypes ==
  ASSUME TypeOK, NEW c \in Smtp, SmtpClient(c)
  PROVE  TypeOK'
<1> USE SpoolAssumption
<1>1. smtp \in [Smtp -> SmtpThread]
  BY DEF TypeOK
<1>2. ASSUME NEW t \in SmtpThread, smtp' = [smtp EXCEPT ![c] = t], SmtpOnly
      PROVE  TypeOK'
  BY <1>1, <1>2 DEF TypeOK, SmtpOnly, files
<1>3. CASE Helo(c)
  <2>1. [smtp[c] EXCEPT !.state = "HELO"] \in SmtpThread
    BY <1>1 DEF SmtpThread
  <2> QED BY <1>2, <1>3, <2>1 DEF Helo
<1>4. CASE MailFrom(c)
  <2>1. mails + 1 \in Nat
    BY DEF TypeOK
  <2>2. [smtp[c] EXCEPT !.state = "MAIL FROM", !.from = mails + 1] \in SmtpThread
    BY <1>1, <2>1 DEF SmtpThread
  <2>3. smtp' \in [Smtp -> SmtpThread]
    BY <1>1, <1>4, <2>2 DEF MailFrom
  <2> QED BY <1>4, <2>1, <2>3 DEF MailFrom, TypeOK, files
<1>5. ASSUME NEW b \in Box, RcptTo(c, b) PROVE TypeOK'
  <2>0. smtp[c].rcpts \in Seq(Box)
    BY <1>1 DEF SmtpThread
  <2>1. Append(smtp[c].rcpts, b) \in Seq(Box)
    BY <2>0, AppendProperties
  <2>2. [smtp[c] EXCEPT !.state = "RCPT TO", !.rcpts = Append(@, b)] \in SmtpThread
    BY <1>1, <2>1 DEF SmtpThread
  <2> QED BY <1>2, <1>5, <2>2 DEF RcptTo
<1>6. CASE Data(c)
  <2>1. [smtp[c] EXCEPT !.state = "DATA", !.receiving = TRUE] \in SmtpThread
    BY <1>1 DEF SmtpThread
  <2> QED BY <1>2, <1>6, <2>1 DEF Data
<1>7. CASE Line(c)
  <2>0. smtp[c].data \in Seq(Nat) /\ smtp[c].from \in Nat
    BY <1>1 DEF SmtpThread
  <2>1. Append(smtp[c].data, smtp[c].from) \in Seq(Nat)
    BY <2>0, AppendProperties
  <2>2. [smtp[c] EXCEPT !.data = Append(@, smtp[c].from)] \in SmtpThread
    BY <1>1, <2>1 DEF SmtpThread
  <2> QED BY <1>2, <1>7, <2>2 DEF Line
<1>8. CASE Dot(c)
  <2>1. [smtp[c] EXCEPT !.receiving = FALSE, !.at = "flock"] \in SmtpThread
    BY <1>1 DEF SmtpThread
  <2> QED BY <1>2, <1>8, <2>1 DEF Dot
<1>9. CASE RsetMail(c)
  <2>1. [NewSmtp EXCEPT !.state = "HELO"] \in SmtpThread
    BY NewTypes DEF SmtpThread
  <2> QED BY <1>2, <1>9, <2>1 DEF RsetMail
<1>10. CASE QuitSmtp(c)
  BY <1>2, <1>10, NewTypes DEF QuitSmtp
<1> QED BY <1>3, <1>4, <1>5, <1>6, <1>7, <1>8, <1>9, <1>10, SmtpClient(c) DEF SmtpClient

(* What the SMTP server does while it delivers keeps the types.             *)
LEMMA SmtpServerTypes ==
  ASSUME TypeOK, NEW c \in Smtp, DeliverFlock(c) \/ SmtpServer(c),
         smtp[c].at \in {"mutex", "append", "unlock"} => Recipient(c) \in Box
  PROVE  TypeOK'
<1> USE SpoolAssumption
<1>1. smtp \in [Smtp -> SmtpThread]
  BY DEF TypeOK
<1>2. \A s \in {"read", "flock", "mutex", "append", "unlock"} :
        [smtp[c] EXCEPT !.at = s] \in SmtpThread
  BY <1>1 DEF SmtpThread
<1>3. smtp[c].next + 1 \in Nat \ {0}
  <2>1. smtp[c].next \in Nat \ {0}
    BY <1>1 DEF SmtpThread
  <2> QED BY <2>1
<1>4. CASE DeliverFlock(c)
  <2>1. smtp' \in [Smtp -> SmtpThread]
    BY <1>1, <1>2, <1>4 DEF DeliverFlock
  <2>2. flock' \in [Box -> Smtp \cup Pop \cup {NoConn}]
    BY <1>4 DEF DeliverFlock, TypeOK
  <2> QED BY <2>1, <2>2, <1>4 DEF DeliverFlock, TypeOK
<1>5. CASE DeliverMutex(c)
  <2>1. smtp' \in [Smtp -> SmtpThread]
    BY <1>1, <1>2, <1>5 DEF DeliverMutex
  <2>2. smtpMutex' \in [Box -> Smtp \cup {NoConn}]
    BY <1>5 DEF DeliverMutex, TypeOK
  <2> QED BY <2>1, <2>2, <1>5 DEF DeliverMutex, TypeOK
<1>6. CASE DeliverAppend(c)
  <2> DEFINE m == [from |-> smtp[c].from, data |-> smtp[c].data]
  <2>1. smtp' \in [Smtp -> SmtpThread]
    BY <1>1, <1>2, <1>6 DEF DeliverAppend
  <2>2. smtpMutex' \in [Box -> Smtp \cup {NoConn}]
    BY <1>6 DEF DeliverAppend, TypeOK
  <2>3. m \in Mail
    BY <1>1 DEF SmtpThread, Mail
  <2>4. \A b \in Box : Append(file[b], m) \in Seq(Mail)
    <3> HIDE DEF m
    <3> QED BY <2>3, AppendProperties DEF TypeOK
  <2>5. file' \in [Box -> Seq(Mail)]
    BY <2>4, <1>6 DEF DeliverAppend, TypeOK
  <2> QED BY <2>1, <2>2, <2>5, <1>6 DEF DeliverAppend, TypeOK
<1>7. CASE DeliverUnlock(c)
  <2>1. [smtp[c] EXCEPT !.at = "flock", !.next = @ + 1] \in SmtpThread
    BY <1>1, <1>3 DEF SmtpThread
  <2>2. smtp' \in [Smtp -> SmtpThread]
    BY <1>1, <2>1, <1>7 DEF DeliverUnlock
  <2>3. flock' \in [Box -> Smtp \cup Pop \cup {NoConn}]
    BY <1>7 DEF DeliverUnlock, TypeOK
  <2> QED BY <2>2, <2>3, <1>7 DEF DeliverUnlock, TypeOK
<1>8. CASE Delivered(c)
  <2>0. 1 \in Nat \ {0} /\ smtp[c] \in SmtpThread
    BY <1>1
  <2>1. [smtp[c] EXCEPT !.at = "read", !.state = "HELO", !.next = 1] \in SmtpThread
    BY <2>0 DEF SmtpThread
  <2>2. smtp' \in [Smtp -> SmtpThread]
    BY <1>1, <2>1, <1>8 DEF Delivered
  <2> QED BY <2>2, <1>8 DEF Delivered, SmtpOnly, files, TypeOK
<1> QED BY <1>4, <1>5, <1>6, <1>7, <1>8 DEF SmtpServer

(* What a client says to the POP3 server keeps the types.                   *)
LEMMA PopClientTypes ==
  ASSUME TypeOK, NEW p \in Pop, PopClient(p)
  PROVE  TypeOK'
<1> USE SpoolAssumption
<1>1. pop \in [Pop -> PopThread]
  BY DEF TypeOK
<1>2. ASSUME NEW t \in PopThread, pop' = [pop EXCEPT ![p] = t], PopOnly
      PROVE  TypeOK'
  BY <1>1, <1>2 DEF TypeOK, PopOnly, files
<1>3. pop[p] \in PopThread
  BY <1>1
<1>4. \A u \in Box \cup {NoBox} : [pop[p] EXCEPT !.user = u] \in PopThread
  BY <1>3 DEF PopThread
<1>5. CASE WrongPass(p)
  BY <1>2, <1>4, <1>5 DEF WrongPass
<1>6. CASE Pass(p)
  <2>1. [pop[p] EXCEPT !.at = "flock"] \in PopThread
    BY <1>3 DEF PopThread
  <2> QED BY <1>2, <1>6, <2>1 DEF Pass
<1>7. CASE RsetMarks(p)
  <2>1. [pop[p] EXCEPT !.marked = {}] \in PopThread
    BY <1>3 DEF PopThread
  <2> QED BY <1>2, <1>7, <2>1 DEF RsetMarks
<1>8. CASE QuitUnread(p)
  BY <1>2, <1>8, NewTypes DEF QuitUnread
<1>9. CASE Quit(p)
  <2>1. [pop[p] EXCEPT !.state = "UPDATE", !.at = "quit"] \in PopThread
    BY <1>3 DEF PopThread
  <2> QED BY <1>2, <1>9, <2>1 DEF Quit
<1>10. ASSUME NEW b \in Box, UserName(p, b) PROVE TypeOK'
  BY <1>2, <1>4, <1>10 DEF UserName
<1>11. ASSUME NEW i \in DOMAIN pop[p].emails, Dele(p, i) PROVE TypeOK'
  <2>1. pop[p].emails \in Seq(Mail) /\ pop[p].marked \in SUBSET Nat
    BY <1>3 DEF PopThread
  <2>2. i \in Nat
    BY <2>1
  <2>3. pop[p].marked \cup {i} \in SUBSET Nat
    BY <2>1, <2>2
  <2>4. [pop[p] EXCEPT !.marked = @ \cup {i}] \in PopThread
    BY <1>3, <2>3 DEF PopThread
  <2> QED BY <1>2, <1>11, <2>4 DEF Dele
<1> QED BY <1>5, <1>6, <1>7, <1>8, <1>9, <1>10, <1>11, PopClient(p) DEF PopClient

(* What the POP3 server does at PASS and at QUIT keeps the types.           *)
LEMMA PopServerTypes ==
  ASSUME TypeOK, NEW p \in Pop, PassFlock(p) \/ PopServer(p),
         pop[p].at # "read" => pop[p].user \in Box
  PROVE  TypeOK'
<1> USE SpoolAssumption
<1>1. pop \in [Pop -> PopThread] /\ pop[p] \in PopThread
  BY DEF TypeOK
<1>2. \A s \in {"read", "flock", "trylock", "load", "quit", "write", "unlock"} :
        \A u \in Box \cup {NoBox} :
          /\ [pop[p] EXCEPT !.at = s] \in PopThread
          /\ [pop[p] EXCEPT !.at = s, !.user = u] \in PopThread
  BY <1>1 DEF PopThread
<1>3. pop[p].user \in Box \cup {NoBox}
  BY <1>1 DEF PopThread
<1>4. /\ \A b : [popMutex EXCEPT ![b] = p] \in [Box -> Pop \cup {NoConn}]
      /\ \A b : [popMutex EXCEPT ![b] = NoConn] \in [Box -> Pop \cup {NoConn}]
      /\ popMutex \in [Box -> Pop \cup {NoConn}]
  BY DEF TypeOK
<1>5. CASE PassFlock(p)
  <2>1. pop' \in [Pop -> PopThread]
    BY <1>1, <1>2, <1>5 DEF PassFlock
  <2>2. flock' \in [Box -> Smtp \cup Pop \cup {NoConn}]
    BY <1>5 DEF PassFlock, TypeOK
  <2> QED BY <2>1, <2>2, <1>5 DEF PassFlock, TypeOK
<1>6. CASE PassTrylock(p)
  <2>1. pop' \in [Pop -> PopThread]
    BY <1>1, <1>2, <1>3, <1>6 DEF PassTrylock
  <2>2. popMutex' \in [Box -> Pop \cup {NoConn}]
    BY <1>4, <1>6 DEF PassTrylock
  <2> QED BY <2>1, <2>2, <1>6 DEF PassTrylock, TypeOK
<1>7. CASE PassRead(p)
  <2>0. pop[p].user \in Box
    BY <1>7 DEF PassRead
  <2>1. file[pop[p].user] \in Seq(Mail)
    BY <2>0 DEF TypeOK
  <2>2. [pop[p] EXCEPT !.at = "read", !.state = "TRANSACTION",
                       !.emails = file[pop[p].user]] \in PopThread
    BY <1>1, <2>1 DEF PopThread
  <2>3. pop' \in [Pop -> PopThread]
    BY <1>1, <2>2, <1>7 DEF PassRead
  <2>4. popMutex' \in [Box -> Pop \cup {NoConn}]
    BY <1>4, <1>7 DEF PassRead
  <2> QED BY <2>3, <2>4, <1>7 DEF PassRead, TypeOK
<1>8. CASE UpdateTruncate(p)
  <2>0. 1 \in Nat \ {0} /\ <<>> \in Seq(Mail)
    OBVIOUS
  <2>1. [pop[p] EXCEPT !.at = "write", !.next = 1] \in PopThread
    BY <1>1, <2>0 DEF PopThread
  <2>2. pop' \in [Pop -> PopThread]
    BY <1>1, <2>1, NewTypes, <1>8 DEF UpdateTruncate
  <2>3. popMutex' \in [Box -> Pop \cup {NoConn}]
    BY <1>4, <1>8 DEF UpdateTruncate
  <2>4. file' \in [Box -> Seq(Mail)]
    BY <2>0, <1>8 DEF UpdateTruncate, TypeOK
  <2> QED BY <2>2, <2>3, <2>4, <1>8 DEF UpdateTruncate, TypeOK
<1>9. CASE UpdateWrite(p)
  <2> DEFINE i == pop[p].next
  <2>1. i \in Nat \ {0} /\ pop[p].emails \in Seq(Mail)
    BY <1>1 DEF PopThread
  <2>2. i + 1 \in Nat \ {0} /\ i <= Len(pop[p].emails)
    BY <2>1, <1>9 DEF UpdateWrite
  <2>3. pop[p].emails[i] \in Mail
    BY <2>1, <2>2, ElementOfSeq
  <2>4. [pop[p] EXCEPT !.next = i + 1] \in PopThread
    <3> HIDE DEF i
    <3> QED BY <1>1, <2>2 DEF PopThread
  <2>5. pop' \in [Pop -> PopThread]
    BY <1>1, <2>4, <1>9 DEF UpdateWrite
  <2>6. \A b \in Box : Append(file[b], pop[p].emails[i]) \in Seq(Mail)
    <3> HIDE DEF i
    <3> QED BY <2>3, AppendProperties DEF TypeOK
  <2>7. file' \in [Box -> Seq(Mail)]
    BY <2>6, <1>9 DEF UpdateWrite, TypeOK
  <2> QED BY <2>5, <2>7, <1>9 DEF UpdateWrite, TypeOK
<1>10. CASE UpdateClose(p)
  <2>1. pop' \in [Pop -> PopThread]
    BY <1>1, <1>2, <1>10 DEF UpdateClose
  <2>2. popMutex' \in [Box -> Pop \cup {NoConn}]
    BY <1>4, <1>10 DEF UpdateClose
  <2> QED BY <2>1, <2>2, <1>10 DEF UpdateClose, TypeOK
<1>11. CASE UpdateUnlock(p)
  <2>1. pop' \in [Pop -> PopThread]
    BY <1>1, NewTypes, <1>11 DEF UpdateUnlock
  <2>2. flock' \in [Box -> Smtp \cup Pop \cup {NoConn}]
    BY <1>11 DEF UpdateUnlock, TypeOK
  <2> QED BY <2>1, <2>2, <1>11 DEF UpdateUnlock, TypeOK
<1> QED BY <1>5, <1>6, <1>7, <1>8, <1>9, <1>10, <1>11 DEF PopServer

(* A crash keeps the types.                                                 *)
LEMMA CrashTypes ==
  ASSUME TypeOK, SmtpCrash \/ PopCrash
  PROVE  TypeOK'
<1>1. /\ \A dead : Released(flock, dead) \in [Box -> Smtp \cup Pop \cup {NoConn}]
      /\ crashes \in Nat => crashes + 1 \in Nat
  BY DEF TypeOK, Released
<1>2. CASE SmtpCrash
  BY <1>1, <1>2, NewTypes DEF SmtpCrash, TypeOK
<1>3. CASE PopCrash
  BY <1>1, <1>3, NewTypes DEF PopCrash, TypeOK
<1> QED BY <1>2, <1>3

-----------------------------------------------------------------------------
(* The inductive invariant.                                                *)

(* The recipient a thread has come to is a mailbox.                         *)
LEMMA RecipientIsBox ==
  ASSUME TypeOK, NEW c \in Smtp, smtp[c].next <= Len(smtp[c].rcpts)
  PROVE  Recipient(c) \in Box
<1>1. smtp[c].rcpts \in Seq(Box) /\ smtp[c].next \in Nat \ {0}
  BY DEF TypeOK, SmtpThread
<1> QED BY <1>1, ElementOfSeq DEF Recipient

(* A client of the SMTP server holds no lock and takes none.                *)
LEMMA SmtpClientInv ==
  ASSUME SpoolInv, NEW c \in Smtp, SmtpClient(c)
  PROVE  SpoolInv'
<1>1. TypeOK'
  BY SmtpClientTypes DEF SpoolInv
<1>2. UNCHANGED <<pop, files>>
  BY DEF SmtpClient, SmtpOnly, Helo, MailFrom, Data, Line, Dot, RsetMail, QuitSmtp, RcptTo
<1>3. /\ smtp[c].at = "read" /\ smtp'[c].at \in {"read", "flock"}
      /\ \A d \in Smtp \ {c} : smtp'[d] = smtp[d]
  <2>1. smtp \in [Smtp -> SmtpThread] /\ smtp[c] \in SmtpThread
    BY DEF SpoolInv, TypeOK
  <2>2. smtp[c].at = "read"
    BY DEF SmtpClient, Reads, Helo, MailFrom, Data, Line, Dot, RsetMail, QuitSmtp, RcptTo
  <2>3. CASE Helo(c)
    BY <2>1, <2>2, <2>3 DEF SmtpThread, Helo
  <2>4. CASE MailFrom(c)
    BY <2>1, <2>2, <2>4 DEF SmtpThread, MailFrom
  <2>5. CASE Data(c)
    BY <2>1, <2>2, <2>5 DEF SmtpThread, Data
  <2>6. CASE Line(c)
    BY <2>1, <2>2, <2>6 DEF SmtpThread, Line
  <2>7. CASE Dot(c)
    BY <2>1, <2>2, <2>7 DEF SmtpThread, Dot
  <2>8. CASE RsetMail(c) \/ QuitSmtp(c)
    BY <2>1, <2>2, <2>8 DEF NewSmtp, RsetMail, QuitSmtp
  <2>9. ASSUME NEW b \in Box, RcptTo(c, b)
        PROVE  smtp'[c].at = "read" /\ \A d \in Smtp \ {c} : smtp'[d] = smtp[d]
    BY <2>1, <2>2, <2>9 DEF SmtpThread, RcptTo
  <2> QED BY <2>2, <2>3, <2>4, <2>5, <2>6, <2>7, <2>8, <2>9 DEF SmtpClient
<1>4. ASSUME NEW d \in Smtp PROVE SmtpInv(d)'
  <2>1. CASE d = c
    BY <1>2, <1>3, <2>1 DEF SpoolInv, SmtpInv, files
  <2>2. CASE d # c
    BY <1>2, <1>3, <2>2 DEF SpoolInv, SmtpInv, Recipient, files
  <2> QED BY <2>1, <2>2
<1>5. ASSUME NEW p \in Pop PROVE PopInv(p)'
  BY <1>2 DEF SpoolInv, PopInv, InSession, files
<1>6. SessionView'
  BY <1>2 DEF SpoolInv, SessionView, files
<1> QED BY <1>1, <1>4, <1>5, <1>6 DEF SpoolInv

(* The part of SessionView that is about one session.                       *)
Sees(p) ==
  (pop[p].state = "TRANSACTION" \/ pop[p].at = "quit")
     => pop[p].emails = file[pop[p].user]

(* A thread of the SMTP server that does not move, whose locks stay, keeps  *)
(* its part of the invariant.                                               *)
LEMMA SmtpFrame ==
  ASSUME TypeOK, NEW d \in Smtp, SmtpInv(d), smtp'[d] = smtp[d],
         \A b \in Box : smtpMutex'[b] = d <=> smtpMutex[b] = d,
         \A b \in Box : flock[b] = d => flock'[b] = d
  PROVE  SmtpInv(d)'
<1>1. smtp[d].next <= Len(smtp[d].rcpts) => Recipient(d) \in Box
  BY RecipientIsBox
<1>2. Recipient(d)' = Recipient(d)
  BY DEF Recipient
<1> QED BY <1>1, <1>2 DEF SmtpInv

(* The same for POP3; what it holds nobody else writes.                     *)
LEMMA PopFrame ==
  ASSUME NEW p \in Pop, PopInv(p), Sees(p), pop'[p] = pop[p],
         \A b \in Box : popMutex'[b] = p <=> popMutex[b] = p,
         \A b \in Box : flock[b] = p => flock'[b] = p /\ file'[b] = file[b]
  PROVE  PopInv(p)' /\ Sees(p)'
<1>1. pop[p].at \in {"trylock", "load"} \/ InSession(p) =>
        /\ pop[p].user \in Box
        /\ flock'[pop[p].user] = p
        /\ file'[pop[p].user] = file[pop[p].user]
  BY DEF PopInv
<1>2. pop[p].at \in {"quit", "write", "unlock"} => InSession(p)
  BY DEF PopInv, InSession
<1>3. pop[p].state = "TRANSACTION" => InSession(p)
  BY DEF InSession
<1>4. InSession(p)' <=> InSession(p)
  BY DEF InSession
<1>5. Sees(p)'
  BY <1>1, <1>2, <1>3 DEF Sees
<1>6. PopInv(p)'
  BY <1>1, <1>2, <1>4 DEF PopInv
<1> QED BY <1>5, <1>6

(* The server's steps in a delivery.                                        *)
LEMMA SmtpServerInv ==
  ASSUME SpoolInv, NEW c \in Smtp, DeliverFlock(c) \/ SmtpServer(c)
  PROVE  SpoolInv'
<1> USE SpoolAssumption
<1> DEFINE r == Recipient(c)
<1>1. /\ TypeOK /\ smtp[c] \in SmtpThread /\ smtp \in [Smtp -> SmtpThread]
      /\ \A d \in Smtp : SmtpInv(d)
      /\ \A p \in Pop : PopInv(p) /\ Sees(p)
  BY DEF SpoolInv, TypeOK, SessionView, Sees
<1>2. smtp[c].at \in {"mutex", "append", "unlock"} => r \in Box /\ flock[r] = c
  BY <1>1, RecipientIsBox DEF SmtpInv
<1>3. TypeOK'
  BY <1>1, <1>2, SmtpServerTypes
<1>4. SUFFICES ASSUME TRUE
               PROVE  /\ \A d \in Smtp : SmtpInv(d)'
                      /\ \A p \in Pop : PopInv(p)' /\ Sees(p)'
  BY <1>3 DEF SpoolInv, SessionView, Sees
<1>5. CASE DeliverFlock(c)
  <2>1. r \in Box /\ flock[r] = NoConn
    BY <1>1, <1>5, RecipientIsBox DEF DeliverFlock
  <2>2. /\ \A b \in Box : flock'[b] = IF b = r THEN c ELSE flock[b]
        /\ smtp' = [smtp EXCEPT ![c] = [smtp[c] EXCEPT !.at = "mutex"]]
        /\ UNCHANGED <<pop, file, smtpMutex, popMutex>>
    BY <1>1, <1>5 DEF DeliverFlock, TypeOK
  <2>3. ASSUME NEW d \in Smtp PROVE SmtpInv(d)'
    <3>1. CASE d # c
      BY <1>1, <2>1, <2>2, <3>1, SmtpFrame
    <3>2. CASE d = c
      <4>1. /\ smtp'[c].at = "mutex" /\ smtp'[c].next = smtp[c].next
            /\ smtp'[c].rcpts = smtp[c].rcpts
        BY <1>1, <2>2 DEF SmtpThread
      <4>2. Recipient(c)' = r
        BY <4>1 DEF Recipient
      <4>3. smtp[c].next <= Len(smtp[c].rcpts) /\ smtp[c].at = "flock"
        BY <1>5 DEF DeliverFlock
      <4> HIDE DEF r
      <4> QED BY <1>1, <2>1, <2>2, <3>2, <4>1, <4>2, <4>3 DEF SmtpInv
    <3> QED BY <3>1, <3>2
  <2>4. ASSUME NEW p \in Pop PROVE PopInv(p)' /\ Sees(p)'
    BY <1>1, <2>1, <2>2, PopFrame
  <2> QED BY <2>3, <2>4
<1>6. CASE DeliverMutex(c)
  <2>1. /\ smtp[c].at = "mutex" /\ r \in Box /\ smtpMutex[r] = NoConn
        /\ \A b \in Box : smtpMutex'[b] = IF b = r THEN c ELSE smtpMutex[b]
        /\ smtp' = [smtp EXCEPT ![c] = [smtp[c] EXCEPT !.at = "append"]]
        /\ UNCHANGED <<pop, file, flock, popMutex>>
    BY <1>1, <1>2, <1>6 DEF DeliverMutex, TypeOK
  <2>3. ASSUME NEW d \in Smtp PROVE SmtpInv(d)'
    <3>1. CASE d # c
      BY <1>1, <2>1, <3>1, SmtpFrame
    <3>2. CASE d = c
      <4>1. /\ smtp'[c].at = "append" /\ smtp'[c].next = smtp[c].next
            /\ smtp'[c].rcpts = smtp[c].rcpts
        BY <1>1, <2>1 DEF SmtpThread
      <4>2. Recipient(c)' = r
        BY <4>1 DEF Recipient
      <4> HIDE DEF r
      <4>3. smtp[c].next <= Len(smtp[c].rcpts) /\ flock[r] = c
        BY <1>1, <1>2, <2>1 DEF SmtpInv
      <4> QED BY <1>1, <2>1, <3>2, <4>1, <4>2, <4>3 DEF SmtpInv
    <3> QED BY <3>1, <3>2
  <2>4. ASSUME NEW p \in Pop PROVE PopInv(p)' /\ Sees(p)'
    BY <1>1, <2>1, PopFrame
  <2> QED BY <2>3, <2>4
<1>7. CASE DeliverAppend(c)
  <2>1. /\ smtp[c].at = "append" /\ r \in Box /\ flock[r] = c
        /\ \A b \in Box : smtpMutex'[b] = IF b = r THEN NoConn ELSE smtpMutex[b]
        /\ \A b \in Box : b # r => file'[b] = file[b]
        /\ smtp' = [smtp EXCEPT ![c] = [smtp[c] EXCEPT !.at = "unlock"]]
        /\ UNCHANGED <<pop, flock, popMutex>>
    BY <1>1, <1>2, <1>7 DEF DeliverAppend, TypeOK
  <2>2. smtpMutex[r] = c
    BY <1>1, <2>1 DEF SmtpInv
  <2>3. ASSUME NEW d \in Smtp PROVE SmtpInv(d)'
    <3>1. CASE d # c
      BY <1>1, <2>1, <2>2, <3>1, SmtpFrame
    <3>2. CASE d = c
      <4>1. /\ smtp'[c].at = "unlock" /\ smtp'[c].next = smtp[c].next
            /\ smtp'[c].rcpts = smtp[c].rcpts
        BY <1>1, <2>1 DEF SmtpThread
      <4>2. Recipient(c)' = r
        BY <4>1 DEF Recipient
      <4>3. \A b \in Box : smtpMutex[b] = c <=> r = b
        BY <1>1, <2>1 DEF SmtpInv
      <4>4. smtp[c].next <= Len(smtp[c].rcpts)
        BY <1>1, <2>1 DEF SmtpInv
      <4> HIDE DEF r
      <4> QED BY <1>1, <2>1, <3>2, <4>1, <4>2, <4>3, <4>4 DEF SmtpInv
    <3> QED BY <3>1, <3>2
  <2>4. ASSUME NEW p \in Pop PROVE PopInv(p)' /\ Sees(p)'
    BY <1>1, <2>1, PopFrame
  <2> QED BY <2>3, <2>4
<1>8. CASE DeliverUnlock(c)
  <2>1. /\ smtp[c].at = "unlock" /\ r \in Box /\ flock[r] = c
        /\ \A b \in Box : flock'[b] = IF b = r THEN NoConn ELSE flock[b]
        /\ smtp' = [smtp EXCEPT ![c] = [smtp[c] EXCEPT !.at = "flock", !.next = @ + 1]]
        /\ UNCHANGED <<pop, file, smtpMutex, popMutex>>
    BY <1>1, <1>2, <1>8 DEF DeliverUnlock, TypeOK
  <2>3. ASSUME NEW d \in Smtp PROVE SmtpInv(d)'
    <3>1. CASE d # c
      BY <1>1, <2>1, <3>1, SmtpFrame
    <3>2. CASE d = c
      <4>1. smtp'[c].at = "flock"
        BY <1>1, <2>1 DEF SmtpThread
      <4> HIDE DEF r
      <4> QED BY <1>1, <2>1, <3>2, <4>1 DEF SmtpInv
    <3> QED BY <3>1, <3>2
  <2>4. ASSUME NEW p \in Pop PROVE PopInv(p)' /\ Sees(p)'
    BY <1>1, <2>1, PopFrame
  <2> QED BY <2>3, <2>4
<1>9. CASE Delivered(c)
  <2>1. /\ smtp[c].at = "flock"
        /\ smtp' = [smtp EXCEPT ![c] = [smtp[c] EXCEPT !.at = "read", !.state = "HELO",
                                                       !.next = 1]]
        /\ UNCHANGED <<pop, file, flock, smtpMutex, popMutex>>
    BY <1>1, <1>9 DEF Delivered, SmtpOnly, files
  <2>3. ASSUME NEW d \in Smtp PROVE SmtpInv(d)'
    <3>1. CASE d # c
      BY <1>1, <2>1, <3>1, SmtpFrame
    <3>2. CASE d = c
      <4>1. smtp'[c].at = "read"
        BY <1>1, <2>1 DEF SmtpThread
      <4> QED BY <1>1, <2>1, <3>2, <4>1 DEF SmtpInv
    <3> QED BY <3>1, <3>2
  <2>4. ASSUME NEW p \in Pop PROVE PopInv(p)' /\ Sees(p)'
    BY <1>1, <2>1, PopFrame
  <2> QED BY <2>3, <2>4
<1> QED BY <1>5, <1>6, <1>7, <1>8, <1>9 DEF SmtpServer

(* Two sessions at work on one mailbox are one session.                     *)
LEMMA OneSession ==
  ASSUME NEW p \in Pop, NEW q \in Pop, PopInv(p), PopInv(q),
         pop[p].at \in {"trylock", "load"} \/ InSession(p),
         pop[q].at \in {"trylock", "load"} \/ InSession(q),
         pop[p].user = pop[q].user
  PROVE  p = q
  BY DEF PopInv

(* A mutex of the POP3 server is held only by whoever has the flock.        *)
LEMMA MutexUnderFlock ==
  ASSUME NEW p \in Pop, \A q \in Pop : PopInv(q), popMutex \in [Box -> Pop \cup {NoConn}],
         pop[p].at \in {"trylock", "quit"}
  PROVE  popMutex[pop[p].user] = NoConn
<1> USE SpoolAssumption
<1>0. PopInv(p)
  OBVIOUS
<1>1. InSession(p) \/ pop[p].at = "trylock"
  BY <1>0 DEF PopInv, InSession
<1>2. pop[p].user \in Box /\ pop[p].at \notin {"load", "write"}
  BY <1>0, <1>1 DEF PopInv
<1>3. popMutex[pop[p].user] # p
  BY <1>0, <1>2 DEF PopInv
<1>4. ASSUME NEW q \in Pop, popMutex[pop[p].user] = q PROVE FALSE
  <2>0. PopInv(q)
    OBVIOUS
  <2>1. pop[q].at \in {"load", "write"} /\ pop[q].user = pop[p].user
    BY <2>0, <1>2, <1>4 DEF PopInv
  <2>2. InSession(q) \/ pop[q].at = "load"
    BY <2>0, <2>1 DEF PopInv, InSession
  <2>3. p = q
    BY <1>0, <2>0, <1>1, <2>1, <2>2, OneSession
  <2> QED BY <2>3, <1>3, <1>4
<1> QED BY <1>2, <1>4

(* What is left of no mail at all.                                          *)
LEMMA NoRest ==
  ASSUME NEW old, NEW gone
  PROVE  Drop!IsRest(<<>>, old, gone, 0)
<1> DEFINE h == [i \in 1..0 |-> i]
<1>1. h \in [1..Len(<<>>) -> 1..0] /\ 1..Len(<<>>) = {} /\ 1..0 = {}
  OBVIOUS
<1> HIDE DEF h
<1>2. {h[i] : i \in 1..Len(<<>>)} = (1..0) \ gone
  BY <1>1
<1>3. /\ \A i, j \in 1..Len(<<>>) : i < j => h[i] < h[j]
      /\ \A i \in 1..Len(<<>>) : <<>>[i] = old[h[i]]
  BY <1>1
<1> QED BY <1>1, <1>2, <1>3, Zenon DEF Drop!IsRest

(* A client of the POP3 server changes nothing but its session.             *)
LEMMA PopClientInv ==
  ASSUME SpoolInv, NEW p \in Pop, PopClient(p)
  PROVE  SpoolInv'
<1>1. /\ TypeOK /\ pop[p] \in PopThread /\ pop \in [Pop -> PopThread]
      /\ \A d \in Smtp : SmtpInv(d)
      /\ \A q \in Pop : PopInv(q) /\ Sees(q)
  BY DEF SpoolInv, TypeOK, SessionView, Sees
<1>2. TypeOK'
  BY <1>1, PopClientTypes
<1>3. /\ UNCHANGED <<smtp, file, flock, smtpMutex, popMutex>>
      /\ pop[p].at = "read"
  BY DEF PopClient, PopOnly, PopReads, files, WrongPass, Pass, RsetMarks, QuitUnread,
         Quit, UserName, Dele
<1>4. ASSUME NEW d \in Smtp PROVE SmtpInv(d)'
  BY <1>1, <1>3, SmtpFrame
<1>5. ASSUME NEW t, pop' = [pop EXCEPT ![p] = t], NEW q \in Pop,
             PopInv(p)' /\ Sees(p)'
      PROVE  PopInv(q)' /\ Sees(q)'
  <2>1. CASE q = p
    BY <1>5, <2>1
  <2>2. CASE q # p
    BY <1>1, <1>3, <1>5, <2>2, PopFrame
  <2> QED BY <2>1, <2>2
<1>6. ASSUME NEW q \in Pop PROVE PopInv(q)' /\ Sees(q)'
  <2>1. CASE WrongPass(p)
    <3>1. pop' = [pop EXCEPT ![p] = [pop[p] EXCEPT !.user = NoBox]]
      BY <2>1 DEF WrongPass
    <3>2. /\ pop[p].state = "AUTHORIZATION" /\ pop'[p].state = "AUTHORIZATION"
          /\ pop'[p].at = "read" /\ pop'[p].marked = pop[p].marked
          /\ pop'[p].emails = pop[p].emails
      BY <1>1, <1>3, <2>1, <3>1 DEF WrongPass, PopReads, PopThread
    <3>3. PopInv(p)' /\ Sees(p)'
      BY <1>1, <1>3, <3>2 DEF PopInv, Sees, InSession
    <3> QED BY <1>5, <3>1, <3>3
  <2>2. CASE Pass(p)
    <3>1. pop' = [pop EXCEPT ![p] = [pop[p] EXCEPT !.at = "flock"]]
      BY <2>2 DEF Pass
    <3>2. /\ pop[p].state = "AUTHORIZATION" /\ pop'[p].state = "AUTHORIZATION"
          /\ pop'[p].at = "flock" /\ pop'[p].marked = pop[p].marked
          /\ pop'[p].emails = pop[p].emails /\ pop'[p].user \in Box
      BY <1>1, <1>3, <2>2, <3>1 DEF Pass, PopReads, PopThread
    <3>3. PopInv(p)' /\ Sees(p)'
      BY <1>1, <1>3, <3>2 DEF PopInv, Sees, InSession
    <3> QED BY <1>5, <3>1, <3>3
  <2>3. CASE RsetMarks(p)
    <3>1. pop' = [pop EXCEPT ![p] = [pop[p] EXCEPT !.marked = {}]]
      BY <2>3 DEF RsetMarks
    <3>2. /\ pop[p].state = "TRANSACTION" /\ pop'[p].state = "TRANSACTION"
          /\ pop'[p].at = "read" /\ pop'[p].marked = {}
          /\ pop'[p].emails = pop[p].emails /\ pop'[p].user = pop[p].user
      BY <1>1, <1>3, <2>3, <3>1 DEF RsetMarks, PopReads, PopThread
    <3>3. PopInv(p)' /\ Sees(p)'
      BY <1>1, <1>3, <3>2 DEF PopInv, Sees, InSession
    <3> QED BY <1>5, <3>1, <3>3
  <2>4. CASE QuitUnread(p)
    <3>1. pop' = [pop EXCEPT ![p] = NewPop] /\ pop[p].state = "AUTHORIZATION"
      BY <2>4 DEF QuitUnread, PopReads
    <3>2. /\ pop'[p].state = "AUTHORIZATION" /\ pop'[p].at = "read"
          /\ pop'[p].marked = {} /\ pop'[p].emails = <<>>
      BY <1>1, <3>1 DEF NewPop
    <3>3. PopInv(p)' /\ Sees(p)'
      BY <1>1, <1>3, <3>1, <3>2 DEF PopInv, Sees, InSession
    <3> QED BY <1>5, <3>1, <3>3
  <2>5. CASE Quit(p)
    <3>1. pop' = [pop EXCEPT ![p] = [pop[p] EXCEPT !.state = "UPDATE", !.at = "quit"]]
      BY <2>5 DEF Quit
    <3>2. /\ pop[p].state = "TRANSACTION" /\ pop'[p].state = "UPDATE"
          /\ pop'[p].at = "quit" /\ pop'[p].marked = pop[p].marked
          /\ pop'[p].emails = pop[p].emails /\ pop'[p].user = pop[p].user
      BY <1>1, <1>3, <2>5, <3>1 DEF Quit, PopReads, PopThread
    <3>3. PopInv(p)' /\ Sees(p)'
      BY <1>1, <1>3, <3>2 DEF PopInv, Sees, InSession
    <3> QED BY <1>5, <3>1, <3>3
  <2>6. ASSUME NEW b \in Box, UserName(p, b) PROVE PopInv(q)' /\ Sees(q)'
    <3>1. pop' = [pop EXCEPT ![p] = [pop[p] EXCEPT !.user = b]]
      BY <2>6 DEF UserName
    <3>2. /\ pop[p].state = "AUTHORIZATION" /\ pop'[p].state = "AUTHORIZATION"
          /\ pop'[p].at = "read" /\ pop'[p].marked = pop[p].marked
          /\ pop'[p].emails = pop[p].emails
      BY <1>1, <1>3, <2>6, <3>1 DEF UserName, PopReads, PopThread
    <3>3. PopInv(p)' /\ Sees(p)'
      BY <1>1, <1>3, <3>2 DEF PopInv, Sees, InSession
    <3> QED BY <1>5, <3>1, <3>3
  <2>7. ASSUME NEW i \in DOMAIN pop[p].emails, Dele(p, i) PROVE PopInv(q)' /\ Sees(q)'
    <3>1. pop' = [pop EXCEPT ![p] = [pop[p] EXCEPT !.marked = @ \cup {i}]]
      BY <2>7 DEF Dele
    <3>2. /\ pop[p].state = "TRANSACTION" /\ pop'[p].state = "TRANSACTION"
          /\ pop'[p].at = "read" /\ pop'[p].marked = pop[p].marked \cup {i}
          /\ pop'[p].emails = pop[p].emails /\ pop'[p].user = pop[p].user
      BY <1>1, <1>3, <2>7, <3>1 DEF Dele, PopReads, PopThread
    <3>3. PopInv(p)' /\ Sees(p)'
      BY <1>1, <1>3, <3>2 DEF PopInv, Sees, InSession
    <3> QED BY <1>5, <3>1, <3>3
  <2> QED BY <2>1, <2>2, <2>3, <2>4, <2>5, <2>6, <2>7, PopClient(p) DEF PopClient
<1> QED BY <1>2, <1>4, <1>6 DEF SpoolInv, SessionView, Sees

(* A marked mail adds nothing to what is left.                              *)
LEMMA RestSkips ==
  ASSUME NEW new, NEW old, NEW gone, NEW k \in Nat \ {0}, k \in gone,
         Drop!IsRest(new, old, gone, k - 1)
  PROVE  Drop!IsRest(new, old, gone, k)
<1>1. PICK h \in [1..Len(new) -> 1..(k - 1)] :
        /\ {h[i] : i \in 1..Len(new)} = (1..(k - 1)) \ gone
        /\ \A i, j \in 1..Len(new) : i < j => h[i] < h[j]
        /\ \A i \in 1..Len(new) : new[i] = old[h[i]]
  BY DEF Drop!IsRest
<1>2. 1..(k - 1) \subseteq 1..k /\ (1..(k - 1)) \ gone = (1..k) \ gone
  OBVIOUS
<1>3. h \in [1..Len(new) -> 1..k]
  BY <1>2
<1>4. {h[i] : i \in 1..Len(new)} = (1..k) \ gone
  BY <1>1, <1>2
<1> QED BY <1>1, <1>3, <1>4 DEF Drop!IsRest

(* A mail that is not marked is the next of what is left.                   *)
LEMMA RestAppends ==
  ASSUME NEW new \in Seq(Mail), NEW old, NEW gone, NEW k \in Nat \ {0}, k \notin gone,
         old[k] \in Mail, Drop!IsRest(new, old, gone, k - 1)
  PROVE  Drop!IsRest(Append(new, old[k]), old, gone, k)
<1>1. PICK h \in [1..Len(new) -> 1..(k - 1)] :
        /\ {h[i] : i \in 1..Len(new)} = (1..(k - 1)) \ gone
        /\ \A i, j \in 1..Len(new) : i < j => h[i] < h[j]
        /\ \A i \in 1..Len(new) : new[i] = old[h[i]]
  BY DEF Drop!IsRest
<1> DEFINE n == Len(new)
           new2 == Append(new, old[k])
           g == [i \in 1..(n + 1) |-> IF i = n + 1 THEN k ELSE h[i]]
<1>2. /\ n \in Nat /\ Len(new2) = n + 1
      /\ \A i \in 1..n : new2[i] = new[i]
      /\ new2[n + 1] = old[k]
  BY AppendProperties, LenProperties
<1> HIDE DEF new2, n
<1>3. \A i \in 1..n : h[i] \in 1..(k - 1)
  BY <1>1 DEF n
<1>4. g \in [1..(n + 1) -> 1..k]
  BY <1>2, <1>3
<1>5. g[n + 1] = k /\ \A i \in 1..n : g[i] = h[i]
  BY <1>2
<1> HIDE DEF g
<1>6. {g[i] : i \in 1..(n + 1)} = (1..k) \ gone
  <2>1. ASSUME NEW x \in (1..k) \ gone PROVE x \in {g[i] : i \in 1..(n + 1)}
    <3>1. CASE x = k
      BY <1>2, <1>5, <3>1
    <3>2. CASE x # k
      <4>1. x \in (1..(k - 1)) \ gone
        BY <3>2
      <4>2. PICK i \in 1..n : x = h[i]
        BY <1>1, <4>1 DEF n
      <4>3. i \in 1..(n + 1)
        BY <1>2
      <4> QED BY <1>5, <4>2, <4>3
    <3> QED BY <3>1, <3>2
  <2>2. ASSUME NEW i \in 1..(n + 1) PROVE g[i] \in (1..k) \ gone
    <3>1. CASE i = n + 1
      BY <1>5, <3>1
    <3>2. CASE i # n + 1
      <4>1. i \in 1..n
        BY <1>2, <3>2
      <4>2. h[i] \in (1..(k - 1)) \ gone
        BY <1>1, <4>1 DEF n
      <4> QED BY <1>5, <4>1, <4>2
    <3> QED BY <3>1, <3>2
  <2> QED BY <2>1, <2>2
<1>7. ASSUME NEW i \in 1..(n + 1), NEW j \in 1..(n + 1), i < j PROVE g[i] < g[j]
  <2>1. i \in 1..n
    BY <1>2, <1>7
  <2>2. CASE j = n + 1
    BY <1>3, <1>5, <2>1, <2>2
  <2>3. CASE j # n + 1
    <3>1. j \in 1..n
      BY <1>2, <2>3
    <3> QED BY <1>1, <1>5, <1>7, <2>1, <3>1 DEF n
  <2> QED BY <2>2, <2>3
<1>8. ASSUME NEW i \in 1..(n + 1) PROVE new2[i] = old[g[i]]
  <2>1. CASE i = n + 1
    BY <1>2, <1>5, <2>1
  <2>2. CASE i # n + 1
    <3>1. i \in 1..n
      BY <1>2, <2>2
    <3> QED BY <1>1, <1>2, <1>5, <3>1 DEF n
  <2> QED BY <2>1, <2>2
<1>9. Drop!IsRest(new2, old, gone, k)
  BY <1>2, <1>4, <1>6, <1>7, <1>8 DEF Drop!IsRest
<1> QED BY <1>9 DEF new2

(* The steps of PASS and of QUIT.                                           *)
LEMMA PopServerInv ==
  ASSUME SpoolInv, NEW p \in Pop, PassFlock(p) \/ PopServer(p)
  PROVE  SpoolInv'
<1> USE SpoolAssumption
<1> DEFINE u == pop[p].user
<1>1. /\ TypeOK /\ pop[p] \in PopThread /\ pop \in [Pop -> PopThread]
      /\ \A d \in Smtp : SmtpInv(d)
      /\ \A q \in Pop : PopInv(q) /\ Sees(q)
      /\ PopInv(p) /\ Sees(p)
  BY DEF SpoolInv, TypeOK, SessionView, Sees
<1>2. pop[p].at # "read" => u \in Box
  BY <1>1 DEF PopInv
<1>3. pop[p].at \in {"trylock", "load", "quit", "write", "unlock"} => flock[u] = p
  BY <1>1 DEF PopInv, InSession
<1>4. TypeOK'
  BY <1>1, <1>2, PopServerTypes
<1>5. /\ popMutex \in [Box -> Pop \cup {NoConn}]
      /\ flock \in [Box -> Smtp \cup Pop \cup {NoConn}]
      /\ file \in [Box -> Seq(Mail)]
  BY <1>1 DEF TypeOK
<1>6. pop[p].at \in {"trylock", "quit"} => popMutex[u] = NoConn
  BY <1>1, <1>5, MutexUnderFlock
<1>0. PopInv(p) /\ Sees(p)
  BY <1>1
<1>7. ASSUME NEW t, pop' = [pop EXCEPT ![p] = t], PopInv(p)', Sees(p)',
             UNCHANGED <<smtp, smtpMutex>>,
             \A b \in Box : \A c \in (Smtp \cup Pop) \ {p} :
               flock[b] = c => flock'[b] = c /\ file'[b] = file[b],
             \A b \in Box : \A c \in Pop \ {p} : popMutex'[b] = c <=> popMutex[b] = c
      PROVE  SpoolInv'
  <2>1. ASSUME NEW d \in Smtp PROVE SmtpInv(d)'
    BY <1>1, <1>7, SmtpFrame
  <2>2. ASSUME NEW q \in Pop PROVE PopInv(q)' /\ Sees(q)'
    <3>1. CASE q = p
      BY <1>7, <3>1
    <3>2. CASE q # p
      <4>1. pop'[q] = pop[q]
        BY <1>1, <1>7, <3>2
      <4> QED BY <1>1, <1>7, <3>2, <4>1, PopFrame
    <3> QED BY <3>1, <3>2
  <2> QED BY <1>4, <2>1, <2>2 DEF SpoolInv, SessionView, Sees
<1>8. CASE PassFlock(p)
  <2>1. /\ pop[p].at = "flock" /\ u \in Box /\ flock[u] = NoConn
        /\ pop' = [pop EXCEPT ![p] = [pop[p] EXCEPT !.at = "trylock"]]
        /\ \A b \in Box : flock'[b] = IF b = u THEN p ELSE flock[b]
        /\ UNCHANGED <<smtp, file, smtpMutex, popMutex>>
    BY <1>2, <1>5, <1>8 DEF PassFlock
  <2>2. /\ pop'[p].at = "trylock" /\ pop'[p].user = u
        /\ pop'[p].state = pop[p].state /\ pop'[p].emails = pop[p].emails
        /\ pop'[p].marked = pop[p].marked
    BY <1>1, <2>1 DEF PopThread
  <2>3. PopInv(p)' /\ Sees(p)'
    BY <1>0, <2>1, <2>2 DEF PopInv, Sees, InSession
  <2> QED BY <1>7, <2>1, <2>3
<1>9. CASE PassTrylock(p)
  <2>1. /\ pop[p].at = "trylock" /\ u \in Box /\ flock[u] = p
        /\ pop' = [pop EXCEPT ![p] = [pop[p] EXCEPT !.at = "load", !.user = u]]
        /\ \A b \in Box : popMutex'[b] = IF b = u THEN p ELSE popMutex[b]
        /\ popMutex[u] = NoConn
        /\ UNCHANGED <<smtp, file, smtpMutex, flock>>
    BY <1>2, <1>3, <1>5, <1>6, <1>9 DEF PassTrylock
  <2>2. /\ pop'[p].at = "load" /\ pop'[p].user = u
        /\ pop'[p].state = pop[p].state /\ pop'[p].emails = pop[p].emails
        /\ pop'[p].marked = pop[p].marked
    BY <1>1, <2>1 DEF PopThread
  <2>3. PopInv(p)' /\ Sees(p)'
    BY <1>0, <2>1, <2>2 DEF PopInv, Sees, InSession
  <2> QED BY <1>7, <2>1, <2>3
<1>10. CASE PassRead(p)
  <2>1. /\ pop[p].at = "load" /\ u \in Box /\ flock[u] = p
        /\ pop' = [pop EXCEPT ![p] = [pop[p] EXCEPT !.at = "read",
                     !.state = "TRANSACTION", !.emails = file[u]]]
        /\ \A b \in Box : popMutex'[b] = IF b = u THEN NoConn ELSE popMutex[b]
        /\ UNCHANGED <<smtp, file, smtpMutex, flock>>
    BY <1>2, <1>3, <1>5, <1>10 DEF PassRead
  <2>2. /\ pop'[p].at = "read" /\ pop'[p].user = u
        /\ pop'[p].state = "TRANSACTION" /\ pop'[p].emails = file[u]
        /\ pop'[p].marked = pop[p].marked
    BY <1>1, <2>1 DEF PopThread
  <2>3. pop[p].marked = {} /\ popMutex[u] = p
    BY <1>0, <1>1, <2>1 DEF PopInv, PopThread
  <2>4. \A b \in Box : popMutex'[b] # p
    BY <1>0, <2>1 DEF PopInv
  <2>5. PopInv(p)' /\ Sees(p)'
    BY <2>1, <2>2, <2>3, <2>4 DEF PopInv, Sees, InSession
  <2>6. \A b \in Box : \A c \in (Smtp \cup Pop) \ {p} :
          flock[b] = c => flock'[b] = c /\ file'[b] = file[b]
    BY <2>1
  <2>7. \A b \in Box : \A c \in Pop \ {p} : popMutex'[b] = c <=> popMutex[b] = c
    BY <2>1, <2>3
  <2>8. \E t : pop' = [pop EXCEPT ![p] = t]
    BY <2>1
  <2> QED BY <1>7, <2>1, <2>5, <2>6, <2>7, <2>8
<1>11. CASE UpdateTruncate(p)
  <2>1. /\ pop[p].at = "quit" /\ u \in Box /\ flock[u] = p
        /\ pop' = [pop EXCEPT ![p] = [pop[p] EXCEPT !.at = "write", !.next = 1]]
        /\ \A b \in Box : popMutex'[b] = IF b = u THEN p ELSE popMutex[b]
        /\ popMutex[u] = NoConn
        /\ file'[u] = <<>>
        /\ \A b \in Box : b # u => file'[b] = file[b]
        /\ UNCHANGED <<smtp, smtpMutex, flock>>
    BY <1>2, <1>3, <1>5, <1>6, <1>11 DEF UpdateTruncate
  <2>2. /\ pop'[p].at = "write" /\ pop'[p].user = u /\ pop'[p].next = 1
        /\ pop'[p].state = pop[p].state /\ pop'[p].emails = pop[p].emails
        /\ pop'[p].marked = pop[p].marked
    BY <1>1, <2>1 DEF PopThread
  <2>3. Drop!IsRest(file'[u], pop[p].emails, pop[p].marked, 1 - 1)
    BY <2>1, NoRest
  <2>4. 1 <= Len(pop[p].emails) + 1
    <3>1. pop[p].emails \in Seq(Mail)
      BY <1>1 DEF PopThread
    <3> QED BY <3>1, LenProperties
  <2>5. PopInv(p)' /\ Sees(p)'
    BY <1>0, <2>1, <2>2, <2>3, <2>4 DEF PopInv, Sees, InSession
  <2>6. /\ \A b \in Box : \A c \in (Smtp \cup Pop) \ {p} :
             flock[b] = c => flock'[b] = c /\ file'[b] = file[b]
        /\ \A b \in Box : \A c \in Pop \ {p} : popMutex'[b] = c <=> popMutex[b] = c
    BY <2>1
  <2>7. UNCHANGED <<smtp, smtpMutex>>
    BY <2>1
  <2> QED BY <1>7, <2>1, <2>5, <2>6, <2>7
<1>12. CASE UpdateWrite(p)
  <2> DEFINE i == pop[p].next
             es == pop[p].emails
             gone == pop[p].marked
  <2>0. /\ i \in Nat \ {0} /\ es \in Seq(Mail) /\ i <= Len(es)
        /\ pop[p].at = "write" /\ u \in Box /\ flock[u] = p
    BY <1>1, <1>2, <1>3, <1>12 DEF UpdateWrite, PopThread
  <2>1. /\ pop' = [pop EXCEPT ![p] = [pop[p] EXCEPT !.next = i + 1]]
        /\ file'[u] = IF i \in gone THEN file[u] ELSE Append(file[u], es[i])
        /\ \A b \in Box : b # u => file'[b] = file[b]
        /\ UNCHANGED <<smtp, smtpMutex, flock, popMutex>>
    BY <1>5, <1>12, <2>0 DEF UpdateWrite
  <2>2. /\ pop'[p].at = "write" /\ pop'[p].user = u /\ pop'[p].next = i + 1
        /\ pop'[p].state = pop[p].state /\ pop'[p].emails = es
        /\ pop'[p].marked = gone
    BY <1>1, <2>0, <2>1 DEF PopThread
  <2>3. Drop!IsRest(file[u], es, gone, i - 1)
    BY <1>1, <2>0 DEF PopInv
  <2>4. file[u] \in Seq(Mail) /\ es[i] \in Mail
    BY <1>5, <2>0, ElementOfSeq
  <2>5. i + 1 <= Len(es) + 1 /\ (i + 1) - 1 = i
    BY <2>0, LenProperties
  <2> HIDE DEF i, es, gone
  <2>6. Drop!IsRest(file'[u], es, gone, i)
    BY <2>0, <2>1, <2>3, <2>4, RestSkips, RestAppends
  <2>7. PopInv(p)
    BY <1>1
  <2> HIDE DEF u
  <2>8. PopInv(p)' /\ Sees(p)'
    BY <2>0, <2>7, <2>1, <2>2, <2>5, <2>6 DEF PopInv, Sees, InSession, i, es, gone, u
  <2> QED BY <1>7, <2>0, <2>1, <2>8
<1>13. CASE UpdateClose(p)
  <2>0. /\ pop[p].next \in Nat \ {0} /\ Len(pop[p].emails) \in Nat
        /\ pop[p].next > Len(pop[p].emails)
    BY <1>1, <1>13, LenProperties DEF UpdateClose, PopThread
  <2>1. /\ pop[p].at = "write" /\ u \in Box /\ flock[u] = p
        /\ pop' = [pop EXCEPT ![p] = [pop[p] EXCEPT !.at = "unlock"]]
        /\ \A b \in Box : popMutex'[b] = IF b = u THEN NoConn ELSE popMutex[b]
        /\ popMutex[u] = p
        /\ UNCHANGED <<smtp, file, smtpMutex, flock>>
    BY <1>1, <1>2, <1>3, <1>5, <1>13 DEF UpdateClose, PopInv
  <2>2. /\ pop'[p].at = "unlock" /\ pop'[p].user = u
        /\ pop'[p].state = pop[p].state /\ pop'[p].emails = pop[p].emails
        /\ pop'[p].marked = pop[p].marked
    BY <1>1, <2>1 DEF PopThread
  <2>3. /\ pop[p].next <= Len(pop[p].emails) + 1
        /\ Drop!IsRest(file[u], pop[p].emails, pop[p].marked, pop[p].next - 1)
    BY <1>1, <2>1 DEF PopInv
  <2>4. pop[p].next - 1 = Len(pop[p].emails)
    BY <2>0, <2>3
  <2>5. \A b \in Box : popMutex'[b] # p
    BY <1>0, <2>1 DEF PopInv
  <2>6. PopInv(p)' /\ Sees(p)'
    BY <1>0, <2>1, <2>2, <2>3, <2>4, <2>5 DEF PopInv, Sees, InSession
  <2> QED BY <1>7, <2>1, <2>6
<1>14. CASE UpdateUnlock(p)
  <2>1. /\ pop[p].at = "unlock" /\ u \in Box /\ flock[u] = p
        /\ pop' = [pop EXCEPT ![p] = NewPop]
        /\ \A b \in Box : flock'[b] = IF b = u THEN NoConn ELSE flock[b]
        /\ UNCHANGED <<smtp, file, smtpMutex, popMutex>>
    BY <1>1, <1>2, <1>3, <1>5, <1>14 DEF UpdateUnlock
  <2>2. /\ pop'[p].at = "read" /\ pop'[p].state = "AUTHORIZATION"
        /\ pop'[p].emails = <<>> /\ pop'[p].marked = {}
    BY <1>1, <2>1 DEF NewPop
  <2>3. \A b \in Box : popMutex[b] # p
    BY <1>0, <2>1 DEF PopInv
  <2>4. PopInv(p)' /\ Sees(p)'
    BY <2>1, <2>2, <2>3 DEF PopInv, Sees, InSession
  <2> QED BY <1>7, <2>1, <2>4
<1> QED BY <1>8, <1>9, <1>10, <1>11, <1>12, <1>13, <1>14 DEF PopServer

(* A crash frees the locks of one process and touches no file.              *)
LEMMA CrashInv ==
  ASSUME SpoolInv, SmtpCrash \/ PopCrash
  PROVE  SpoolInv'
<1> USE SpoolAssumption
<1>1. /\ TypeOK
      /\ \A d \in Smtp : SmtpInv(d)
      /\ \A q \in Pop : PopInv(q) /\ Sees(q)
  BY DEF SpoolInv, SessionView, Sees
<1>2. TypeOK'
  BY <1>1, CrashTypes
<1>3. CASE SmtpCrash
  <2>1. /\ \A d \in Smtp : smtp'[d].at = "read"
        /\ \A b \in Box : smtpMutex'[b] = NoConn
        /\ \A b \in Box : \A q \in Pop : flock[b] = q => flock'[b] = q
        /\ UNCHANGED <<pop, file, popMutex>>
    BY <1>3 DEF SmtpCrash, NewSmtp, Released
  <2>2. ASSUME NEW d \in Smtp PROVE SmtpInv(d)'
    BY <2>1 DEF SmtpInv
  <2>3. ASSUME NEW q \in Pop PROVE PopInv(q)' /\ Sees(q)'
    BY <1>1, <2>1, PopFrame
  <2> QED BY <1>2, <2>2, <2>3 DEF SpoolInv, SessionView, Sees
<1>4. CASE PopCrash
  <2>1. /\ \A q \in Pop : pop'[q] = NewPop
        /\ \A b \in Box : popMutex'[b] = NoConn
        /\ \A b \in Box : \A d \in Smtp : flock[b] = d => flock'[b] = d
        /\ UNCHANGED <<smtp, file, smtpMutex>>
    BY <1>4 DEF PopCrash, Released
  <2>2. ASSUME NEW d \in Smtp PROVE SmtpInv(d)'
    BY <1>1, <2>1, SmtpFrame
  <2>3. ASSUME NEW q \in Pop PROVE PopInv(q)' /\ Sees(q)'
    <3>1. /\ pop'[q].state = "AUTHORIZATION" /\ pop'[q].at = "read"
          /\ pop'[q].emails = <<>> /\ pop'[q].marked = {}
      BY <2>1 DEF NewPop
    <3> QED BY <2>1, <3>1 DEF PopInv, Sees, InSession
  <2> QED BY <1>2, <2>2, <2>3 DEF SpoolInv, SessionView, Sees
<1> QED BY <1>3, <1>4

(* The servers start in the invariant.                                      *)
LEMMA InitInv == Init => SpoolInv
<1> USE SpoolAssumption
<1> SUFFICES ASSUME Init PROVE SpoolInv
  OBVIOUS
<1>1. TypeOK
  <2>1. file \in [Box -> Seq(Mail)]
    <3>1. <<>> \in Seq(Mail) /\ <<[from |-> 0, data |-> <<0>>]>> \in Seq(Mail)
      BY DEF Mail
    <3> QED BY <3>1 DEF Init
  <2> QED BY <2>1, NewTypes DEF Init, TypeOK
<1>2. ASSUME NEW d \in Smtp PROVE SmtpInv(d)
  BY DEF Init, SmtpInv, NewSmtp
<1>3. ASSUME NEW p \in Pop PROVE PopInv(p)
  <2>1. /\ pop[p].state = "AUTHORIZATION" /\ pop[p].at = "read"
        /\ pop[p].emails = <<>> /\ pop[p].marked = {}
    BY DEF Init, NewPop
  <2> QED BY <2>1 DEF Init, PopInv, InSession
<1>4. SessionView
  BY DEF Init, SessionView, NewPop
<1> QED BY <1>1, <1>2, <1>3, <1>4 DEF SpoolInv

(* Every step of the two servers keeps the invariant.                       *)
LEMMA NextInv ==
  ASSUME SpoolInv, [Next]_vars
  PROVE  SpoolInv'
<1>1. CASE UNCHANGED vars
  <2>1. UNCHANGED <<smtp, pop, file, flock, smtpMutex, popMutex, mails, crashes>>
    BY <1>1 DEF vars, files
  <2>2. TypeOK'
    BY <2>1 DEF SpoolInv, TypeOK
  <2>3. \A d \in Smtp : SmtpInv(d)'
    BY <2>1 DEF SpoolInv, SmtpInv, Recipient
  <2>4. \A p \in Pop : PopInv(p)'
    BY <2>1 DEF SpoolInv, PopInv, InSession
  <2>5. SessionView'
    BY <2>1 DEF SpoolInv, SessionView
  <2> QED BY <2>2, <2>3, <2>4, <2>5 DEF SpoolInv
<1>2. CASE Next
  BY <1>2, SmtpClientInv, SmtpServerInv, PopClientInv, PopServerInv, CrashInv DEF Next
<1> QED BY <1>1, <1>2

(* SpoolInv holds for any number of mailboxes and connections and any       *)
(* number of crashes.                                                       *)
THEOREM SpoolInvariant == Spec => []SpoolInv
  BY InitInv, NextInv, PTL DEF Spec

(* The variables of the threads, the files and the locks keep their types.  *)
THEOREM TypeCorrect == Spec => []TypeOK
<1>1. SpoolInv => TypeOK
  BY DEF SpoolInv
<1> QED BY <1>1, SpoolInvariant, PTL

(* The invariant leaves no mutex contended.                                 *)
LEMMA InvMutexFree == SpoolInv => MutexFree
<1> USE SpoolAssumption
<1> SUFFICES ASSUME SpoolInv PROVE MutexFree
  OBVIOUS
<1>1. TypeOK /\ (\A q \in Pop : PopInv(q)) /\ (\A d \in Smtp : SmtpInv(d))
  BY DEF SpoolInv
<1>2. ASSUME NEW p \in Pop, pop[p].at \in {"trylock", "quit"}
      PROVE  popMutex[pop[p].user] = NoConn
  BY <1>1, <1>2, MutexUnderFlock DEF TypeOK
<1>3. ASSUME NEW c \in Smtp, smtp[c].at = "mutex"
      PROVE  smtpMutex[Recipient(c)] = NoConn
  <2>1. Recipient(c) \in Box /\ flock[Recipient(c)] = c
    BY <1>1, <1>3, RecipientIsBox DEF SmtpInv
  <2>2. ASSUME NEW d \in Smtp, smtpMutex[Recipient(c)] = d PROVE FALSE
    <3>1. smtp[d].at = "append" /\ Recipient(d) = Recipient(c)
      BY <1>1, <2>1, <2>2 DEF SmtpInv
    <3>2. flock[Recipient(d)] = d
      BY <1>1, <3>1 DEF SmtpInv
    <3> QED BY <1>3, <2>1, <3>1, <3>2
  <2> QED BY <1>1, <2>1, <2>2 DEF TypeOK
<1> QED BY <1>2, <1>3 DEF MutexFree

(* Nobody ever finds a mailbox mutex taken: no PASS is refused for it, no   *)
(* QUIT loses its deletions or leaves its flock behind.                     *)
THEOREM NoTrylockFails == Spec => []MutexFree
  BY InvMutexFree, SpoolInvariant, PTL

(* A session rewrites the file it has read and no other state of it.        *)
THEOREM SessionsSeeTheFile == Spec => []SessionView
<1>1. SpoolInv => SessionView
  BY DEF SpoolInv
<1> QED BY <1>1, SpoolInvariant, PTL

-----------------------------------------------------------------------------
(* The two servers implement Maildrop.                                     *)

(* What absDrop stands for, without the choice in its definition.           *)
DropFacts ==
  /\ absDrop = [b \in Box |-> absDrop[b]]
  /\ \A b \in Box :
       /\ (\A p \in Pop : ~Rewrites(p, b)) => absDrop[b] = file[b]
       /\ \A p \in Pop : InSession(p) /\ pop[p].user = b =>
            absDrop[b] = pop[p].emails
  /\ \A p \in Pop : \A b \in Box :
       Rewrites(p, b) => InSession(p) /\ pop[p].state = "UPDATE"
  /\ \A p, q \in Pop : InSession(p) /\ InSession(q) /\ pop[p].user = pop[q].user
       => p = q
  /\ \A p \in Pop : InSession(p) => pop[p].user \in Box

LEMMA DropValue == SpoolInv => DropFacts
<1> SUFFICES ASSUME SpoolInv PROVE DropFacts
  OBVIOUS
<1>1. \A p \in Pop : PopInv(p) /\ Sees(p)
  BY DEF SpoolInv, SessionView, Sees
<1>2. absDrop = [b \in Box |-> absDrop[b]]
  BY DEF absDrop
<1>3. ASSUME NEW p \in Pop, NEW b \in Box, Rewrites(p, b)
      PROVE  InSession(p) /\ pop[p].state = "UPDATE"
  <2>1. PopInv(p) /\ pop[p].state \in {"AUTHORIZATION", "TRANSACTION", "UPDATE"}
    BY <1>1 DEF SpoolInv, TypeOK, PopThread
  <2> QED BY <1>3, <2>1 DEF PopInv, Rewrites, InSession
<1>4. ASSUME NEW p \in Pop, NEW q \in Pop, InSession(p), InSession(q),
             pop[p].user = pop[q].user
      PROVE  p = q
  BY <1>1, <1>4, OneSession
<1>5. ASSUME NEW p \in Pop, InSession(p) PROVE pop[p].user \in Box
  BY <1>1, <1>5 DEF PopInv
<1>6. ASSUME NEW b \in Box, \A p \in Pop : ~Rewrites(p, b)
      PROVE  absDrop[b] = file[b]
  BY <1>6 DEF absDrop
<1>7. ASSUME NEW b \in Box, NEW p \in Pop, Rewrites(p, b)
      PROVE  absDrop[b] = pop[p].emails
  <2> DEFINE q == CHOOSE q \in Pop : Rewrites(q, b)
  <2>1. q \in Pop /\ Rewrites(q, b)
    BY <1>7
  <2>2. absDrop[b] = pop[q].emails
    BY <1>7 DEF absDrop
  <2> HIDE DEF q
  <2>3. q = p
    BY <1>3, <1>4, <1>7, <2>1 DEF Rewrites
  <2> QED BY <2>2, <2>3
<1>8. ASSUME NEW b \in Box, NEW p \in Pop, InSession(p), pop[p].user = b
      PROVE  absDrop[b] = pop[p].emails
  <2>1. CASE Rewrites(p, b)
    BY <1>7, <2>1
  <2>2. CASE ~Rewrites(p, b)
    <3>1. \A q \in Pop : ~Rewrites(q, b)
      BY <1>3, <1>4, <1>8, <2>2 DEF Rewrites
    <3>2. pop[p].at \in {"read", "quit"} /\ pop[p].state \in {"TRANSACTION", "UPDATE"}
      <4>1. /\ PopInv(p)
            /\ pop[p].state \in {"AUTHORIZATION", "TRANSACTION", "UPDATE"}
        BY <1>1 DEF SpoolInv, TypeOK, PopThread
      <4> QED BY <1>8, <2>2, <4>1 DEF PopInv, Rewrites, InSession
    <3>3. pop[p].state = "UPDATE" => pop[p].at = "quit"
      BY <1>1, <3>2 DEF PopInv
    <3>4. pop[p].emails = file[b]
      BY <1>1, <1>8, <3>2, <3>3 DEF Sees
    <3> QED BY <1>6, <3>1, <3>4
  <2> QED BY <2>1, <2>2
<1> QED BY <1>2, <1>3, <1>4, <1>5, <1>6, <1>8 DEF DropFacts

(* Tails of the list of recipients.                                         *)
LEMMA RestOfList ==
  ASSUME NEW S, NEW s \in Seq(S), NEW n \in Nat \ {0}
  PROVE  /\ SubSeq(s, n, Len(s)) \in Seq(S)
         /\ n > Len(s) => SubSeq(s, n, Len(s)) = <<>>
         /\ n <= Len(s) => /\ SubSeq(s, n, Len(s)) # <<>>
                           /\ Head(SubSeq(s, n, Len(s))) = s[n]
                           /\ Tail(SubSeq(s, n, Len(s))) = SubSeq(s, n + 1, Len(s))
<1>1. Len(s) \in Nat /\ DOMAIN s = 1..Len(s)
  BY LenProperties
<1>2. CASE n > Len(s)
  <2>1. SubSeq(s, n, Len(s)) = <<>>
    BY <1>1, <1>2, SubSeqEmpty
  <2> QED BY <1>1, <1>2, <2>1
<1>3. CASE n <= Len(s)
  <2>1. n \in 1..(Len(s) + 1) /\ n \in 1..Len(s) /\ Len(s) \in n..Len(s)
    BY <1>1, <1>3
  <2>2. SubSeq(s, n, Len(s)) \in Seq(S) /\ Len(SubSeq(s, n, Len(s))) = Len(s) - n + 1
    BY <1>1, <1>3, <2>1, SubSeqProperties
  <2>3. SubSeq(s, n, Len(s)) # <<>>
    BY <1>1, <1>3, <2>2
  <2>4. /\ Head(SubSeq(s, n, Len(s))) = s[n]
        /\ Tail(SubSeq(s, n, Len(s))) = SubSeq(s, n + 1, Len(s))
    BY <1>1, <1>3, <2>1, HeadTailOfSubSeq
  <2> QED BY <1>1, <1>3, <2>2, <2>3, <2>4
<1> QED BY <1>1, <1>2, <1>3

(* What is to go is a list of mailboxes.                                    *)
ToGoIsList == \A c \in Smtp : ToGo(c) \in Seq(Box)

LEMMA ToGoType == TypeOK => ToGoIsList
<1> SUFFICES ASSUME TypeOK, NEW c \in Smtp PROVE ToGo(c) \in Seq(Box)
  BY DEF ToGoIsList
<1>1. smtp[c].rcpts \in Seq(Box) /\ smtp[c].next \in Nat \ {0}
  BY DEF TypeOK, SmtpThread
<1> DEFINE s == smtp[c].rcpts n == smtp[c].next
<1>2. n + 1 \in Nat \ {0}
  BY <1>1
<1>3. SubSeq(s, n, Len(s)) \in Seq(Box) /\ SubSeq(s, n + 1, Len(s)) \in Seq(Box)
  BY <1>1, <1>2, RestOfList
<1>4. <<>> \in Seq(Box)
  OBVIOUS
<1> HIDE DEF s, n
<1> QED BY <1>3, <1>4 DEF ToGo, s, n

(* One thread of the SMTP server changes one outbox.                        *)
LEMMA OutboxStep ==
  ASSUME NEW c \in Smtp, \A d \in Smtp \ {c} : smtp'[d] = smtp[d]
  PROVE  /\ absOutbox' = [absOutbox EXCEPT ![c] = absOutbox'[c]]
         /\ absOutbox[c] = absOutbox'[c] => absOutbox' = absOutbox
<1>1. \A d \in Smtp \ {c} : ToGo(d)' = ToGo(d)
  BY DEF ToGo
<1>2. \A d \in Smtp \ {c} : absOutbox'[d] = absOutbox[d]
  BY <1>1 DEF absOutbox
<1>3. absOutbox = [d \in Smtp |-> absOutbox[d]] /\ absOutbox' = [d \in Smtp |-> absOutbox'[d]]
  BY DEF absOutbox
<1> HIDE DEF absOutbox
<1>4. absOutbox' = [absOutbox EXCEPT ![c] = absOutbox'[c]]
  BY <1>2, <1>3
<1>5. absOutbox[c] = absOutbox'[c] => absOutbox' = absOutbox
  BY <1>2, <1>3
<1> QED BY <1>4, <1>5

(* Steps that leave a part of the state alone leave its image alone.        *)
LEMMA SameDrop ==
  ASSUME UNCHANGED <<pop, file>>
  PROVE  absDrop' = absDrop /\ absSession' = absSession
  BY DEF absDrop, absSession, Rewrites, InSession

LEMMA SameOutbox ==
  ASSUME UNCHANGED smtp
  PROVE  absOutbox' = absOutbox
  BY DEF absOutbox, ToGo

(* A client of the SMTP server submits a mail or changes nothing.           *)
LEMMA RefineSmtpClient ==
  ASSUME SpoolInv, SpoolInv', NEW c \in Smtp, SmtpClient(c)
  PROVE  Drop!Next \/ UNCHANGED Drop!vars
<1>1. /\ smtp[c].at = "read"
      /\ \A d \in Smtp \ {c} : smtp'[d] = smtp[d]
      /\ UNCHANGED <<pop, file, crashes>>
  <2>1. smtp \in [Smtp -> SmtpThread]
    BY DEF SpoolInv, TypeOK
  <2>2. /\ UNCHANGED <<pop, file, crashes>>
        /\ smtp[c].at = "read"
    BY DEF SmtpClient, SmtpOnly, files, Reads, Helo, MailFrom, Data, Line, Dot, RsetMail,
           QuitSmtp, RcptTo
  <2>3. \A d \in Smtp \ {c} : smtp'[d] = smtp[d]
    BY <2>1 DEF SmtpClient, Helo, MailFrom, Data, Line, Dot, RsetMail, QuitSmtp, RcptTo
  <2> QED BY <2>2, <2>3
<1>2. UNCHANGED <<absDrop, absSession, crashes>>
  BY <1>1, SameDrop
<1>3. absOutbox[c] = Drop!Nothing
  BY <1>1 DEF absOutbox, ToGo, Drop!Nothing
<1>4. CASE ToGo(c)' = <<>>
  <2>1. absOutbox'[c] = Drop!Nothing
    BY <1>4 DEF absOutbox, Drop!Nothing
  <2> QED BY <1>1, <1>2, <1>3, <2>1, OutboxStep DEF Drop!vars
<1>5. CASE ToGo(c)' # <<>>
  <2>1. ToGo(c)' \in Seq(Box)
    <3>1. (TypeOK => ToGoIsList)'
      BY ToGoType, PTL
    <3> QED BY <3>1 DEF SpoolInv, ToGoIsList
  <2>2. smtp'[c].from \in Nat /\ smtp'[c].data \in Seq(Nat)
    BY DEF SpoolInv, TypeOK, SmtpThread
  <2>3. absOutbox'[c] = [mail |-> [from |-> smtp'[c].from, data |-> smtp'[c].data],
                         to |-> ToGo(c)']
    BY <1>5 DEF absOutbox
  <2>4. absOutbox'[c] \in [mail : Mail, to : Seq(Box) \ {<<>>}]
    BY <1>5, <2>1, <2>2, <2>3 DEF Mail
  <2>5. Drop!Submit(c)
    BY <1>1, <1>2, <1>3, <2>4, OutboxStep DEF Drop!Submit
  <2> QED BY <2>5 DEF Drop!Next
<1> QED BY <1>4, <1>5

(* The server delivers to one recipient at its append and nowhere else.     *)
LEMMA RefineSmtpServer ==
  ASSUME SpoolInv, SpoolInv', DropFacts, DropFacts', NEW c \in Smtp,
         DeliverFlock(c) \/ SmtpServer(c)
  PROVE  Drop!Next \/ UNCHANGED Drop!vars
<1> USE SpoolAssumption
<1> DEFINE s == smtp[c].rcpts n == smtp[c].next
<1>1. /\ TypeOK /\ smtp[c] \in SmtpThread /\ smtp \in [Smtp -> SmtpThread]
      /\ s \in Seq(Box) /\ n \in Nat \ {0} /\ SmtpInv(c)
      /\ \A p \in Pop : PopInv(p)
  BY DEF SpoolInv, TypeOK, SmtpThread
<1>2. n + 1 \in Nat \ {0}
  BY <1>1
<1>3. ASSUME UNCHANGED <<pop, file, crashes>>, absOutbox'[c] = absOutbox[c],
             \A d \in Smtp \ {c} : smtp'[d] = smtp[d]
      PROVE  UNCHANGED Drop!vars
  BY <1>3, SameDrop, OutboxStep DEF Drop!vars
<1>4. CASE DeliverFlock(c)
  <2>1. /\ smtp' = [smtp EXCEPT ![c] = [smtp[c] EXCEPT !.at = "mutex"]]
        /\ smtp[c].at = "flock" /\ UNCHANGED <<pop, file, crashes>>
    BY <1>4 DEF DeliverFlock
  <2>2. /\ smtp'[c].at = "mutex" /\ smtp'[c].rcpts = s /\ smtp'[c].next = n
        /\ smtp'[c].from = smtp[c].from /\ smtp'[c].data = smtp[c].data
    BY <1>1, <2>1 DEF SmtpThread
  <2>3. ToGo(c)' = ToGo(c)
    BY <2>1, <2>2 DEF ToGo
  <2>4. absOutbox'[c] = absOutbox[c]
    BY <2>2, <2>3 DEF absOutbox
  <2> QED BY <1>1, <1>3, <2>1, <2>4
<1>5. CASE DeliverMutex(c)
  <2>1. /\ smtp' = [smtp EXCEPT ![c] = [smtp[c] EXCEPT !.at = "append"]]
        /\ smtp[c].at = "mutex" /\ UNCHANGED <<pop, file, crashes>>
    BY <1>5 DEF DeliverMutex
  <2>2. /\ smtp'[c].at = "append" /\ smtp'[c].rcpts = s /\ smtp'[c].next = n
        /\ smtp'[c].from = smtp[c].from /\ smtp'[c].data = smtp[c].data
    BY <1>1, <2>1 DEF SmtpThread
  <2>3. ToGo(c)' = ToGo(c)
    BY <2>1, <2>2 DEF ToGo
  <2>4. absOutbox'[c] = absOutbox[c]
    BY <2>2, <2>3 DEF absOutbox
  <2> QED BY <1>1, <1>3, <2>1, <2>4
<1>6. CASE DeliverAppend(c)
  <2> DEFINE r == Recipient(c)
             m == [from |-> smtp[c].from, data |-> smtp[c].data]
  <2>1. /\ smtp' = [smtp EXCEPT ![c] = [smtp[c] EXCEPT !.at = "unlock"]]
        /\ smtp[c].at = "append" /\ UNCHANGED <<pop, flock, crashes>>
        /\ file' = [file EXCEPT ![r] = Append(@, m)]
    BY <1>6 DEF DeliverAppend
  <2>2. /\ smtp'[c].at = "unlock" /\ smtp'[c].rcpts = s /\ smtp'[c].next = n
        /\ smtp'[c].from = smtp[c].from /\ smtp'[c].data = smtp[c].data
    BY <1>1, <2>1 DEF SmtpThread
  <2>3. n <= Len(s) /\ flock[r] = c /\ r \in Box
    BY <1>1, <2>1, RecipientIsBox DEF SmtpInv
  <2>4. ToGo(c) = SubSeq(s, n, Len(s)) /\ ToGo(c)' = SubSeq(s, n + 1, Len(s))
    BY <2>1, <2>2 DEF ToGo
  <2>5. ToGo(c) # <<>> /\ Head(ToGo(c)) = r /\ Tail(ToGo(c)) = ToGo(c)'
    BY <1>1, <2>3, <2>4, RestOfList DEF Recipient
  <2>6. absOutbox[c] = [mail |-> m, to |-> ToGo(c)]
    BY <2>5 DEF absOutbox
  <2>7. absOutbox'[c] = IF ToGo(c)' = <<>> THEN Drop!Nothing
                        ELSE [mail |-> m, to |-> ToGo(c)']
    BY <2>2 DEF absOutbox, Drop!Nothing
  <2>8. \A p \in Pop : InSession(p) => pop[p].user # r
    BY <1>1, <2>3 DEF PopInv
  <2>9. ~Drop!InSession(r)
    BY <2>3, <2>8 DEF Drop!InSession, absSession
  <2>10. \A p \in Pop : ~Rewrites(p, r)
    BY <2>3, <2>8 DEF DropFacts, Rewrites
  <2>11. \A p \in Pop : \A b : (Rewrites(p, b)' <=> Rewrites(p, b))
                               /\ (InSession(p)' <=> InSession(p))
    BY <2>1 DEF Rewrites, InSession
  <2>12. absDrop'[r] = Append(absDrop[r], m)
    <3>1. absDrop[r] = file[r]
      BY <2>3, <2>10 DEF DropFacts
    <3>2. absDrop'[r] = file'[r]
      BY <2>3, <2>10, <2>11 DEF DropFacts
    <3>3. file'[r] = Append(file[r], m)
      BY <1>1, <2>1, <2>3 DEF TypeOK
    <3> QED BY <3>1, <3>2, <3>3
  <2>13. ASSUME NEW b \in Box, b # r PROVE absDrop'[b] = absDrop[b]
    <3>1. file'[b] = file[b]
      BY <1>1, <2>1, <2>13 DEF TypeOK
    <3>2. CASE \E p \in Pop : Rewrites(p, b)
      <4>1. PICK p \in Pop : Rewrites(p, b)
        BY <3>2
      <4>2. absDrop[b] = pop[p].emails
        BY <4>1 DEF DropFacts, Rewrites
      <4>3. absDrop'[b] = pop'[p].emails
        BY <2>1, <2>11, <4>1 DEF DropFacts, Rewrites
      <4> QED BY <2>1, <4>2, <4>3
    <3>3. CASE \A p \in Pop : ~Rewrites(p, b)
      <4>1. absDrop[b] = file[b] /\ absDrop'[b] = file'[b]
        BY <2>11, <3>3 DEF DropFacts
      <4> QED BY <3>1, <4>1
    <3> QED BY <3>2, <3>3
  <2>14. absDrop' = [absDrop EXCEPT ![r] = Append(@, m)]
    <3> HIDE DEF r, m
    <3>1. absDrop = [b \in Box |-> absDrop[b]] /\ absDrop' = [b \in Box |-> absDrop'[b]]
      BY DEF DropFacts
    <3> QED BY <2>3, <2>12, <2>13, <3>1
  <2>15. absSession' = absSession
    BY <2>1 DEF absSession, InSession
  <2>16. absOutbox' = [absOutbox EXCEPT ![c] = absOutbox'[c]]
    BY <1>1, <2>1, OutboxStep
  <2>17. Drop!Deliver(c)
    <3>1. /\ absOutbox[c].to = ToGo(c) /\ absOutbox[c].mail = m
          /\ absOutbox[c].to # <<>>
      BY <2>5, <2>6
    <3>2. absOutbox'[c] = IF ToGo(c)' = <<>> THEN Drop!Nothing
                          ELSE [absOutbox[c] EXCEPT !.to = ToGo(c)']
      BY <2>6, <2>7
    <3> HIDE DEF r, m
    <3>3. absOutbox' = [absOutbox EXCEPT ![c] =
             IF Tail(absOutbox[c].to) = <<>> THEN Drop!Nothing
             ELSE [@ EXCEPT !.to = Tail(absOutbox[c].to)]]
      BY <2>5, <2>16, <3>1, <3>2
    <3> QED BY <2>1, <2>5, <2>9, <2>14, <2>15, <3>1, <3>3 DEF Drop!Deliver
  <2> QED BY <2>17 DEF Drop!Next
<1>7. CASE DeliverUnlock(c)
  <2>1. /\ smtp' = [smtp EXCEPT ![c] = [smtp[c] EXCEPT !.at = "flock", !.next = @ + 1]]
        /\ smtp[c].at = "unlock" /\ UNCHANGED <<pop, file, crashes>>
    BY <1>7 DEF DeliverUnlock
  <2>2. /\ smtp'[c].at = "flock" /\ smtp'[c].rcpts = s /\ smtp'[c].next = n + 1
        /\ smtp'[c].from = smtp[c].from /\ smtp'[c].data = smtp[c].data
    BY <1>1, <2>1 DEF SmtpThread
  <2>3. ToGo(c)' = ToGo(c)
    <3>1. ToGo(c) = SubSeq(s, n + 1, Len(s))
      BY <2>1 DEF ToGo
    <3> DEFINE k == n + 1
    <3> HIDE DEF k
    <3>2. smtp'[c].next = k
      BY <2>2 DEF k
    <3>3. ToGo(c)' = SubSeq(s, k, Len(s))
      BY <2>2, <3>2 DEF ToGo
    <3> QED BY <3>1, <3>3 DEF k
  <2>4. absOutbox'[c] = absOutbox[c]
    BY <2>2, <2>3 DEF absOutbox
  <2> QED BY <1>1, <1>3, <2>1, <2>4
<1>8. CASE Delivered(c)
  <2>1. /\ smtp' = [smtp EXCEPT ![c] = [smtp[c] EXCEPT !.at = "read", !.state = "HELO",
                                                       !.next = 1]]
        /\ smtp[c].at = "flock" /\ n > Len(s) /\ UNCHANGED <<pop, file, crashes>>
    BY <1>8 DEF Delivered, SmtpOnly, files
  <2>2. smtp'[c].at = "read"
    BY <1>1, <2>1 DEF SmtpThread
  <2>3. ToGo(c)' = <<>>
    BY <2>2 DEF ToGo
  <2>4. ToGo(c) = <<>>
    BY <1>1, <2>1, RestOfList DEF ToGo
  <2>5. absOutbox'[c] = absOutbox[c]
    BY <2>3, <2>4 DEF absOutbox
  <2> QED BY <1>1, <1>3, <2>1, <2>5
<1> QED BY <1>4, <1>5, <1>6, <1>7, <1>8 DEF SmtpServer

(* One thread of the POP3 server changes one session.                       *)
LEMMA SessionStep ==
  ASSUME NEW p \in Pop, \A q \in Pop \ {p} : pop'[q] = pop[q]
  PROVE  /\ absSession' = [absSession EXCEPT ![p] = absSession'[p]]
         /\ absSession[p] = absSession'[p] => absSession' = absSession
<1>1. \A q \in Pop \ {p} : absSession'[q] = absSession[q]
  BY DEF absSession, InSession
<1>2. /\ absSession = [q \in Pop |-> absSession[q]]
      /\ absSession' = [q \in Pop |-> absSession'[q]]
  BY DEF absSession
<1> HIDE DEF absSession
<1>3. absSession' = [absSession EXCEPT ![p] = absSession'[p]]
  BY <1>1, <1>2
<1>4. absSession[p] = absSession'[p] => absSession' = absSession
  BY <1>1, <1>2
<1> QED BY <1>3, <1>4

(* A mailbox that nobody rewrites and nobody writes to looks the same.      *)
LEMMA QuietDrop ==
  ASSUME DropFacts, DropFacts', NEW p \in Pop, NEW b \in Box,
         \A q \in Pop \ {p} : pop'[q] = pop[q], file'[b] = file[b],
         ~Rewrites(p, b), ~Rewrites(p, b)'
  PROVE  absDrop'[b] = absDrop[b]
<1>1. \A q \in Pop \ {p} : (Rewrites(q, b)' <=> Rewrites(q, b))
  BY DEF Rewrites
<1>2. CASE \E q \in Pop : Rewrites(q, b)
  <2>1. PICK q \in Pop : Rewrites(q, b)
    BY <1>2
  <2>2. q # p /\ Rewrites(q, b)' /\ pop'[q] = pop[q]
    BY <1>1, <2>1
  <2>3. absDrop[b] = pop[q].emails
    BY <2>1 DEF DropFacts, Rewrites
  <2>4. absDrop'[b] = pop'[q].emails
    BY <2>2 DEF DropFacts, Rewrites
  <2> QED BY <2>2, <2>3, <2>4
<1>3. CASE \A q \in Pop : ~Rewrites(q, b)
  <2>1. absDrop[b] = file[b]
    BY <1>3 DEF DropFacts
  <2>2. \A q \in Pop : ~Rewrites(q, b)'
    BY <1>1, <1>3
  <2>3. absDrop'[b] = file'[b]
    BY <2>2 DEF DropFacts
  <2> QED BY <2>1, <2>3
<1> QED BY <1>2, <1>3

(* Equal at every mailbox is equal.                                         *)
LEMMA SameDrops ==
  ASSUME DropFacts, DropFacts', \A b \in Box : absDrop'[b] = absDrop[b]
  PROVE  absDrop' = absDrop
<1>1. absDrop = [b \in Box |-> absDrop[b]] /\ absDrop' = [b \in Box |-> absDrop'[b]]
  BY DEF DropFacts
<1> HIDE DEF absDrop
<1> QED BY <1>1

(* What a session looks like after a step.                                  *)
LEMMA NewSession ==
  ASSUME NEW p \in Pop, NEW b, NEW marks, NEW closing \in BOOLEAN,
         pop'[p].state # "AUTHORIZATION", pop'[p].user = b, pop'[p].marked = marks,
         pop'[p].state = "UPDATE" <=> closing
  PROVE  absSession'[p] = [box |-> b, marks |-> marks, closing |-> closing]
<1>1. InSession(p)'
  BY DEF InSession
<1>2. absSession'[p] = [box |-> pop'[p].user, marks |-> pop'[p].marked,
                        closing |-> pop'[p].state = "UPDATE"]
  BY <1>1, Zenon DEF absSession
<1>3. (pop'[p].state = "UPDATE") = closing
  OBVIOUS
<1> QED BY <1>2, <1>3, Zenon

(* A client of the POP3 server marks, takes back, says QUIT, or does        *)
(* nothing that Maildrop speaks of.                                         *)
LEMMA RefinePopClient ==
  ASSUME SpoolInv, SpoolInv', DropFacts, DropFacts', NEW p \in Pop, PopClient(p)
  PROVE  Drop!Next \/ UNCHANGED Drop!vars
<1> DEFINE u == pop[p].user
<1>1. /\ TypeOK /\ pop[p] \in PopThread /\ pop \in [Pop -> PopThread]
      /\ PopInv(p)
  BY DEF SpoolInv, TypeOK
<1>2. /\ UNCHANGED <<smtp, file, crashes>>
      /\ pop[p].at = "read"
  BY DEF PopClient, PopOnly, PopReads, files, WrongPass, Pass, RsetMarks, QuitUnread,
         Quit, UserName, Dele
<1>3. \A q \in Pop \ {p} : pop'[q] = pop[q]
  BY <1>1 DEF PopClient, WrongPass, Pass, RsetMarks, QuitUnread, Quit, UserName, Dele
<1>4. UNCHANGED absOutbox
  BY <1>2, SameOutbox
<1>5. ASSUME pop'[p].at \in {"read", "flock", "quit"} PROVE UNCHANGED absDrop
  <2>1. \A b \in Box : ~Rewrites(p, b) /\ ~Rewrites(p, b)'
    BY <1>2, <1>5 DEF Rewrites
  <2>2. \A b \in Box : absDrop'[b] = absDrop[b]
    BY <1>2, <1>3, <2>1, QuietDrop
  <2> QED BY <2>2, SameDrops
<1>6. ASSUME pop'[p].at \in {"read", "flock", "quit"}, absSession'[p] = absSession[p]
      PROVE  UNCHANGED Drop!vars
  BY <1>2, <1>3, <1>4, <1>5, <1>6, SessionStep DEF Drop!vars
<1>7. pop[p].state = "AUTHORIZATION" => absSession[p] = Drop!Closed
  BY DEF absSession, InSession, Drop!Closed
<1>8. pop'[p].state = "AUTHORIZATION" => absSession'[p] = Drop!Closed
  BY DEF absSession, InSession, Drop!Closed
<1>9. pop[p].state = "TRANSACTION" =>
        /\ absSession[p] = [box |-> u, marks |-> pop[p].marked, closing |-> FALSE]
        /\ u \in Box /\ absDrop[u] = pop[p].emails
  BY DEF absSession, InSession, DropFacts
<1>10. CASE WrongPass(p) \/ Pass(p) \/ \E b \in Box : UserName(p, b)
  <2>1. pop[p].state = "AUTHORIZATION" /\ pop'[p].state = "AUTHORIZATION"
    BY <1>1, <1>10 DEF WrongPass, Pass, UserName, PopReads, PopThread
  <2>2. pop'[p].at \in {"read", "flock", "quit"}
    BY <1>1, <1>2, <1>10 DEF WrongPass, Pass, UserName, PopThread
  <2> QED BY <1>6, <1>7, <1>8, <2>1, <2>2
<1>11. CASE QuitUnread(p)
  <2>1. /\ pop[p].state = "AUTHORIZATION" /\ pop'[p].state = "AUTHORIZATION"
        /\ pop'[p].at = "read"
    BY <1>1, <1>11 DEF QuitUnread, PopReads, NewPop
  <2> QED BY <1>6, <1>7, <1>8, <2>1
<1>12. CASE RsetMarks(p)
  <2>1. /\ pop[p].state = "TRANSACTION" /\ pop'[p].state = "TRANSACTION"
        /\ pop'[p].at = "read" /\ pop'[p].user = u /\ pop'[p].marked = {}
    BY <1>1, <1>2, <1>12 DEF RsetMarks, PopReads, PopThread
  <2>2. absSession'[p] = [absSession[p] EXCEPT !.marks = {}]
    BY <1>9, <2>1 DEF absSession, InSession
  <2>3. Drop!Unmark(p)
    BY <1>2, <1>3, <1>4, <1>5, <1>9, <2>1, <2>2, SessionStep DEF Drop!Unmark
  <2> QED BY <2>3 DEF Drop!Next
<1>13. CASE Quit(p)
  <2>1. /\ pop[p].state = "TRANSACTION" /\ pop'[p].state = "UPDATE"
        /\ pop'[p].at = "quit" /\ pop'[p].user = u /\ pop'[p].marked = pop[p].marked
    BY <1>1, <1>2, <1>13 DEF Quit, PopReads, PopThread
  <2>2. absSession'[p] = [absSession[p] EXCEPT !.closing = TRUE]
    <3>1. absSession'[p] = [box |-> u, marks |-> pop[p].marked, closing |-> TRUE]
      BY <2>1, NewSession
    <3>2. absSession[p] = [box |-> u, marks |-> pop[p].marked, closing |-> FALSE]
      BY <1>9, <2>1
    <3> DEFINE old == absSession[p] new == absSession'[p] m == pop[p].marked
               f == FALSE t == TRUE
    <3>3. old = [box |-> u, marks |-> m, closing |-> f]
      BY <3>2
    <3>4. new = [box |-> u, marks |-> m, closing |-> t]
      BY <3>1
    <3> HIDE DEF u, m, f, t, old, new
    <3>5. new = [old EXCEPT !.closing = t]
      BY <3>3, <3>4
    <3> QED BY <3>5 DEF old, new, t
  <2>3. Drop!Close(p)
    BY <1>2, <1>3, <1>4, <1>5, <1>9, <2>1, <2>2, SessionStep DEF Drop!Close
  <2> QED BY <2>3 DEF Drop!Next
<1>14. ASSUME NEW i \in DOMAIN pop[p].emails, Dele(p, i)
       PROVE  Drop!Next \/ UNCHANGED Drop!vars
  <2>1. /\ pop[p].state = "TRANSACTION" /\ pop'[p].state = "TRANSACTION"
        /\ pop'[p].at = "read" /\ pop'[p].user = u
        /\ pop'[p].marked = pop[p].marked \cup {i}
        /\ i \notin pop[p].marked
    BY <1>1, <1>2, <1>14 DEF Dele, PopReads, PopThread
  <2>2. absSession'[p] = [absSession[p] EXCEPT !.marks = @ \cup {i}]
    <3>1. absSession'[p] = [box |-> u, marks |-> pop[p].marked \cup {i}, closing |-> FALSE]
      BY <2>1, NewSession
    <3>2. absSession[p] = [box |-> u, marks |-> pop[p].marked, closing |-> FALSE]
      BY <1>9, <2>1
    <3> DEFINE old == absSession[p] new == absSession'[p] m == pop[p].marked
               f == FALSE n == pop[p].marked \cup {i}
    <3>3. old = [box |-> u, marks |-> m, closing |-> f] /\ n = m \cup {i}
      BY <3>2
    <3>4. new = [box |-> u, marks |-> n, closing |-> f]
      BY <3>1
    <3> HIDE DEF u, m, f, n, old, new
    <3>5. new = [old EXCEPT !.marks = @ \cup {i}]
      BY <3>3, <3>4
    <3> QED BY <3>5 DEF old, new
  <2>3. i \in DOMAIN absDrop[absSession[p].box] \ absSession[p].marks
    BY <1>9, <2>1
  <2>4. Drop!Mark(p)
    <3>1. absSession[p].box \in Box /\ ~absSession[p].closing
      BY <1>9, <2>1
    <3>2. absSession' = [absSession EXCEPT ![p].marks = @ \cup {i}]
      BY <1>3, <2>2, SessionStep
    <3>3. UNCHANGED <<absDrop, absOutbox, crashes>>
      BY <1>2, <1>4, <1>5, <2>1
    <3> QED BY <2>3, <3>1, <3>2, <3>3 DEF Drop!Mark
  <2> QED BY <2>4 DEF Drop!Next
<1> QED BY <1>10, <1>11, <1>12, <1>13, <1>14, PopClient(p) DEF PopClient
(* Steps that touch neither a session's emails nor its marks, nor the file  *)
(* of anyone else, are not seen.                                            *)
LEMMA SameSession ==
  ASSUME DropFacts, DropFacts', NEW p \in Pop, \A q \in Pop \ {p} : pop'[q] = pop[q],
         UNCHANGED <<smtp, crashes>>, InSession(p), InSession(p)',
         pop'[p].user = pop[p].user, pop'[p].emails = pop[p].emails,
         pop'[p].marked = pop[p].marked, pop'[p].state = pop[p].state,
         \A b \in Box \ {pop[p].user} : file'[b] = file[b]
  PROVE  UNCHANGED Drop!vars
<1>1. ASSUME NEW b \in Box PROVE absDrop'[b] = absDrop[b]
  <2>1. CASE b = pop[p].user
    <3>1. absDrop[b] = pop[p].emails /\ absDrop'[b] = pop'[p].emails
      BY <2>1 DEF DropFacts
    <3> QED BY <3>1
  <2>2. CASE b # pop[p].user
    <3>1. ~Rewrites(p, b) /\ ~Rewrites(p, b)' /\ file'[b] = file[b]
      BY <2>2 DEF Rewrites
    <3> QED BY <3>1, QuietDrop
  <2> QED BY <2>1, <2>2
<1>2. absDrop' = absDrop
  BY <1>1, SameDrops
<1>3. absSession'[p] = absSession[p]
  BY Zenon DEF absSession
<1>4. absSession' = absSession
  BY <1>3, SessionStep
<1> QED BY <1>2, <1>4, SameOutbox DEF Drop!vars

(* The server opens a session when it has read the file and closes it when  *)
(* it gives the flock up; between the two it rewrites and is not seen.      *)
LEMMA RefinePopServer ==
  ASSUME SpoolInv, SpoolInv', DropFacts, DropFacts', NEW p \in Pop,
         PassFlock(p) \/ PopServer(p)
  PROVE  Drop!Next \/ UNCHANGED Drop!vars
<1> USE SpoolAssumption
<1> DEFINE u == pop[p].user
<1>1. /\ TypeOK /\ pop[p] \in PopThread /\ pop \in [Pop -> PopThread]
      /\ \A q \in Pop : PopInv(q)
      /\ PopInv(p)
  BY DEF SpoolInv, TypeOK
<1>2. pop[p].at # "read" => u \in Box
  BY <1>1 DEF PopInv
<1>3. pop[p].at \in {"trylock", "load", "quit", "write", "unlock"} => flock[u] = p
  BY <1>1 DEF PopInv, InSession
<1>4. /\ popMutex \in [Box -> Pop \cup {NoConn}]
      /\ file \in [Box -> Seq(Mail)]
  BY <1>1 DEF TypeOK
<1>5. pop[p].at \in {"trylock", "quit"} => popMutex[u] = NoConn
  <2>1. /\ \A q \in Pop : PopInv(q)
        /\ TypeOK
    BY <1>1
  <2> QED BY <1>1, <1>4, MutexUnderFlock
<1>6. /\ pop[p].at \in {"flock", "trylock", "load"} => pop[p].state = "AUTHORIZATION"
      /\ pop[p].at \in {"quit", "write", "unlock"} => pop[p].state = "UPDATE"
  BY <1>1 DEF PopInv, PopThread
<1>7. pop[p].state = "AUTHORIZATION" => absSession[p] = Drop!Closed
  BY DEF absSession, InSession, Drop!Closed
<1>8. pop'[p].state = "AUTHORIZATION" => absSession'[p] = Drop!Closed
  BY DEF absSession, InSession, Drop!Closed
<1>9. UNCHANGED <<smtp, crashes>> /\ UNCHANGED absOutbox
  <2>1. UNCHANGED <<smtp, crashes>>
    BY DEF PassFlock, PopServer, PassTrylock, PassRead, UpdateTruncate, UpdateWrite,
           UpdateClose, UpdateUnlock
  <2> QED BY <2>1, SameOutbox
<1>10. \A q \in Pop \ {p} : pop'[q] = pop[q]
  BY <1>1 DEF PassFlock, PopServer, PassTrylock, PassRead, UpdateTruncate, UpdateWrite,
          UpdateClose, UpdateUnlock
<1>11. ASSUME UNCHANGED file, pop'[p].at \in {"read", "trylock", "load"},
              pop[p].at \in {"flock", "trylock", "load"}
       PROVE  absDrop' = absDrop
  <2>1. \A b \in Box : file'[b] = file[b] /\ ~Rewrites(p, b) /\ ~Rewrites(p, b)'
    BY <1>11 DEF Rewrites
  <2>2. \A b \in Box : absDrop'[b] = absDrop[b]
    BY <1>10, <2>1, QuietDrop
  <2> QED BY <2>2, SameDrops
<1>12. CASE PassFlock(p) \/ PassTrylock(p)
  <2>1. /\ UNCHANGED file /\ pop'[p].at \in {"trylock", "load"}
        /\ pop[p].at \in {"flock", "trylock"} /\ pop'[p].state = pop[p].state
    BY <1>1, <1>5, <1>12 DEF PassFlock, PassTrylock, PopThread
  <2>2. absSession'[p] = absSession[p]
    BY <1>6, <1>7, <1>8, <2>1
  <2>3. absDrop' = absDrop
    BY <1>11, <2>1
  <2> QED BY <1>9, <1>10, <2>2, <2>3, SessionStep DEF Drop!vars
<1>13. CASE PassRead(p)
  <2>1. /\ UNCHANGED file /\ pop[p].at = "load" /\ pop'[p].at = "read"
        /\ pop'[p].state = "TRANSACTION" /\ pop'[p].user = u
        /\ pop'[p].marked = pop[p].marked
    BY <1>1, <1>13 DEF PassRead, PopThread
  <2>2. pop[p].marked = {} /\ pop[p].state = "AUTHORIZATION" /\ u \in Box /\ flock[u] = p
    BY <1>1, <1>2, <1>3, <1>6, <2>1 DEF PopInv
  <2>3. absSession'[p] = [box |-> u, marks |-> {}, closing |-> FALSE]
    BY <2>1, <2>2, NewSession
  <2>4. ASSUME NEW q \in Pop PROVE absSession[q].box # u
    <3>1. CASE InSession(q)
      <4>1. flock[pop[q].user] = q /\ q # p
        BY <1>1, <2>2, <3>1 DEF PopInv, InSession
      <4>2. pop[q].user # u
        BY <2>2, <4>1
      <4> QED BY <3>1, <4>2 DEF absSession
    <3>2. CASE ~InSession(q)
      <4>1. absSession[q].box = NoBox
        BY <3>2 DEF absSession
      <4> QED BY <2>2, <4>1
    <3> QED BY <3>1, <3>2
  <2>5. Drop!Open(p, u)
    <3>1. ~Drop!InSession(u) /\ absSession[p] = Drop!Closed
      BY <1>7, <2>2, <2>4 DEF Drop!InSession
    <3>2. absSession' = [absSession EXCEPT ![p] = absSession'[p]]
      BY <1>10, SessionStep
    <3>3. [Drop!Closed EXCEPT !.box = u] = [box |-> u, marks |-> {}, closing |-> FALSE]
      <4> DEFINE f == FALSE
      <4>1. Drop!Closed = [box |-> NoBox, marks |-> {}, closing |-> f]
        BY DEF Drop!Closed
      <4> HIDE DEF u, f
      <4>2. [Drop!Closed EXCEPT !.box = u] = [box |-> u, marks |-> {}, closing |-> f]
        BY <4>1
      <4> QED BY <4>2 DEF f
    <3>4. UNCHANGED <<absDrop, absOutbox, crashes>>
      BY <1>9, <1>11, <2>1
    <3> HIDE DEF u
    <3> QED BY <2>3, <3>1, <3>2, <3>3, <3>4 DEF Drop!Open
  <2> QED BY <2>2, <2>5 DEF Drop!Next
<1>14. CASE UpdateTruncate(p) \/ UpdateWrite(p) \/ UpdateClose(p)
  <2>1. pop[p].state = "UPDATE"
    BY <1>6, <1>14 DEF UpdateTruncate, UpdateWrite, UpdateClose
  <2>2. /\ pop'[p].user = u /\ pop'[p].emails = pop[p].emails
        /\ pop'[p].marked = pop[p].marked /\ pop'[p].state = pop[p].state
    <3>1. CASE UpdateTruncate(p)
      BY <1>1, <1>5, <3>1 DEF UpdateTruncate, PopThread
    <3>2. CASE UpdateWrite(p)
      BY <1>1, <3>2 DEF UpdateWrite, PopThread
    <3>3. CASE UpdateClose(p)
      BY <1>1, <3>3 DEF UpdateClose, PopThread
    <3> QED BY <1>14, <3>1, <3>2, <3>3
  <2>3. \A b \in Box \ {u} : file'[b] = file[b]
    BY <1>4, <1>14 DEF UpdateTruncate, UpdateWrite, UpdateClose
  <2>4. InSession(p) /\ InSession(p)'
    BY <2>1, <2>2 DEF InSession
  <2> QED BY <1>9, <1>10, <2>2, <2>3, <2>4, SameSession
<1>15. CASE UpdateUnlock(p)
  <2>1. /\ pop[p].at = "unlock" /\ UNCHANGED file /\ u \in Box
        /\ pop[p].state = "UPDATE" /\ pop'[p].state = "AUTHORIZATION"
        /\ pop'[p].at = "read"
    BY <1>1, <1>2, <1>6, <1>15 DEF UpdateUnlock, NewPop
  <2>2. Drop!IsRest(file[u], pop[p].emails, pop[p].marked, Len(pop[p].emails))
    BY <1>1, <2>1 DEF PopInv
  <2>3. InSession(p) /\ absDrop[u] = pop[p].emails
    BY <2>1 DEF InSession, DropFacts
  <2>4. absDrop'[u] = file[u]
    <3>1. ASSUME NEW q \in Pop, NEW b \in Box, b = u PROVE ~Rewrites(q, b)'
      <4>1. CASE q = p
        BY <2>1, <4>1 DEF Rewrites
      <4>2. CASE q # p
        <5>1. pop'[q] = pop[q]
          BY <1>10, <4>2
        <5>2. ~Rewrites(q, b)
          BY <2>1, <2>3, <3>1, <4>2 DEF DropFacts, Rewrites
        <5> QED BY <5>1, <5>2 DEF Rewrites
      <4> QED BY <4>1, <4>2
    <3>2. \A b \in Box : b = u => absDrop'[b] = file'[b]
      BY <3>1 DEF DropFacts
    <3> QED BY <2>1, <3>2
  <2>5. absDrop' = [absDrop EXCEPT ![u] = absDrop'[u]]
    <3>1. ASSUME NEW b \in Box, b # u PROVE absDrop'[b] = absDrop[b]
      <4>1. ~Rewrites(p, b) /\ ~Rewrites(p, b)' /\ file'[b] = file[b]
        BY <2>1, <3>1 DEF Rewrites
      <4> QED BY <1>10, <4>1, QuietDrop
    <3>2. absDrop = [b \in Box |-> absDrop[b]] /\ absDrop' = [b \in Box |-> absDrop'[b]]
      BY DEF DropFacts
    <3> HIDE DEF u, absDrop
    <3> QED BY <2>1, <3>1, <3>2
  <2>6. /\ absSession[p].box = u /\ absSession[p].marks = pop[p].marked
    BY <2>3 DEF absSession
  <2>7. absSession[p].closing
    <3>1. absSession[p].closing = (pop[p].state = "UPDATE")
      BY <2>3, Zenon DEF absSession
    <3> QED BY <2>1, <3>1
  <2>8. absSession' = [absSession EXCEPT ![p] = Drop!Closed]
    BY <1>8, <1>10, <2>1, SessionStep
  <2>9. Drop!Update(p)
    BY <1>9, <2>2, <2>3, <2>4, <2>5, <2>6, <2>7, <2>8 DEF Drop!Update
  <2> QED BY <2>9 DEF Drop!Next
<1> QED BY <1>12, <1>13, <1>14, <1>15 DEF PopServer
(* A crash is a crash.                                                      *)
LEMMA RefineCrash ==
  ASSUME SpoolInv, DropFacts, DropFacts', SmtpCrash \/ PopCrash
  PROVE  Drop!Next
<1>1. CASE SmtpCrash
  <2>1. /\ UNCHANGED <<pop, file>> /\ crashes' = crashes + 1
        /\ \A c \in Smtp : smtp'[c].at = "read"
    BY <1>1 DEF SmtpCrash, NewSmtp
  <2>2. \A c \in Smtp : ToGo(c)' = <<>>
    BY <2>1 DEF ToGo
  <2>3. absOutbox' = [c \in Smtp |-> Drop!Nothing]
    BY <2>2 DEF absOutbox, Drop!Nothing
  <2>4. Drop!SmtpCrash
    BY <2>1, <2>3, SameDrop DEF Drop!SmtpCrash
  <2> QED BY <2>4 DEF Drop!Next
<1>2. CASE PopCrash
  <2>1. /\ UNCHANGED <<smtp, file>> /\ crashes' = crashes + 1
        /\ \A p \in Pop : pop'[p].at = "read" /\ pop'[p].state = "AUTHORIZATION"
    BY <1>2 DEF PopCrash, NewPop
  <2>2. absSession' = [p \in Pop |-> Drop!Closed]
    <3>1. \A p \in Pop : ~InSession(p)'
      BY <2>1 DEF InSession
    <3> QED BY <3>1 DEF absSession, Drop!Closed
  <2>3. \A b \in Box : absDrop'[b] = file[b]
    <3>1. \A p \in Pop : \A b \in Box : ~Rewrites(p, b)'
      BY <2>1 DEF Rewrites
    <3> QED BY <2>1, <3>1 DEF DropFacts
  <2>4. ASSUME NEW b \in Box
        PROVE  \/ absDrop'[b] = absDrop[b]
               \/ \E p \in Pop :
                    /\ absSession[p].box = b /\ absSession[p].closing
                    /\ \E k \in 0..Len(absDrop[b]) :
                         Drop!IsRest(absDrop'[b], absDrop[b], absSession[p].marks, k)
    <3>1. CASE \E p \in Pop : Rewrites(p, b)
      <4>1. PICK p \in Pop : Rewrites(p, b)
        BY <3>1
      <4>2. /\ InSession(p) /\ pop[p].state = "UPDATE" /\ pop[p].user = b
            /\ absDrop[b] = pop[p].emails /\ pop[p].at \in {"write", "unlock"}
        BY <4>1 DEF DropFacts, Rewrites
      <4>3. absSession[p].box = b /\ absSession[p].marks = pop[p].marked
        BY <4>2 DEF absSession
      <4>4. absSession[p].closing
        <5>1. absSession[p].closing = (pop[p].state = "UPDATE")
          BY <4>2, Zenon DEF absSession
        <5> QED BY <4>2, <5>1
      <4>5. /\ PopInv(p) /\ pop[p].next \in Nat \ {0}
            /\ Len(pop[p].emails) \in Nat
        <5>1. pop[p].emails \in Seq(Mail) /\ pop[p].next \in Nat \ {0} /\ PopInv(p)
          BY DEF SpoolInv, TypeOK, PopThread
        <5> QED BY <5>1, LenProperties
      <4>6. PICK k \in 0..Len(pop[p].emails) :
              Drop!IsRest(file[b], pop[p].emails, pop[p].marked, k)
        <5>1. CASE pop[p].at = "write"
          <6>1. /\ pop[p].next - 1 \in 0..Len(pop[p].emails)
                /\ Drop!IsRest(file[b], pop[p].emails, pop[p].marked, pop[p].next - 1)
            BY <4>2, <4>5, <5>1 DEF PopInv
          <6> QED BY <6>1
        <5>2. CASE pop[p].at = "unlock"
          <6>1. /\ Len(pop[p].emails) \in 0..Len(pop[p].emails)
                /\ Drop!IsRest(file[b], pop[p].emails, pop[p].marked, Len(pop[p].emails))
            BY <4>2, <4>5, <5>2 DEF PopInv
          <6> QED BY <6>1
        <5> QED BY <4>2, <5>1, <5>2
      <4>7. Drop!IsRest(absDrop'[b], absDrop[b], absSession[p].marks, k)
        BY <2>3, <4>2, <4>3, <4>6
      <4>8. k \in 0..Len(absDrop[b])
        BY <4>2, <4>6
      <4> QED BY <4>3, <4>4, <4>7, <4>8
    <3>2. CASE \A p \in Pop : ~Rewrites(p, b)
      BY <2>3, <3>2 DEF DropFacts
    <3> QED BY <3>1, <3>2
  <2>5. absDrop' = [b \in Box |-> absDrop'[b]]
    BY DEF DropFacts
  <2>6. absOutbox' = absOutbox
    BY <2>1, SameOutbox
  <2>7. Drop!PopCrash
    BY <2>1, <2>2, <2>4, <2>5, <2>6, Zenon DEF Drop!PopCrash
  <2> QED BY <2>7 DEF Drop!Next
<1> QED BY <1>1, <1>2

(* The servers start with every connection new and the old mails in place.  *)
LEMMA RefineInit == Init => Drop!Init
<1> SUFFICES ASSUME Init PROVE Drop!Init
  OBVIOUS
<1> USE SpoolAssumption
<1>1. SpoolInv
  BY InitInv
<1>2. /\ DropFacts /\ file \in [Box -> Seq(Mail)]
  BY <1>1, DropValue DEF SpoolInv, TypeOK
<1>3. /\ crashes = 0
      /\ \A c \in Smtp : smtp[c].at = "read"
      /\ \A p \in Pop : pop[p].at = "read" /\ pop[p].state = "AUTHORIZATION"
  BY DEF Init, NewSmtp, NewPop
<1>4. absSession = [p \in Pop |-> Drop!Closed]
  <2>1. \A p \in Pop : ~InSession(p)
    BY <1>3 DEF InSession
  <2> QED BY <2>1 DEF absSession, Drop!Closed
<1>5. absOutbox = [c \in Smtp |-> Drop!Nothing]
  <2>1. \A c \in Smtp : ToGo(c) = <<>>
    BY <1>3 DEF ToGo
  <2> QED BY <2>1 DEF absOutbox, Drop!Nothing
<1>6. absDrop \in [Box -> Seq(Mail)]
  <2>1. \A p \in Pop : \A b \in Box : ~Rewrites(p, b)
    BY <1>3 DEF Rewrites
  <2>2. \A b \in Box : absDrop[b] \in Seq(Mail)
    BY <1>2, <2>1 DEF DropFacts
  <2>3. absDrop = [b \in Box |-> absDrop[b]]
    BY <1>2 DEF DropFacts
  <2> HIDE DEF absDrop
  <2> QED BY <2>2, <2>3
<1> QED BY <1>3, <1>4, <1>5, <1>6 DEF Drop!Init

(* Every step of the servers is a step of Maildrop or is not seen there.    *)
LEMMA RefineNext ==
  ASSUME SpoolInv, SpoolInv', DropFacts, DropFacts', [Next]_vars
  PROVE  [Drop!Next]_(Drop!vars)
<1>1. ASSUME NEW c \in Smtp, SmtpClient(c) PROVE Drop!Next \/ UNCHANGED Drop!vars
  BY <1>1, RefineSmtpClient
<1>2. ASSUME NEW c \in Smtp, DeliverFlock(c) \/ SmtpServer(c)
      PROVE  Drop!Next \/ UNCHANGED Drop!vars
  BY <1>2, RefineSmtpServer
<1>3. ASSUME NEW p \in Pop, PopClient(p) PROVE Drop!Next \/ UNCHANGED Drop!vars
  BY <1>3, RefinePopClient
<1>4. ASSUME NEW p \in Pop, PassFlock(p) \/ PopServer(p)
      PROVE  Drop!Next \/ UNCHANGED Drop!vars
  BY <1>4, RefinePopServer
<1>5. CASE SmtpCrash \/ PopCrash
  BY <1>5, RefineCrash
<1>6. CASE UNCHANGED vars
  <2>1. UNCHANGED <<smtp, pop, file, crashes>>
    BY <1>6 DEF vars, files
  <2> QED BY <2>1, SameDrop, SameOutbox DEF Drop!vars
<1> QED BY <1>1, <1>2, <1>3, <1>4, <1>5, <1>6 DEF Next

(* smtp.cc and pop3.cc implement Maildrop: for any number of mailboxes and  *)
(* connections, mails and crashes, each mail arrives once at each recipient *)
(* and outside sessions, sessions on a maildrop exclude each other, QUIT    *)
(* removes the marked mails only.                                           *)
THEOREM SpoolImplementsMaildrop == Spec => ImplementsMaildrop
<1>1. (SpoolInv => DropFacts)'
  BY DropValue, PTL
<1>2. SpoolInv /\ SpoolInv' /\ [Next]_vars => [Drop!Next]_(Drop!vars)
  BY <1>1, DropValue, RefineNext
<1> QED BY <1>2, RefineInit, SpoolInvariant, PTL DEF Spec, ImplementsMaildrop, Drop!Spec
=============================================================================
