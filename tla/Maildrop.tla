------------------------------ MODULE Maildrop ------------------------------
(***************************************************************************)
(* What the two mail servers of email_service promise together, without    *)
(* locks and without files: a mail that SMTP has taken goes once to each   *)
(* of its recipients, a POP3 session has its maildrop for itself from its  *)
(* first look to its QUIT, QUIT removes the marked mails and nothing else, *)
(* and a crash costs the mails not yet delivered and, of a maildrop that   *)
(* is being rewritten, only what had not been written back.                *)
(* MailSpool, the code, is shown to implement this module.                 *)
(***************************************************************************)
EXTENDS Naturals, Sequences

CONSTANTS
  Box,      \* maildrops
  Smtp,     \* connections to the SMTP server
  Pop,      \* connections to the POP3 server
  NoBox,    \* the box of a connection that has none
  Mail      \* what a client may send

VARIABLES
  drop,     \* box -> the mails in it, in order of arrival
  session,  \* POP3 connection -> its box, its marks, whether it is in UPDATE
  outbox,   \* SMTP connection -> the mail it delivers and the boxes to go
  crashes   \* crashes so far: what a crash may do, nothing else may

vars == <<drop, session, outbox, crashes>>

Closed == [box |-> NoBox, marks |-> {}, closing |-> FALSE]
Nothing == [mail |-> <<>>, to |-> <<>>]

Init ==
  /\ drop \in [Box -> Seq(Mail)]
  /\ session = [p \in Pop |-> Closed]
  /\ outbox = [c \in Smtp |-> Nothing]
  /\ crashes = 0

\* new is what is left of the first k mails of old without those at gone
IsRest(new, old, gone, k) ==
  \E h \in [1..Len(new) -> 1..k] :
    /\ {h[i] : i \in 1..Len(new)} = (1..k) \ gone
    /\ \A i, j \in 1..Len(new) : i < j => h[i] < h[j]
    /\ \A i \in 1..Len(new) : new[i] = old[h[i]]

InSession(b) == \E p \in Pop : session[p].box = b

Submit(c) ==
  /\ outbox[c] = Nothing
  /\ outbox'[c] \in [mail : Mail, to : Seq(Box) \ {<<>>}]
  /\ outbox' = [outbox EXCEPT ![c] = outbox'[c]]
  /\ UNCHANGED <<drop, session, crashes>>

Deliver(c) ==
  /\ outbox[c].to # <<>>
  /\ LET b == Head(outbox[c].to) rest == Tail(outbox[c].to) IN
       /\ ~InSession(b)
       /\ drop' = [drop EXCEPT ![b] = Append(@, outbox[c].mail)]
       /\ outbox' = [outbox EXCEPT ![c] =
                       IF rest = <<>> THEN Nothing ELSE [@ EXCEPT !.to = rest]]
  /\ UNCHANGED <<session, crashes>>

Open(p, b) ==
  /\ session[p] = Closed
  /\ ~InSession(b)
  /\ session' = [session EXCEPT ![p] = [Closed EXCEPT !.box = b]]
  /\ UNCHANGED <<drop, outbox, crashes>>

Mark(p) ==
  /\ session[p].box \in Box /\ ~session[p].closing
  /\ \E i \in DOMAIN drop[session[p].box] \ session[p].marks :
       session' = [session EXCEPT ![p].marks = @ \cup {i}]
  /\ UNCHANGED <<drop, outbox, crashes>>

Unmark(p) ==
  /\ session[p].box \in Box /\ ~session[p].closing
  /\ session' = [session EXCEPT ![p].marks = {}]
  /\ UNCHANGED <<drop, outbox, crashes>>

Close(p) ==
  /\ session[p].box \in Box /\ ~session[p].closing
  /\ session' = [session EXCEPT ![p].closing = TRUE]
  /\ UNCHANGED <<drop, outbox, crashes>>

Update(p) ==
  LET b == session[p].box IN
  /\ session[p].closing
  /\ drop' = [drop EXCEPT ![b] = drop'[b]]
  /\ IsRest(drop'[b], drop[b], session[p].marks, Len(drop[b]))
  /\ session' = [session EXCEPT ![p] = Closed]
  /\ UNCHANGED <<outbox, crashes>>

SmtpCrash ==
  /\ crashes' = crashes + 1
  /\ outbox' = [c \in Smtp |-> Nothing]
  /\ UNCHANGED <<drop, session>>

PopCrash ==
  /\ crashes' = crashes + 1
  /\ drop' = [b \in Box |-> drop'[b]]
  /\ \A b \in Box :
       \/ drop'[b] = drop[b]
       \/ \E p \in Pop :
            /\ session[p].box = b /\ session[p].closing
            /\ \E k \in 0..Len(drop[b]) :
                 IsRest(drop'[b], drop[b], session[p].marks, k)
  /\ session' = [p \in Pop |-> Closed]
  /\ UNCHANGED outbox

Next ==
  \/ \E c \in Smtp : Submit(c) \/ Deliver(c)
  \/ \E p \in Pop :
       \/ \E b \in Box : Open(p, b)
       \/ Mark(p)
       \/ Unmark(p)
       \/ Close(p)
       \/ Update(p)
  \/ SmtpCrash
  \/ PopCrash

Spec == Init /\ [][Next]_vars
=============================================================================
