----------------------------- MODULE MCMailSpool ----------------------------
(* Values for the model checker: one or two mailboxes, senders and readers.  *)
EXTENDS MailSpool

CONSTANTS b1, b2, s1, s2, p1, p2
=============================================================================
