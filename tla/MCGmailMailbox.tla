--------------------------- MODULE MCGmailMailbox ---------------------------
(* The mailbox with a few mails, attachments and overlapping requests.     *)
EXTENDS GmailMailbox, TLC

Symmetry == Permutations(Threads)
=============================================================================
