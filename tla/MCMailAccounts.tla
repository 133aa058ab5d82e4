--------------------------- MODULE MCMailAccounts ---------------------------
(***************************************************************************)
(* The accounts the service reads mails from: the connected Gmail account  *)
(* and the mailboxes of the other two providers.  The two keep nothing in  *)
(* common, so a behaviour moves one and leaves the other at its start.     *)
(*                                                                         *)
(* Two addresses are enough for one to be shown while the other is used,   *)
(* two handlers for a token refresh to overlap a connection, one restart   *)
(* for what is kept to meet what is forgotten.  A mailbox of two mails of  *)
(* which one is fetched tells a number on the server from a place among    *)
(* the selected mails.  There is a .env: without one ShownIsUsed says      *)
(* nothing.                                                                *)
(***************************************************************************)
EXTENDS GmailAccount, ProviderMailbox, TLC

VARIABLE moves

Init ==
  /\ AccountInit /\ MailboxInit
  /\ moves \in {"gmail", "provider"}
  /\ moves = "gmail" => provider = "naver" /\ saved = NoOwner
  /\ dotenvExists
Next ==
  \/ moves = "gmail" /\ AccountNext /\ UNCHANGED <<mailboxVars, moves>>
  \/ moves = "provider" /\ MailboxNext /\ UNCHANGED <<accountVars, moves>>
Spec == Init /\ [][Next]_<<accountVars, mailboxVars, moves>>

Symmetry == Permutations(Handlers) \cup Permutations(Addresses)
              \cup Permutations(Owners) \cup Permutations(Letters)
=============================================================================
