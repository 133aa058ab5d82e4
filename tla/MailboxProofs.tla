--------------------------- MODULE MailboxProofs ---------------------------
(***************************************************************************)
(* Proofs about the mailboxes of the service: GmailMailbox, the account it *)
(* is connected to (GmailAccount) and the other providers (ProviderMailbox)*)
(*                                                                         *)
(* The mails of Gmail, by one inductive invariant in five parts: what the  *)
(* counts need, what keeps trashed mails trashed, what a request may still *)
(* owe, which thread runs which job, and why no change is forgotten.       *)
(*                                                                         *)
(* A Gmail connection that nobody disturbs is the work of one handler,     *)
(* which stores its token everywhere before it ends; afterwards every      *)
(* store, and every token in use, is of one address, until the next        *)
(* connection begins.                                                      *)
(*                                                                         *)
(* A sync of a provider mailbox that the form does not touch works with    *)
(* one account, the one now configured; so what it has fetched is of that  *)
(* account's mailbox, and no two such syncs are of different accounts.     *)
(***************************************************************************)
EXTENDS GmailMailbox, GmailAccount, ProviderMailbox, FiniteSetTheorems, SequenceTheorems, TLAPS

-----------------------------------------------------------------------------
(* The mails of Gmail.                                                     *)

MailboxTypeOK ==
  /\ gmail \in [Mails -> Content]
  /\ row \in [Mails -> [version: Version, deleted: BOOLEAN, count: Nat]]
  /\ att \in [Mails -> [Attachments -> Attachment]]
  /\ file \in [Mails -> SUBSET Attachments]
  /\ job \in [Mails -> JobStatus]
  /\ req \in [Requests -> Request]
  /\ pollLock \in Requests \cup {NoRequest}
  /\ thread \in [Threads -> Thread]
  /\ current \in Threads \cup {NoThread}
  /\ seen \in [Mails -> Version]
  /\ missed \subseteq Mails /\ trashed \subseteq Mails

(* What is stored, copied or about to be trashed, Gmail has delivered.     *)
Delivered(m) == gmail[m].version > 0
RequestKnown(r, delivered) ==
  /\ \A m \in Mails : r.copy[m].version > 0 => m \in delivered
  /\ r.pc \in {"trash", "mark"} => r.mail \in delivered
KnownMails == {m \in Mails : Delivered(m)}
GmailKnows ==
  /\ \A m \in Mails : Stored(m) => Delivered(m)
  /\ \A q \in Requests : RequestKnown(req[q], KnownMails)

(* A trashed mail is outside the inbox, and no sync holds a copy of it.    *)
WriteSafe(r, mails) == r.pc = "write" => \A m \in mails : r.copy[m] = Nothing
TrashOK ==
  /\ \A m \in trashed : row[m].deleted /\ Delivered(m) /\ ~gmail[m].inbox
  /\ \A q \in Requests : WriteSafe(req[q], trashed)

(* The ids of a request: those it has found changed and has still to       *)
(* register a job for, unless it is a poll.                                *)
RequestOK(q, r, lock) ==
  /\ r.pc \in {"idle", "fetch", "write", "finish", "rows_again", "trash", "mark"} => r.ids = {}
  /\ r.pc = "lock" => r.poll
  /\ lock = q => r.poll /\ r.pc \in {"register", "start"}
  /\ r.pc = "register" /\ lock # q => r.ids \subseteq r.todo
  /\ r.pc = "start" /\ lock # q => r.ids = {}
RequestsOK == \A q \in Requests : RequestOK(q, req[q], pollLock)

Owes(q, r, lock, m) == r.pc \in {"missing", "register"} /\ lock # q /\ m \in r.ids
Owed(m) == \E q \in Requests : Owes(q, req[q], pollLock, m)

(* A thread that runs a job is alive, and the only one to run it.          *)
ThreadsOK ==
  /\ \A t \in Threads : thread[t].mail # NoMail => thread[t].alive /\ job[thread[t].mail] = "running"
  /\ \A t, u \in Threads : thread[t].mail = thread[u].mail /\ thread[t].mail # NoMail => t = u

(* A change is owed a job, awaits its analysis or is being read; and what  *)
(* reads an older content knows of no newer one but an owed one.           *)
ChangeOK(m) ==
  m \notin missed =>
    /\ seen[m] = row[m].version \/ job[m] = "pending" \/ ReadByRunning(m) \/ Owed(m)
    /\ \A t \in Threads : thread[t].mail = m /\ thread[t].version # row[m].version => Owed(m)

MailboxInv ==
  /\ MailboxTypeOK
  /\ CountMatchesAttachments
  /\ GmailKnows
  /\ TrashOK
  /\ RequestsOK
  /\ ThreadsOK
  /\ \A m \in Mails : ChangeOK(m)

-----------------------------------------------------------------------------
(* Steps of a request.                                                     *)
GmailKeeps ==
  /\ gmail' \in [Mails -> Content]
  /\ \A m \in Mails : gmail'[m].version = gmail[m].version /\ (gmail'[m].inbox => gmail[m].inbox)

ThreadsKeep ==
  /\ thread' \in [Threads -> Thread] /\ current' \in Threads \cup {NoThread}
  /\ \A t \in Threads :
       /\ thread'[t].mail = thread[t].mail
       /\ thread[t].mail # NoMail =>
            thread'[t].version = thread[t].version /\ (thread[t].alive => thread'[t].alive)

(* r is what the request becomes.                                          *)
Moves(q, r) ==
  /\ r \in Request
  /\ req' = [req EXCEPT ![q] = r]
  /\ pollLock' \in Requests \cup {NoRequest}
  /\ \A p \in Requests \ {q} : pollLock' = p <=> pollLock = p
  /\ RequestKnown(r, KnownMails)
  /\ WriteSafe(r, trashed)
  /\ RequestOK(q, r, pollLock')

LEMMA MovesIs ==
  ASSUME MailboxTypeOK, NEW q \in Requests, NEW r, Moves(q, r)
  PROVE  /\ req' \in [Requests -> Request] /\ req'[q] = r
         /\ \A p \in Requests \ {q} : req'[p] = req[p]
  BY DEF Moves, MailboxTypeOK

LEMMA KnownStays ==
  ASSUME MailboxTypeOK, GmailKeeps
  PROVE  KnownMails' = KnownMails
  BY DEF KnownMails, Delivered, GmailKeeps

LEMMA CountStays ==
  ASSUME CountMatchesAttachments, UNCHANGED <<row, att>>
  PROVE  CountMatchesAttachments'
  BY DEF CountMatchesAttachments, Live

(* Whatever the rows become, if their versions stay.                       *)
LEMMA RequestMovesRows ==
  ASSUME MailboxInv, NEW q \in Requests, NEW r, Moves(q, r), GmailKeeps, ThreadsKeep,
         row' \in [Mails -> [version: Version, deleted: BOOLEAN, count: Nat]],
         \A m \in Mails : row'[m].version = row[m].version,
         trashed' \subseteq Mails, CountMatchesAttachments', TrashOK',
         UNCHANGED <<att, job, seen>>,
         file' \in [Mails -> SUBSET Attachments],
         missed \subseteq missed', missed' \subseteq Mails,
         \A m \in Mails : Owes(q, req[q], pollLock, m) => m \in missed' \/ Owes(q, r, pollLock', m)
  PROVE  MailboxInv'
<1>1. /\ req' \in [Requests -> Request] /\ req'[q] = r
      /\ \A p \in Requests \ {q} : req'[p] = req[p]
  BY MovesIs DEF MailboxInv
<1>2. MailboxTypeOK'
  BY <1>1 DEF MailboxInv, MailboxTypeOK, Moves, GmailKeeps, ThreadsKeep
<1>3. GmailKnows'
  <2>1. KnownMails' = KnownMails
    BY KnownStays DEF MailboxInv
  <2>2. \A m \in Mails : Stored(m)' => Delivered(m)'
    BY DEF MailboxInv, GmailKnows, GmailKeeps, Stored, Delivered
  <2>3. \A p \in Requests : RequestKnown(req'[p], KnownMails)
    BY <1>1 DEF MailboxInv, GmailKnows, Moves
  <2>. QED  BY <2>1, <2>2, <2>3 DEF GmailKnows
<1>4. RequestsOK'
  <2>1. \A p \in Requests \ {q} : RequestOK(p, req[p], pollLock')
    BY DEF MailboxInv, RequestsOK, Moves, RequestOK
  <2>. QED  BY <1>1, <2>1 DEF RequestsOK, Moves
<1>5. ThreadsOK'
  BY DEF MailboxInv, ThreadsOK, ThreadsKeep
<1>6. ASSUME NEW m \in Mails  PROVE ChangeOK(m)'
  <2>1. Owed(m) => m \in missed' \/ Owed(m)'
    <3>1. \A p \in Requests \ {q} : Owes(p, req[p], pollLock, m) => Owes(p, req'[p], pollLock', m)
      BY <1>1 DEF Owes, Moves
    <3>. QED  BY <1>1, <3>1 DEF Owed
  <2>2. ReadByRunning(m) => ReadByRunning(m)'
    BY NamesAssumption DEF ReadByRunning, ThreadsKeep
  <2>3. \A t \in Threads : thread'[t].mail = m =>
          thread[t].mail = m /\ thread'[t].version = thread[t].version
    BY NamesAssumption DEF ThreadsKeep
  <2>. QED  BY <2>1, <2>2, <2>3 DEF MailboxInv, ChangeOK
<1>. QED  BY <1>2, <1>3, <1>4, <1>5, <1>6 DEF MailboxInv

LEMMA RequestMoves ==
  ASSUME MailboxInv, NEW q \in Requests, NEW r, Moves(q, r), GmailKeeps, ThreadsKeep,
         UNCHANGED <<row, att, job, seen, trashed>>,
         file' \in [Mails -> SUBSET Attachments],
         missed \subseteq missed', missed' \subseteq Mails,
         \A m \in Mails : Owes(q, req[q], pollLock, m) => m \in missed' \/ Owes(q, r, pollLock', m)
  PROVE  MailboxInv'
<1>1. CountMatchesAttachments'
  BY CountStays DEF MailboxInv
<1>2. TrashOK'
  <2>1. /\ req'[q] = r /\ \A p \in Requests \ {q} : req'[p] = req[p]
    BY MovesIs DEF MailboxInv
  <2>2. \A p \in Requests : WriteSafe(req'[p], trashed)
    BY <2>1 DEF MailboxInv, TrashOK, Moves
  <2>. QED  BY <2>2 DEF MailboxInv, MailboxTypeOK, TrashOK, GmailKeeps, Delivered
<1>3. /\ row' \in [Mails -> [version: Version, deleted: BOOLEAN, count: Nat]]
      /\ \A m \in Mails : row'[m].version = row[m].version
      /\ trashed' \subseteq Mails
  BY DEF MailboxInv, MailboxTypeOK
<1>. QED  BY <1>1, <1>2, <1>3, RequestMovesRows

LEMMA IdleFits ==
  /\ IdleRequest \in Request
  /\ IdleRequest.pc = "idle" /\ IdleRequest.ids = {} /\ IdleRequest.todo = {}
  /\ IdleRequest.copy = [m \in Mails |-> Nothing]
  BY BoundsAssumption DEF IdleRequest, Request, Nothing, Content, Version

(* What Gmail knows of a row that copies nothing, and of one that keeps    *)
(* the copy it had.                                                        *)
LEMMA EmptyCopyKnown ==
  ASSUME NEW r, NEW delivered, r.copy = [m \in Mails |-> Nothing], r.pc \notin {"trash", "mark"}
  PROVE  RequestKnown(r, delivered)
  BY DEF RequestKnown, Nothing

LEMMA SameCopyKnown ==
  ASSUME NEW o, NEW r, NEW delivered, RequestKnown(o, delivered), r.copy = o.copy,
         r.pc \in {"trash", "mark"} => o.pc \in {"trash", "mark"} /\ r.mail = o.mail
  PROVE  RequestKnown(r, delivered)
  BY DEF RequestKnown

(* The row of a request and what is known of it.                           *)
LEMMA RowOf ==
  ASSUME MailboxInv, NEW q \in Requests
  PROVE  /\ req[q] \in Request
         /\ RequestKnown(req[q], KnownMails)
         /\ WriteSafe(req[q], trashed)
         /\ RequestOK(q, req[q], pollLock)
  BY DEF MailboxInv, MailboxTypeOK, GmailKnows, TrashOK, RequestsOK

LEMMA LockFree ==
  ASSUME MailboxInv, NEW q \in Requests, req[q].pc \notin {"register", "start"}
  PROVE  pollLock # q
  BY RowOf DEF RequestOK

LEMMA GmailStays ==
  ASSUME MailboxTypeOK, gmail' = gmail
  PROVE  GmailKeeps
  BY DEF MailboxTypeOK, GmailKeeps

LEMMA ThreadsStay ==
  ASSUME MailboxTypeOK, UNCHANGED <<thread, current>>
  PROVE  ThreadsKeep
  BY DEF MailboxTypeOK, ThreadsKeep

(* The handler returns.                                                    *)
LEMMA ReturnMoves ==
  ASSUME MailboxInv, NEW q \in Requests, Return(q),
         pollLock' \in Requests \cup {NoRequest}, pollLock' # q,
         \A p \in Requests \ {q} : pollLock' = p <=> pollLock = p
  PROVE  Moves(q, IdleRequest)
<1>1. RequestKnown(IdleRequest, KnownMails)
  BY IdleFits, EmptyCopyKnown
<1>2. WriteSafe(IdleRequest, trashed) /\ RequestOK(q, IdleRequest, pollLock')
  BY IdleFits DEF WriteSafe, RequestOK
<1>. QED  BY <1>1, <1>2, IdleFits DEF Moves, Return

LEMMA ListsFit ==
  ASSUME NEW r \in Request, NEW first \in SUBSET Mails, NEW second \in SUBSET Mails,
         NEW s, s = WithLists(r, first, second)
  PROVE  /\ s \in Request
         /\ s.copy = r.copy /\ s.ids = r.ids /\ s.poll = r.poll /\ s.mail = r.mail
         /\ s.pc \in {"register", "finish"}
         /\ first # {} => s.pc = "register" /\ s.todo = first
<1>1. CASE first # {}
  BY <1>1 DEF WithLists, Request
<1>2. CASE first = {} /\ second # {}
  BY <1>2 DEF WithLists, Request
<1>3. CASE first = {} /\ second = {}
  BY <1>3 DEF WithLists, Request
<1>. QED  BY <1>1, <1>2, <1>3

-----------------------------------------------------------------------------
LEMMA FetchStep ==
  ASSUME MailboxInv, NEW q \in Requests, req[q].pc \in {"idle", "fetch"}, Fetch(q)
  PROVE  MailboxInv'
<1>. DEFINE o == req[q]
<1>1. PICK broken \in SUBSET {x \in Mails \X Attachments : x[2] \in InboxCopy[x[1]].atts} :
        /\ file' = [m \in Mails |-> file[m] \cup {a \in InboxCopy[m].atts : <<m, a>> \notin broken}]
        /\ req' = [req EXCEPT ![q] = [o EXCEPT !.pc = "write", !.copy = InboxCopy,
                                               !.broken = broken]]
  BY DEF Fetch, MailboxInv, MailboxTypeOK
<1>. DEFINE r == [o EXCEPT !.pc = "write", !.copy = InboxCopy, !.broken = broken]
<1>2. o \in Request /\ RequestOK(q, o, pollLock) /\ pollLock # q
  BY RowOf, LockFree
<1>3. /\ InboxCopy \in [Mails -> Content]
      /\ \A m \in Mails : InboxCopy[m].version > 0 => gmail[m].version > 0
      /\ \A m \in Mails : ~gmail[m].inbox => InboxCopy[m] = Nothing
  BY BoundsAssumption DEF MailboxInv, MailboxTypeOK, InboxCopy, Content, Nothing, Version
<1>4. file' \in [Mails -> SUBSET Attachments]
  BY <1>1, <1>3 DEF MailboxInv, MailboxTypeOK, Content
<1>5. r \in Request /\ r.pc = "write" /\ r.copy = InboxCopy /\ r.ids = o.ids
  BY <1>2, <1>3 DEF Request
<1>. HIDE DEF r
<1>6. RequestKnown(r, KnownMails)
  BY <1>3, <1>5 DEF RequestKnown, KnownMails, Delivered
<1>7. WriteSafe(r, trashed)
  BY <1>3, <1>5 DEF WriteSafe, MailboxInv, MailboxTypeOK, TrashOK
<1>8. RequestOK(q, r, pollLock)
  BY <1>2, <1>5 DEF RequestOK
<1>9. UNCHANGED <<gmail, row, att, job, pollLock, thread, current, seen, missed, trashed>>
  BY DEF Fetch, threadVars, history
<1>10. Moves(q, r)
  BY <1>1, <1>5, <1>6, <1>7, <1>8, <1>9 DEF Moves, MailboxInv, MailboxTypeOK, r
<1>11. \A m \in Mails : ~Owes(q, o, pollLock, m)
  BY DEF Owes
<1>12. GmailKeeps /\ ThreadsKeep
  BY <1>9, GmailStays, ThreadsStay DEF MailboxInv
<1>13. missed \subseteq missed' /\ missed' \subseteq Mails
  BY <1>9 DEF MailboxInv, MailboxTypeOK
<1>. QED  BY <1>4, <1>9, <1>10, <1>11, <1>12, <1>13, RequestMoves

(* The steps that change nothing but a request, the lock and the caches.   *)
RequestOnly ==
  UNCHANGED <<gmail, row, att, file, job, thread, current, seen, missed, trashed>>

LEMMA RequestOnlyMoves ==
  ASSUME MailboxInv, NEW q \in Requests, NEW r, Moves(q, r), RequestOnly,
         \A m \in Mails : Owes(q, req[q], pollLock, m) => Owes(q, r, pollLock', m)
  PROVE  MailboxInv'
<1>1. GmailKeeps /\ ThreadsKeep
  BY GmailStays, ThreadsStay DEF MailboxInv, RequestOnly
<1>2. /\ file' \in [Mails -> SUBSET Attachments]
      /\ missed \subseteq missed' /\ missed' \subseteq Mails
  BY DEF MailboxInv, MailboxTypeOK, RequestOnly
<1>3. UNCHANGED <<row, att, job, seen, trashed>>
  BY DEF RequestOnly
<1>. QED  BY <1>1, <1>2, <1>3, RequestMoves

LEMMA SyncFindsMissingStep ==
  ASSUME MailboxInv, NEW q \in Requests, SyncFindsMissing(q)
  PROVE  MailboxInv'
<1>. DEFINE o == req[q]
            second == {m \in Copied(q) : NeedsAnalysis(m)} \ o.ids
            r == WithLists(o, o.ids, second)
<1>1. /\ o \in Request /\ RequestKnown(o, KnownMails) /\ RequestOK(q, o, pollLock)
      /\ o.pc = "missing" /\ pollLock # q
  BY RowOf, LockFree DEF SyncFindsMissing, At
<1>2. o.ids \in SUBSET Mails /\ second \in SUBSET Mails
  BY <1>1 DEF Request, Copied
<1>3. req' = [req EXCEPT ![q] = r] /\ pollLock' = pollLock /\ RequestOnly
  BY DEF SyncFindsMissing, RequestOnly, dbVars, threadVars, history
<1>. HIDE DEF second
<1>4. /\ r \in Request /\ r.copy = o.copy /\ r.ids = o.ids
      /\ r.pc \in {"register", "finish"}
      /\ o.ids # {} => r.pc = "register" /\ r.todo = o.ids
  BY <1>1, <1>2, ListsFit
<1>. HIDE DEF r
<1>5. RequestKnown(r, KnownMails) /\ WriteSafe(r, trashed) /\ RequestOK(q, r, pollLock)
  BY <1>1, <1>4, SameCopyKnown DEF WriteSafe, RequestOK
<1>6. Moves(q, r)
  BY <1>3, <1>4, <1>5 DEF Moves, MailboxInv, MailboxTypeOK
<1>7. \A m \in Mails : Owes(q, o, pollLock, m) => Owes(q, r, pollLock', m)
  BY <1>3, <1>4 DEF Owes
<1>. QED  BY <1>3, <1>6, <1>7, RequestOnlyMoves

LEMMA ReturnStep ==
  ASSUME MailboxInv, NEW q \in Requests, Return(q), RequestOnly,
         pollLock' \in Requests \cup {NoRequest}, pollLock' # q,
         \A p \in Requests \ {q} : pollLock' = p <=> pollLock = p,
         \A m \in Mails : ~Owes(q, req[q], pollLock, m)
  PROVE  MailboxInv'
  BY ReturnMoves, RequestOnlyMoves

LEMMA NothingOwed ==
  ASSUME MailboxInv, NEW q \in Requests, req[q].pc \notin {"missing", "register"} \/ pollLock = q
  PROVE  \A m \in Mails : ~Owes(q, req[q], pollLock, m)
  BY DEF Owes

(* Goto keeps the rest of the row.                                         *)
LEMMA GotoFits ==
  ASSUME MailboxTypeOK, NEW q \in Requests,
         NEW pc \in {"rows_again", "start", "mark"}, Goto(q, pc)
  PROVE  \E r \in Request : /\ req' = [req EXCEPT ![q] = r]
                            /\ r.pc = pc /\ r.copy = req[q].copy /\ r.ids = req[q].ids
                            /\ r.poll = req[q].poll /\ r.mail = req[q].mail
<1>. DEFINE o == req[q]
            s == [o EXCEPT !.pc = pc]
<1>1. o \in Request
  BY DEF MailboxTypeOK
<1>2. /\ s \in Request /\ s.pc = pc /\ s.copy = o.copy /\ s.ids = o.ids
      /\ s.poll = o.poll /\ s.mail = o.mail
  BY <1>1 DEF Request
<1>3. req' = [req EXCEPT ![q] = s]
  BY DEF Goto, MailboxTypeOK
<1>. HIDE DEF s
<1>. QED  BY <1>2, <1>3

LEMMA FinishSyncStep ==
  ASSUME MailboxInv, NEW q \in Requests, FinishSync(q)
  PROVE  MailboxInv'
<1>. DEFINE o == req[q]
<1>1. /\ o \in Request /\ RequestKnown(o, KnownMails) /\ RequestOK(q, o, pollLock)
      /\ o.pc = "finish" /\ pollLock # q
  BY RowOf, LockFree DEF FinishSync, At
<1>2. pollLock' = pollLock /\ RequestOnly /\ pollLock \in Requests \cup {NoRequest}
  BY DEF FinishSync, RequestOnly, dbVars, threadVars, history, MailboxInv, MailboxTypeOK
<1>3. \A m \in Mails : ~Owes(q, o, pollLock, m)
  BY <1>1, NothingOwed
<1>4. CASE o.poll
  <2>1. PICK r \in Request : /\ req' = [req EXCEPT ![q] = r]
                             /\ r.pc = "rows_again" /\ r.copy = o.copy /\ r.ids = o.ids
    BY <1>4, GotoFits DEF FinishSync, MailboxInv
  <2>2. RequestKnown(r, KnownMails) /\ WriteSafe(r, trashed) /\ RequestOK(q, r, pollLock)
    BY <1>1, <2>1, SameCopyKnown DEF WriteSafe, RequestOK
  <2>3. Moves(q, r)
    BY <1>2, <2>1, <2>2 DEF Moves
  <2>. QED  BY <1>2, <1>3, <2>3, RequestOnlyMoves
<1>5. CASE ~o.poll
  BY <1>1, <1>2, <1>3, <1>5, ReturnStep DEF FinishSync
<1>. QED  BY <1>4, <1>5

(* A sync that fails forgets what it has found changed.                    *)
LEMMA SyncFailsStep ==
  ASSUME MailboxInv, NEW q \in Requests, SyncFails(q)
  PROVE  MailboxInv'
<1>. DEFINE o == req[q]
            r == [IdleRequest EXCEPT !.pc = IF o.poll THEN "rows_again" ELSE "idle", !.poll = o.poll]
<1>1. o \in Request /\ pollLock # q
  BY RowOf DEF SyncFails
<1>2. req' = [req EXCEPT ![q] = r] /\ missed' = missed \cup o.ids
      /\ UNCHANGED <<gmail, row, att, file, job, pollLock, thread, current, seen, trashed>>
  BY DEF SyncFails, dbVars, threadVars
<1>3. /\ r \in Request /\ r.pc \in {"rows_again", "idle"} /\ r.ids = {}
      /\ r.copy = [m \in Mails |-> Nothing]
  BY <1>1, IdleFits DEF Request
<1>. HIDE DEF r
<1>4. RequestKnown(r, KnownMails) /\ WriteSafe(r, trashed) /\ RequestOK(q, r, pollLock)
  BY <1>1, <1>3, EmptyCopyKnown DEF WriteSafe, RequestOK
<1>5. Moves(q, r)
  BY <1>2, <1>3, <1>4 DEF Moves, MailboxInv, MailboxTypeOK
<1>6. GmailKeeps /\ ThreadsKeep
  BY <1>2, GmailStays, ThreadsStay DEF MailboxInv
<1>7. missed \subseteq missed' /\ missed' \subseteq Mails /\ file' \in [Mails -> SUBSET Attachments]
  BY <1>1, <1>2 DEF Request, MailboxInv, MailboxTypeOK
<1>8. \A m \in Mails : Owes(q, o, pollLock, m) => m \in missed'
  BY <1>2 DEF Owes
<1>. QED  BY <1>2, <1>5, <1>6, <1>7, <1>8, RequestMoves

(* A list, or a sync for an empty one, begins.                             *)
LEMMA ListStep ==
  ASSUME MailboxInv, NEW q \in Requests, req[q].pc \in {"idle", "rows_again"},
         NEW r \in {[IdleRequest EXCEPT !.pc = "fetch", !.poll = TRUE], ListRows},
         req' = [req EXCEPT ![q] = r], pollLock' = pollLock, RequestOnly
  PROVE  MailboxInv'
<1>. DEFINE fetch == [IdleRequest EXCEPT !.pc = "fetch", !.poll = TRUE]
<1>1. pollLock # q /\ pollLock \in Requests \cup {NoRequest}
  BY LockFree DEF MailboxInv, MailboxTypeOK
<1>2. fetch \in Request /\ fetch.pc = "fetch" /\ fetch.ids = {}
      /\ fetch.copy = [m \in Mails |-> Nothing]
  BY IdleFits DEF Request
<1>3. /\ ListRows \in Request /\ ListRows.pc = "lock" /\ ListRows.poll
      /\ ListRows.copy = [m \in Mails |-> Nothing]
  BY IdleFits DEF ListRows, Listed, Request
<1>. HIDE DEF fetch
<1>4. /\ r \in Request /\ r.pc \in {"fetch", "lock"} /\ (r.pc = "fetch" => r.ids = {})
      /\ (r.pc = "lock" => r.poll) /\ r.copy = [m \in Mails |-> Nothing]
  BY <1>2, <1>3 DEF fetch
<1>5. RequestKnown(r, KnownMails) /\ WriteSafe(r, trashed) /\ RequestOK(q, r, pollLock)
  BY <1>1, <1>4, EmptyCopyKnown DEF WriteSafe, RequestOK
<1>6. Moves(q, r)
  BY <1>1, <1>4, <1>5 DEF Moves
<1>. QED  BY <1>6, NothingOwed, RequestOnlyMoves

LEMMA TakePollLockStep ==
  ASSUME MailboxInv, NEW q \in Requests, TakePollLock(q)
  PROVE  MailboxInv'
<1>. DEFINE o == req[q]
            missing == {m \in o.ids : NeedsAnalysis(m)}
            r == WithLists(o, missing, {})
<1>1. /\ o \in Request /\ RequestKnown(o, KnownMails) /\ RequestOK(q, o, pollLock)
      /\ o.pc = "lock" /\ pollLock # q /\ pollLock \in Requests \cup {NoRequest}
  BY RowOf, LockFree DEF TakePollLock, At, MailboxInv, MailboxTypeOK
<1>2. RequestOnly /\ \A m \in Mails : ~Owes(q, o, pollLock, m)
  BY <1>1, NothingOwed DEF TakePollLock, RequestOnly, dbVars, threadVars, history
<1>3. CASE pollLock = NoRequest /\ missing # {}
  <2>1. pollLock' = q /\ req' = [req EXCEPT ![q] = r]
    BY <1>3 DEF TakePollLock
  <2>2. missing \in SUBSET Mails /\ {} \in SUBSET Mails
    BY <1>1 DEF Request
  <2>. HIDE DEF missing
  <2>3. r \in Request /\ r.copy = o.copy /\ r.ids = o.ids /\ r.poll = o.poll /\ r.pc = "register"
    BY <1>1, <1>3, <2>2, ListsFit
  <2>. HIDE DEF r
  <2>4. RequestKnown(r, KnownMails) /\ WriteSafe(r, trashed) /\ RequestOK(q, r, q)
    BY <1>1, <2>3, SameCopyKnown DEF WriteSafe, RequestOK
  <2>5. \A p \in Requests \ {q} : pollLock' = p <=> pollLock = p
    BY <1>3, <2>1, NamesAssumption DEF Requests
  <2>6. Moves(q, r)
    BY <2>1, <2>3, <2>4, <2>5 DEF Moves
  <2>. QED  BY <1>2, <2>6, RequestOnlyMoves
<1>4. CASE ~(pollLock = NoRequest /\ missing # {})
  <2>1. pollLock' = pollLock /\ Return(q)
    BY <1>4 DEF TakePollLock
  <2>. QED  BY <1>1, <1>2, <2>1, ReturnStep
<1>. QED  BY <1>3, <1>4

(* A poll that ends gives the lock back.                                   *)
LEMMA UnlockStep ==
  ASSUME MailboxInv, NEW q \in Requests, pollLock = q, pollLock' = NoRequest, Return(q), RequestOnly
  PROVE  MailboxInv'
<1>1. NoRequest \notin Requests
  BY NamesAssumption DEF Requests
<1>. QED  BY <1>1, NothingOwed, ReturnStep

LEMMA NextListMoves ==
  ASSUME MailboxInv, NEW q \in Requests, NextList(q),
         req[q].pc \in {"register", "start"}, pollLock # q => req[q].ids = {}
  PROVE  (\E r \in Request : Moves(q, r)) /\ \A m \in Mails : ~Owes(q, req[q], pollLock, m)
<1>. DEFINE o == req[q]
            r == WithLists(o, o.next, {})
<1>1. o \in Request /\ RequestKnown(o, KnownMails) /\ pollLock \in Requests \cup {NoRequest}
  BY RowOf DEF MailboxInv, MailboxTypeOK
<1>2. \A m \in Mails : ~Owes(q, o, pollLock, m)
  BY DEF Owes
<1>3. CASE pollLock = q
  <2>1. pollLock' = NoRequest /\ Return(q) /\ NoRequest \notin Requests
    BY <1>3, NamesAssumption DEF NextList, Requests
  <2>2. Moves(q, IdleRequest)
    BY <1>3, <2>1, ReturnMoves
  <2>. QED  BY <1>2, <2>2, IdleFits
<1>4. CASE pollLock # q
  <2>1. pollLock' = pollLock /\ req' = [req EXCEPT ![q] = r]
    BY <1>4 DEF NextList
  <2>2. o.next \in SUBSET Mails /\ {} \in SUBSET Mails
    BY <1>1 DEF Request
  <2>3. r \in Request /\ r.copy = o.copy /\ r.ids = {} /\ r.pc \in {"register", "finish"}
    BY <1>1, <1>4, <2>2, ListsFit
  <2>. HIDE DEF r
  <2>4. RequestKnown(r, KnownMails) /\ WriteSafe(r, trashed) /\ RequestOK(q, r, pollLock)
    BY <1>1, <1>4, <2>3, SameCopyKnown DEF WriteSafe, RequestOK
  <2>5. Moves(q, r)
    BY <1>1, <2>1, <2>3, <2>4 DEF Moves
  <2>. QED  BY <1>2, <2>3, <2>5
<1>. QED  BY <1>3, <1>4

LEMMA CheckThreadStep ==
  ASSUME MailboxInv, NEW q \in Requests, CheckThread(q)
  PROVE  MailboxInv'
<1>. DEFINE o == req[q]
<1>1. /\ o \in Request /\ RequestKnown(o, KnownMails) /\ RequestOK(q, o, pollLock)
      /\ o.pc = "register" /\ o.todo = {} /\ pollLock \in Requests \cup {NoRequest}
  BY RowOf DEF CheckThread, At, MailboxInv, MailboxTypeOK
<1>2. RequestOnly /\ (pollLock # q => o.ids = {})
  BY <1>1 DEF CheckThread, RequestOnly, dbVars, threadVars, history, RequestOK
<1>3. CASE NextList(q)
  <2>1. PICK r \in Request : Moves(q, r) /\ \A m \in Mails : ~Owes(q, req[q], pollLock, m)
    BY <1>1, <1>2, <1>3, NextListMoves
  <2>. QED  BY <1>2, <2>1, RequestOnlyMoves
<1>4. CASE Goto(q, "start") /\ pollLock' = pollLock
  <2>1. PICK r \in Request : /\ req' = [req EXCEPT ![q] = r] /\ r.pc = "start"
                             /\ r.copy = o.copy /\ r.ids = o.ids /\ r.poll = o.poll
    BY <1>4, GotoFits DEF MailboxInv
  <2>2. RequestKnown(r, KnownMails) /\ WriteSafe(r, trashed) /\ RequestOK(q, r, pollLock)
    BY <1>1, <1>2, <2>1, SameCopyKnown DEF WriteSafe, RequestOK
  <2>3. Moves(q, r)
    BY <1>1, <1>4, <2>1, <2>2 DEF Moves
  <2>4. \A m \in Mails : ~Owes(q, o, pollLock, m)
    BY <1>2 DEF Owes
  <2>. QED  BY <1>2, <2>3, <2>4, RequestOnlyMoves
<1>. QED  BY <1>3, <1>4 DEF CheckThread

(* A thread that was not alive takes the jobs the request has made.        *)
LEMMA StartThreadStep ==
  ASSUME MailboxInv, NEW q \in Requests, NEW t \in Threads, StartThread(q, t)
  PROVE  MailboxInv'
<1>. DEFINE new == [DeadThread EXCEPT !.alive = TRUE, !.queue = req[q].made]
<1>1. /\ req[q] \in Request /\ RequestOK(q, req[q], pollLock) /\ req[q].pc = "start"
      /\ NextList(q) /\ UNCHANGED <<gmail, row, att, file, job, seen, missed, trashed>>
      /\ thread' = [thread EXCEPT ![t] = new] /\ current' = t /\ ~thread[t].alive
  BY RowOf DEF StartThread, At, dbVars, history
<1>2. PICK r \in Request : Moves(q, r) /\ \A m \in Mails : ~Owes(q, req[q], pollLock, m)
  <2>1. pollLock # q => req[q].ids = {}
    BY <1>1 DEF RequestOK
  <2>. QED  BY <1>1, <2>1, NextListMoves
<1>3. GmailKeeps
  BY <1>1, GmailStays DEF MailboxInv
<1>4. new \in Thread /\ new.mail = NoMail /\ new.alive
  <2>1. req[q].made \in SUBSET Mails
    BY <1>1 DEF Request
  <2>2. 0 \in Version
    BY BoundsAssumption DEF Version
  <2>. QED  BY <2>1, <2>2 DEF DeadThread, Thread
<1>. HIDE DEF new
<1>5. thread[t].mail = NoMail
  BY <1>1 DEF MailboxInv, ThreadsOK
<1>6. thread' \in [Threads -> Thread] /\ thread'[t] = new
      /\ \A u \in Threads \ {t} : thread'[u] = thread[u]
  BY <1>1, <1>4 DEF MailboxInv, MailboxTypeOK
<1>7. ThreadsKeep
  BY <1>1, <1>4, <1>5, <1>6 DEF ThreadsKeep
<1>8. /\ file' \in [Mails -> SUBSET Attachments]
      /\ missed \subseteq missed' /\ missed' \subseteq Mails
  BY <1>1 DEF MailboxInv, MailboxTypeOK
<1>. QED  BY <1>1, <1>2, <1>3, <1>7, <1>8, RequestMoves

LEMMA StartTrashStep ==
  ASSUME MailboxInv, NEW q \in Requests, NEW m \in Mails, StartTrash(q, m)
  PROVE  MailboxInv'
<1>. DEFINE r == [IdleRequest EXCEPT !.pc = "trash", !.mail = m]
<1>1. req[q].pc = "idle" /\ pollLock # q /\ pollLock \in Requests \cup {NoRequest}
  BY LockFree DEF StartTrash, At, MailboxInv, MailboxTypeOK
<1>2. req' = [req EXCEPT ![q] = r] /\ pollLock' = pollLock /\ RequestOnly
  BY DEF StartTrash, RequestOnly, dbVars, threadVars, history
<1>3. /\ r \in Request /\ r.pc = "trash" /\ r.ids = {} /\ r.mail = m
      /\ r.copy = [n \in Mails |-> Nothing]
  BY IdleFits DEF Request
<1>. HIDE DEF r
<1>4. m \in KnownMails
  BY DEF StartTrash, Visible, MailboxInv, GmailKnows, KnownMails
<1>5. RequestKnown(r, KnownMails) /\ WriteSafe(r, trashed) /\ RequestOK(q, r, pollLock)
  BY <1>1, <1>3, <1>4 DEF RequestKnown, Nothing, WriteSafe, RequestOK
<1>6. Moves(q, r)
  BY <1>1, <1>2, <1>3, <1>5 DEF Moves
<1>. QED  BY <1>1, <1>2, <1>6, NothingOwed, RequestOnlyMoves

LEMMA TrashInGmailStep ==
  ASSUME MailboxInv, NEW q \in Requests, TrashInGmail(q)
  PROVE  MailboxInv'
<1>. DEFINE o == req[q]
            shown == [gmail[o.mail] EXCEPT !.inbox = FALSE]
<1>1. /\ o \in Request /\ RequestKnown(o, KnownMails) /\ RequestOK(q, o, pollLock)
      /\ o.pc = "trash" /\ pollLock # q /\ pollLock \in Requests \cup {NoRequest}
  BY RowOf, LockFree DEF TrashInGmail, At, MailboxInv, MailboxTypeOK
<1>2. /\ Goto(q, "mark")
      /\ UNCHANGED <<row, att, file, job, pollLock, thread, current, seen, missed, trashed>>
  BY DEF TrashInGmail, dbVars, threadVars, history
<1>3. o.mail \in Mails
  BY <1>1 DEF RequestKnown, KnownMails
<1>4. gmail \in [Mails -> Content] /\ gmail' = [gmail EXCEPT ![o.mail] = shown]
  BY DEF TrashInGmail, MailboxInv, MailboxTypeOK
<1>5. shown \in Content /\ shown.version = gmail[o.mail].version /\ ~shown.inbox
  BY <1>3, <1>4 DEF Content
<1>. HIDE DEF shown
<1>6. GmailKeeps
  BY <1>3, <1>4, <1>5 DEF GmailKeeps
<1>7. PICK r \in Request : /\ req' = [req EXCEPT ![q] = r] /\ r.pc = "mark"
                           /\ r.copy = o.copy /\ r.ids = o.ids /\ r.mail = o.mail
  BY <1>2, GotoFits DEF MailboxInv
<1>8. RequestKnown(r, KnownMails) /\ WriteSafe(r, trashed) /\ RequestOK(q, r, pollLock)
  BY <1>1, <1>7, SameCopyKnown DEF WriteSafe, RequestOK
<1>9. Moves(q, r)
  BY <1>1, <1>2, <1>7, <1>8 DEF Moves
<1>10. ThreadsKeep
  BY <1>2, ThreadsStay DEF MailboxInv
<1>11. /\ file' \in [Mails -> SUBSET Attachments]
       /\ missed \subseteq missed' /\ missed' \subseteq Mails
  BY <1>2 DEF MailboxInv, MailboxTypeOK
<1>. QED  BY <1>1, <1>2, <1>6, <1>9, <1>10, <1>11, NothingOwed, RequestMoves

(* A row is marked as deleted; it is a trashed mail if no sync holds a     *)
(* copy.                                                                   *)
LEMMA MarkTrashedStep ==
  ASSUME MailboxInv, NEW q \in Requests, NEW m, m = req[q].mail, MarkTrashed(q)
  PROVE  MailboxInv'
<1>. DEFINE o == req[q]
            marked == [row[m] EXCEPT !.deleted = TRUE]
<1>1. /\ o \in Request /\ RequestKnown(o, KnownMails) /\ o.pc = "mark" /\ pollLock # q
      /\ pollLock \in Requests \cup {NoRequest} /\ MailboxTypeOK
  BY RowOf, LockFree DEF MarkTrashed, At, MailboxInv, MailboxTypeOK
<1>2. m \in Mails /\ Delivered(m)
  BY <1>1 DEF RequestKnown, KnownMails
<1>3. /\ Return(q) /\ row' = [row EXCEPT ![m] = marked]
      /\ UNCHANGED <<gmail, att, file, job, pollLock, thread, current, seen, missed>>
  BY <1>1 DEF MarkTrashed, MailboxTypeOK, threadVars
<1>4. /\ marked \in [version: Version, deleted: BOOLEAN, count: Nat] /\ marked.deleted
      /\ marked.version = row[m].version /\ marked.count = row[m].count
  BY <1>1, <1>2 DEF MailboxTypeOK
<1>. HIDE DEF marked
<1>5. /\ row' \in [Mails -> [version: Version, deleted: BOOLEAN, count: Nat]]
      /\ \A n \in Mails : row'[n].version = row[n].version /\ row'[n].count = row[n].count
      /\ \A n \in Mails : row[n].deleted \/ n = m => row'[n].deleted
  BY <1>1, <1>2, <1>3, <1>4 DEF MailboxTypeOK
<1>6. CountMatchesAttachments'
  BY <1>3, <1>5 DEF MailboxInv, CountMatchesAttachments, Live
<1>7. Moves(q, IdleRequest)
  BY <1>1, <1>3, ReturnMoves
<1>8. /\ req'[q] = IdleRequest /\ \A p \in Requests \ {q} : req'[p] = req[p]
  BY <1>1, <1>7, MovesIs
<1>9. /\ trashed' \subseteq trashed \cup {m}
      /\ m \in trashed' \ trashed => ~gmail[m].inbox
           /\ \A p \in Requests : req[p].pc = "write" => req[p].copy[m] = Nothing
  BY DEF MarkTrashed, At
<1>10. TrashOK'
  <2>1. \A n \in trashed' : row'[n].deleted /\ Delivered(n)' /\ ~gmail'[n].inbox
    BY <1>1, <1>2, <1>3, <1>5, <1>9 DEF MailboxInv, TrashOK, Delivered, MailboxTypeOK
  <2>2. \A p \in Requests : WriteSafe(req'[p], trashed')
    BY <1>8, <1>9, IdleFits DEF MailboxInv, TrashOK, WriteSafe
  <2>. QED  BY <2>1, <2>2 DEF TrashOK
<1>11. GmailKeeps /\ ThreadsKeep
  BY <1>1, <1>3, GmailStays, ThreadsStay
<1>12. /\ file' \in [Mails -> SUBSET Attachments] /\ trashed' \subseteq Mails
       /\ missed \subseteq missed' /\ missed' \subseteq Mails
  BY <1>1, <1>2, <1>3, <1>9 DEF MailboxTypeOK
<1>. QED  BY <1>1, <1>3, <1>5, <1>6, <1>7, <1>10, <1>11, <1>12, NothingOwed, RequestMovesRows

-----------------------------------------------------------------------------
(* The transaction of a sync: afterwards the live attachments of a mail it *)
(* has copied are those of the copy.                                       *)
LEMMA CountTyped ==
  ASSUME NEW c \in Content
  PROVE  UpsertMessage(c) \in [version: Version, deleted: BOOLEAN, count: Nat]
<1>1. c.version \in Version /\ c.atts \subseteq Attachments
  BY DEF Content
<1>2. Cardinality(c.atts) \in Nat
  BY <1>1, AttachmentsAssumption, FS_Subset, FS_CardinalityType
<1>. QED  BY <1>1, <1>2 DEF UpsertMessage

LEMMA AttachmentUpserted ==
  ASSUME NEW old \in Attachment, NEW downloaded \in BOOLEAN
  PROVE  UpsertAttachment(old, downloaded) \in Attachment /\ UpsertAttachment(old, downloaded).live
<1>1. CASE downloaded  BY <1>1 DEF UpsertAttachment, Attachment
<1>2. CASE ~downloaded  BY <1>2 DEF UpsertAttachment, Attachment
<1>. QED  BY <1>1, <1>2

LEMMA AttachmentSuperseded ==
  ASSUME NEW old \in Attachment
  PROVE  Supersede(old) \in Attachment /\ ~Supersede(old).live
<1>1. CASE old.live  BY <1>1 DEF Supersede, Attachment
<1>2. CASE ~old.live  BY <1>2 DEF Supersede, Attachment
<1>. QED  BY <1>1, <1>2

LEMMA AttachmentsUpserted ==
  ASSUME MailboxTypeOK, NEW q \in Requests, NEW m \in Mails
  PROVE  /\ UpsertAttachments(q, m) \in [Attachments -> Attachment]
         /\ {a \in Attachments : UpsertAttachments(q, m)[a].live} = req[q].copy[m].atts
<1>1. req[q].copy[m].atts \subseteq Attachments
  BY DEF MailboxTypeOK, Request, Content
<1>2. ASSUME NEW a \in Attachments
      PROVE  /\ UpsertAttachments(q, m)[a] \in Attachment
             /\ UpsertAttachments(q, m)[a].live <=> a \in req[q].copy[m].atts
  <2>1. att[m][a] \in Attachment
    BY <1>2 DEF MailboxTypeOK
  <2>2. CASE a \in req[q].copy[m].atts
    <3>. DEFINE downloaded == <<m, a>> \notin req[q].broken
    <3>1. UpsertAttachments(q, m)[a] = UpsertAttachment(att[m][a], downloaded)
      BY <1>2, <2>2 DEF UpsertAttachments
    <3>2. downloaded \in BOOLEAN
      OBVIOUS
    <3>. HIDE DEF downloaded
    <3>. QED  BY <2>1, <2>2, <3>1, <3>2, AttachmentUpserted
  <2>3. CASE a \notin req[q].copy[m].atts
    <3>1. UpsertAttachments(q, m)[a] = Supersede(att[m][a])
      BY <1>2, <2>3 DEF UpsertAttachments
    <3>. QED  BY <2>1, <2>3, <3>1, AttachmentSuperseded
  <2>. QED  BY <2>2, <2>3
<1>3. UpsertAttachments(q, m) \in [Attachments -> Attachment]
  BY <1>2 DEF UpsertAttachments
<1>. QED  BY <1>1, <1>2, <1>3

LEMMA WriteMessagesStep ==
  ASSUME MailboxInv, NEW q \in Requests, WriteMessages(q)
  PROVE  MailboxInv'
<1>. DEFINE o == req[q]
            r == [o EXCEPT !.pc = "missing", !.ids = Changed(q), !.broken = {}]
<1>0. MailboxTypeOK
  BY DEF MailboxInv
<1>1. /\ o \in Request /\ RequestKnown(o, KnownMails) /\ WriteSafe(o, trashed)
      /\ o.pc = "write" /\ pollLock # q
  BY RowOf, LockFree DEF WriteMessages, At
<1>2. /\ req' = [req EXCEPT ![q] = r]
      /\ row' = [m \in Mails |-> IF m \in Copied(q) THEN UpsertMessage(o.copy[m]) ELSE row[m]]
      /\ att' = [m \in Mails |-> IF m \in Copied(q) THEN UpsertAttachments(q, m) ELSE att[m]]
      /\ UNCHANGED <<gmail, file, job, pollLock, thread, current, seen, missed, trashed>>
  BY <1>0 DEF WriteMessages, MailboxTypeOK, threadVars, history
<1>3. Copied(q) \subseteq Mails /\ Changed(q) \subseteq Copied(q)
  BY DEF Copied, Changed
<1>4. /\ r \in Request /\ r.pc = "missing" /\ r.ids = Changed(q) /\ r.copy = o.copy
  BY <1>1, <1>3 DEF Request
<1>. HIDE DEF r
<1>5. req' \in [Requests -> Request] /\ req'[q] = r /\ \A p \in Requests \ {q} : req'[p] = req[p]
  BY <1>0, <1>2, <1>4 DEF MailboxTypeOK
<1>6. \A m \in Mails : o.copy[m] \in Content
  BY <1>1 DEF Request
<1>7. row' \in [Mails -> [version: Version, deleted: BOOLEAN, count: Nat]]
  BY <1>0, <1>2, <1>6, CountTyped DEF MailboxTypeOK
<1>8. att' \in [Mails -> [Attachments -> Attachment]]
  BY <1>0, <1>2, AttachmentsUpserted DEF MailboxTypeOK
<1>9. MailboxTypeOK'
  BY <1>0, <1>2, <1>5, <1>7, <1>8 DEF MailboxTypeOK
<1>10. CountMatchesAttachments'
  <2>. SUFFICES ASSUME NEW m \in Mails
                PROVE  row'[m].count = Cardinality({a \in Attachments : att'[m][a].live})
    BY DEF CountMatchesAttachments, Live
  <2>1. CASE m \in Copied(q)
    <3>1. row'[m].count = Cardinality(o.copy[m].atts)
      BY <1>2, <2>1 DEF UpsertMessage
    <3>2. att'[m] = UpsertAttachments(q, m)
      BY <1>2, <2>1
    <3>. QED  BY <1>0, <3>1, <3>2, AttachmentsUpserted
  <2>2. CASE m \notin Copied(q)
    BY <1>2, <2>2 DEF MailboxInv, CountMatchesAttachments, Live
  <2>. QED  BY <2>1, <2>2
<1>11. \A m \in Mails : m \notin Changed(q) => row'[m].version = row[m].version
  BY <1>2 DEF Changed, UpsertMessage
<1>12. GmailKnows'
  <2>1. \A m \in Mails : Stored(m)' => Delivered(m)'
    BY <1>1, <1>2 DEF MailboxInv, GmailKnows, RequestKnown, KnownMails, Copied, Stored, Delivered,
                      UpsertMessage
  <2>2. KnownMails' = KnownMails
    BY <1>2 DEF KnownMails, Delivered
  <2>3. RequestKnown(r, KnownMails)
    BY <1>1, <1>4, SameCopyKnown
  <2>4. \A p \in Requests : RequestKnown(req'[p], KnownMails)
    BY <1>5, <2>3 DEF MailboxInv, GmailKnows
  <2>. QED  BY <2>1, <2>2, <2>4 DEF GmailKnows
<1>13. TrashOK'
  <2>1. \A m \in trashed : m \in Mails /\ m \notin Copied(q)
    BY <1>0, <1>1 DEF MailboxTypeOK, WriteSafe, Copied, Nothing
  <2>2. \A m \in trashed : row'[m].deleted /\ Delivered(m)' /\ ~gmail'[m].inbox
    BY <1>2, <2>1 DEF MailboxInv, TrashOK, Delivered
  <2>3. \A p \in Requests : WriteSafe(req'[p], trashed)
    BY <1>4, <1>5 DEF MailboxInv, TrashOK, WriteSafe
  <2>. QED  BY <1>2, <2>2, <2>3 DEF TrashOK
<1>14. RequestsOK'
  <2>1. RequestOK(q, r, pollLock)
    BY <1>1, <1>4 DEF RequestOK
  <2>. QED  BY <1>2, <1>5, <2>1 DEF MailboxInv, RequestsOK
<1>15. ThreadsOK'
  BY <1>2 DEF MailboxInv, ThreadsOK
<1>16. ASSUME NEW m \in Mails  PROVE ChangeOK(m)'
  <2>1. CASE m \in Changed(q)
    <3>1. Owes(q, r, pollLock, m)
      BY <1>1, <1>4, <2>1 DEF Owes
    <3>2. Owed(m)'
      BY <1>2, <1>5, <3>1 DEF Owed
    <3>. QED  BY <3>2 DEF ChangeOK
  <2>2. CASE m \notin Changed(q)
    <3>1. \A p \in Requests : Owes(p, req[p], pollLock, m) => Owes(p, req'[p], pollLock', m)
      BY <1>1, <1>2, <1>5 DEF Owes
    <3>2. Owed(m) => Owed(m)'
      BY <3>1 DEF Owed
    <3>. QED  BY <1>2, <1>11, <2>2, <3>2 DEF MailboxInv, ChangeOK, ReadByRunning
  <2>. QED  BY <2>1, <2>2
<1>. QED  BY <1>9, <1>10, <1>12, <1>13, <1>14, <1>15, <1>16 DEF MailboxInv

-----------------------------------------------------------------------------
(* A job is registered, or the active one stands for it; a running one has *)
(* missed the change.                                                      *)
LEMMA RegisterJobStep ==
  ASSUME MailboxInv, NEW q \in Requests, NEW m \in Mails, RegisterJob(q, m)
  PROVE  MailboxInv'
<1>. DEFINE others == IF Active(m) THEN [p \in Requests |-> req[p]]
                      ELSE [p \in Requests |-> [req[p] EXCEPT !.made = @ \ {m}]]
            r == [others[q] EXCEPT !.todo = req[q].todo \ {m}, !.ids = req[q].ids \ {m},
                                   !.made = req[q].made \cup {m}]
<1>0. MailboxTypeOK /\ RequestOK(q, req[q], pollLock) /\ req[q].pc = "register" /\ m \in req[q].todo
  BY RowOf DEF MailboxInv, RegisterJob, At
<1>1. /\ UNCHANGED <<gmail, row, att, file, pollLock, current, seen, trashed>>
      /\ job' = IF Active(m) THEN job ELSE [job EXCEPT ![m] = "pending"]
      /\ thread' = IF Active(m) THEN thread
                   ELSE [t \in Threads |-> [thread[t] EXCEPT !.queue = @ \ {m}]]
      /\ missed' = IF job[m] # "running" THEN missed \ {m}
                   ELSE IF pollLock # q /\ m \in req[q].ids THEN missed \cup {m} ELSE missed
  BY DEF RegisterJob
<1>2. /\ others \in [Requests -> Request]
      /\ \A p \in Requests : /\ others[p].pc = req[p].pc /\ others[p].copy = req[p].copy
                             /\ others[p].poll = req[p].poll /\ others[p].ids = req[p].ids
                             /\ others[p].todo = req[p].todo /\ others[p].mail = req[p].mail
  <2>1. CASE Active(m)
    BY <1>0, <2>1 DEF MailboxTypeOK
  <2>2. CASE ~Active(m)
    <3>1. ASSUME NEW p \in Requests
          PROVE  [req[p] EXCEPT !.made = @ \ {m}] \in Request
      <4>1. req[p] \in Request
        BY <1>0, <3>1 DEF MailboxTypeOK
      <4>2. req[p].made \ {m} \in SUBSET Mails
        BY <4>1 DEF Request
      <4>. HIDE DEF others
      <4>. QED  BY <4>1, <4>2 DEF Request
    <3>2. ASSUME NEW p \in Requests
          PROVE  /\ others[p].pc = req[p].pc /\ others[p].copy = req[p].copy
                 /\ others[p].poll = req[p].poll /\ others[p].ids = req[p].ids
                 /\ others[p].todo = req[p].todo /\ others[p].mail = req[p].mail
      <4>1. others[p] = [req[p] EXCEPT !.made = @ \ {m}] /\ req[p] \in Request
        BY <1>0, <2>2, <3>2 DEF MailboxTypeOK
      <4>. HIDE DEF others
      <4>. QED  BY <4>1 DEF Request
    <3>. QED  BY <2>2, <3>1, <3>2
  <2>. QED  BY <2>1, <2>2
<1>3. req' = [others EXCEPT ![q] = r]
  BY <1>2 DEF RegisterJob
<1>. HIDE DEF others
<1>4. /\ r \in Request /\ r.pc = req[q].pc /\ r.copy = req[q].copy /\ r.poll = req[q].poll
      /\ r.mail = req[q].mail /\ r.ids = req[q].ids \ {m} /\ r.todo = req[q].todo \ {m}
  <2>1. others[q] \in Request /\ req[q] \in Request
    BY <1>0, <1>2 DEF MailboxTypeOK
  <2>2. r \in Request
    BY <2>1 DEF Request
  <2>. QED  BY <1>2, <2>1, <2>2 DEF Request
<1>. HIDE DEF r
<1>5. /\ req' \in [Requests -> Request] /\ req'[q] = r
      /\ \A p \in Requests \ {q} : req'[p] = others[p]
  BY <1>2, <1>3, <1>4
<1>6. /\ thread' \in [Threads -> Thread]
      /\ \A t \in Threads : /\ thread'[t].mail = thread[t].mail /\ thread'[t].alive = thread[t].alive
                            /\ thread'[t].version = thread[t].version
  <2>1. CASE Active(m)
    BY <1>0, <1>1, <2>1 DEF MailboxTypeOK
  <2>2. CASE ~Active(m)
    <3>1. ASSUME NEW t \in Threads
          PROVE  /\ [thread[t] EXCEPT !.queue = @ \ {m}] \in Thread
                 /\ [thread[t] EXCEPT !.queue = @ \ {m}].mail = thread[t].mail
                 /\ [thread[t] EXCEPT !.queue = @ \ {m}].alive = thread[t].alive
                 /\ [thread[t] EXCEPT !.queue = @ \ {m}].version = thread[t].version
      BY <1>0 DEF MailboxTypeOK, Thread
    <3>. QED  BY <1>1, <2>2, <3>1
  <2>. QED  BY <2>1, <2>2
<1>7. /\ job' \in [Mails -> JobStatus]
      /\ \A n \in Mails \ {m} : job'[n] = job[n]
      /\ job[m] # "running" => job'[m] = "pending"
      /\ job[m] = "running" => job'[m] = "running"
  BY <1>0, <1>1 DEF MailboxTypeOK, JobStatus, Active
<1>8. MailboxTypeOK'
  BY <1>0, <1>1, <1>5, <1>6, <1>7 DEF MailboxTypeOK
<1>9. CountMatchesAttachments'
  BY <1>1, CountStays DEF MailboxInv
<1>10. GmailKnows'
  <2>1. KnownMails' = KnownMails
    BY <1>1 DEF KnownMails, Delivered
  <2>2. \A p \in Requests : RequestKnown(req'[p], KnownMails)
    BY <1>2, <1>4, <1>5, SameCopyKnown DEF MailboxInv, GmailKnows
  <2>. QED  BY <1>1, <2>1, <2>2 DEF MailboxInv, GmailKnows, Stored, Delivered
<1>11. TrashOK'
  <2>1. \A p \in Requests : WriteSafe(req'[p], trashed)
    BY <1>2, <1>4, <1>5 DEF MailboxInv, TrashOK, WriteSafe
  <2>. QED  BY <1>1, <2>1 DEF MailboxInv, TrashOK, Delivered
<1>12. RequestsOK'
  <2>1. RequestOK(q, r, pollLock)
    BY <1>0, <1>4 DEF RequestOK
  <2>2. \A p \in Requests \ {q} : RequestOK(p, others[p], pollLock)
    BY <1>2 DEF MailboxInv, RequestsOK, RequestOK
  <2>. QED  BY <1>1, <1>5, <2>1, <2>2 DEF RequestsOK
<1>13. ThreadsOK'
  BY <1>6, <1>7 DEF MailboxInv, MailboxTypeOK, ThreadsOK, Thread
<1>14. ASSUME NEW n \in Mails \ {m}  PROVE ChangeOK(n)'
  <2>1. \A p \in Requests : Owes(p, req[p], pollLock, n) => Owes(p, req'[p], pollLock', n)
    BY <1>1, <1>2, <1>4, <1>5 DEF Owes
  <2>2. Owed(n) => Owed(n)'
    BY <2>1 DEF Owed
  <2>3. ReadByRunning(n) => ReadByRunning(n)'
    BY <1>1, <1>6 DEF ReadByRunning
  <2>. QED  BY <1>1, <1>6, <1>7, <2>2, <2>3 DEF MailboxInv, ChangeOK
<1>15. ChangeOK(m)'
  <2>1. CASE job[m] # "running"
    <3>1. \A t \in Threads : thread'[t].mail # m
      BY <1>6, <2>1, NamesAssumption DEF MailboxInv, ThreadsOK
    <3>. QED  BY <1>7, <2>1, <3>1 DEF ChangeOK
  <2>2. CASE job[m] = "running"
    <3>. SUFFICES ASSUME m \notin missed, ~(pollLock # q /\ m \in req[q].ids)  PROVE ChangeOK(m)'
      BY <1>1, <2>2 DEF ChangeOK
    <3>1. \A p \in Requests : Owes(p, req[p], pollLock, m) => Owes(p, req'[p], pollLock', m)
      BY <1>1, <1>2, <1>5 DEF Owes
    <3>2. Owed(m) => Owed(m)'
      BY <3>1 DEF Owed
    <3>3. ReadByRunning(m) => ReadByRunning(m)'
      BY <1>1, <1>6 DEF ReadByRunning
    <3>. QED  BY <1>1, <1>6, <2>2, <3>2, <3>3 DEF MailboxInv, ChangeOK
  <2>. QED  BY <2>1, <2>2
<1>. QED  BY <1>8, <1>9, <1>10, <1>11, <1>12, <1>13, <1>14, <1>15 DEF MailboxInv

-----------------------------------------------------------------------------
(* Steps of an analysis thread: no request is touched.                     *)
ThreadOnly == UNCHANGED <<gmail, row, file, req, pollLock, trashed>>

LEMMA ThreadMoves ==
  ASSUME MailboxInv, ThreadOnly,
         att' \in [Mails -> [Attachments -> Attachment]], \A m \in Mails : Live(m)' = Live(m),
         job' \in [Mails -> JobStatus], seen' \in [Mails -> Version], missed' \subseteq Mails,
         thread' \in [Threads -> Thread], current' \in Threads \cup {NoThread},
         ThreadsOK', \A m \in Mails : ChangeOK(m)'
  PROVE  MailboxInv'
<1>1. MailboxTypeOK'
  BY DEF MailboxInv, MailboxTypeOK, ThreadOnly
<1>2. CountMatchesAttachments'
  BY DEF MailboxInv, CountMatchesAttachments, ThreadOnly
<1>3. GmailKnows'
  BY DEF MailboxInv, GmailKnows, KnownMails, Stored, Delivered, ThreadOnly
<1>4. TrashOK'
  BY DEF MailboxInv, TrashOK, Delivered, ThreadOnly
<1>5. RequestsOK'
  BY DEF MailboxInv, RequestsOK, ThreadOnly
<1>. QED  BY <1>1, <1>2, <1>3, <1>4, <1>5 DEF MailboxInv

LEMMA OwedStays ==
  ASSUME ThreadOnly, NEW m \in Mails
  PROVE  Owed(m)' <=> Owed(m)
  BY DEF Owed, ThreadOnly

(* A step that leaves the thread's mail alone, and jobs altogether.        *)
LEMMA IdleThreadMoves ==
  ASSUME MailboxInv, ThreadOnly, ThreadsKeep, UNCHANGED <<job, seen, missed>>,
         att' \in [Mails -> [Attachments -> Attachment]], \A m \in Mails : Live(m)' = Live(m)
  PROVE  MailboxInv'
<1>1. ThreadsOK'
  BY DEF MailboxInv, ThreadsOK, ThreadsKeep
<1>2. ASSUME NEW m \in Mails  PROVE ChangeOK(m)'
  <2>1. ReadByRunning(m) => ReadByRunning(m)'
    BY NamesAssumption DEF ReadByRunning, ThreadsKeep, ThreadOnly
  <2>2. \A t \in Threads : thread'[t].mail = m =>
          thread[t].mail = m /\ thread'[t].version = thread[t].version
    BY NamesAssumption DEF ThreadsKeep
  <2>. QED  BY <2>1, <2>2, OwedStays DEF MailboxInv, ChangeOK, ThreadOnly
<1>3. /\ job' \in [Mails -> JobStatus] /\ seen' \in [Mails -> Version] /\ missed' \subseteq Mails
  BY DEF MailboxInv, MailboxTypeOK
<1>4. thread' \in [Threads -> Thread] /\ current' \in Threads \cup {NoThread}
  BY DEF ThreadsKeep
<1>. QED  BY <1>1, <1>2, <1>3, <1>4, ThreadMoves

LEMMA RecoverJobStep ==
  ASSUME MailboxInv, NEW t \in Threads, NEW m \in Mails, RecoverJob(t, m)
  PROVE  MailboxInv'
<1>1. /\ UNCHANGED <<gmail, row, att, file, req, pollLock, thread, current, seen, missed, trashed>>
      /\ job' = [job EXCEPT ![m] = "pending"] /\ \A u \in Threads : thread[u].mail # m
  BY DEF RecoverJob, threadVars, history
<1>2. /\ job' \in [Mails -> JobStatus] /\ job'[m] = "pending"
      /\ \A n \in Mails \ {m} : job'[n] = job[n]
  BY <1>1 DEF MailboxInv, MailboxTypeOK, JobStatus
<1>3. ThreadsOK'
  BY <1>1, <1>2 DEF MailboxInv, MailboxTypeOK, ThreadsOK, Thread
<1>4. ASSUME NEW n \in Mails  PROVE ChangeOK(n)'
  <2>1. ThreadOnly
    BY <1>1 DEF ThreadOnly
  <2>2. ReadByRunning(n) => ReadByRunning(n)'
    BY <1>1 DEF ReadByRunning
  <2>. QED  BY <1>1, <1>2, <2>1, <2>2, OwedStays DEF MailboxInv, ChangeOK
<1>5. \A n \in Mails : Live(n)' = Live(n)
  BY <1>1 DEF Live
<1>. QED  BY <1>1, <1>2, <1>3, <1>4, <1>5, ThreadMoves DEF MailboxInv, MailboxTypeOK, ThreadOnly

LEMMA RunJobStep ==
  ASSUME MailboxInv, NEW t \in Threads, NEW m \in Mails, RunJob(t, m)
  PROVE  MailboxInv'
<1>0. /\ MailboxTypeOK /\ thread[t] \in Thread /\ thread[t].alive /\ thread[t].mail = NoMail
      /\ ThreadOnly /\ UNCHANGED <<att, current, seen, missed>>
  BY DEF MailboxInv, MailboxTypeOK, RunJob, Free, ThreadOnly, history
<1>1. /\ att' \in [Mails -> [Attachments -> Attachment]]
      /\ \A n \in Mails : Live(n)' = Live(n)
      /\ seen' \in [Mails -> Version] /\ missed' \subseteq Mails
      /\ current' \in Threads \cup {NoThread}
  BY <1>0 DEF MailboxTypeOK, Live
<1>2. CASE job[m] = "pending"
  <2>. DEFINE new == [thread[t] EXCEPT !.queue = thread[t].queue \ {m}, !.mail = m,
                                       !.version = row[m].version, !.left = Live(m)]
  <2>1. /\ job' = [job EXCEPT ![m] = "running"]
        /\ thread' = [thread EXCEPT ![t] = new]
    BY <1>0, <1>2 DEF RunJob, MailboxTypeOK
  <2>2. Live(m) \in SUBSET Attachments /\ row[m].version \in Version
        /\ thread[t].queue \ {m} \in SUBSET Mails
    BY <1>0 DEF Live, MailboxTypeOK, Thread
  <2>3. new \in Thread /\ new.alive /\ new.mail = m /\ new.version = row[m].version
    BY <1>0, <2>2 DEF Thread
  <2>. HIDE DEF new
  <2>4. /\ thread' \in [Threads -> Thread] /\ thread'[t] = new
        /\ \A u \in Threads \ {t} : thread'[u] = thread[u]
    BY <1>0, <2>1, <2>3 DEF MailboxTypeOK
  <2>5. /\ job' \in [Mails -> JobStatus] /\ job'[m] = "running"
        /\ \A n \in Mails \ {m} : job'[n] = job[n]
    BY <1>0, <2>1 DEF MailboxTypeOK, JobStatus
  <2>6. \A u \in Threads : thread[u].mail # m
    BY <1>2, NamesAssumption DEF MailboxInv, ThreadsOK
  <2>7. ThreadsOK'
    <3>1. ASSUME NEW u \in Threads, thread'[u].mail # NoMail
          PROVE  thread'[u].alive /\ job'[thread'[u].mail] = "running"
      <4>1. CASE u = t
        BY <2>3, <2>4, <2>5, <4>1
      <4>2. CASE u # t
        <5>1. thread'[u] = thread[u] /\ thread[u].mail \in Mails \ {m}
          BY <1>0, <2>4, <2>6, <3>1, <4>2 DEF MailboxTypeOK, Thread
        <5>. QED  BY <2>5, <3>1, <5>1 DEF MailboxInv, ThreadsOK
      <4>. QED  BY <4>1, <4>2
    <3>2. ASSUME NEW u \in Threads, NEW v \in Threads,
                 thread'[u].mail = thread'[v].mail, thread'[u].mail # NoMail
          PROVE  u = v
      BY <2>3, <2>4, <2>6, <3>2 DEF MailboxInv, ThreadsOK
    <3>. QED  BY <3>1, <3>2 DEF ThreadsOK
  <2>8. ChangeOK(m)'
    BY <1>0, <2>3, <2>4, <2>6 DEF ChangeOK, ReadByRunning, ThreadOnly
  <2>9. ASSUME NEW n \in Mails \ {m}  PROVE ChangeOK(n)'
    <3>1. ReadByRunning(n) => ReadByRunning(n)'
      BY <1>0, <2>4, NamesAssumption DEF ReadByRunning, ThreadOnly
    <3>. QED  BY <1>0, <2>3, <2>4, <2>5, <3>1, OwedStays DEF MailboxInv, ChangeOK, ThreadOnly
  <2>. QED  BY <1>0, <1>1, <2>4, <2>5, <2>7, <2>8, <2>9, ThreadMoves
<1>3. CASE job[m] # "pending"
  <2>. DEFINE new == [thread[t] EXCEPT !.queue = thread[t].queue \ {m}]
  <2>1. job' = job /\ thread' = [thread EXCEPT ![t] = new]
    BY <1>0, <1>3 DEF RunJob, MailboxTypeOK
  <2>2. thread[t].queue \ {m} \in SUBSET Mails
    BY <1>0 DEF Thread
  <2>3. new \in Thread /\ new.mail = NoMail
    BY <1>0, <2>2 DEF Thread
  <2>. HIDE DEF new
  <2>4. ThreadsKeep
    BY <1>0, <1>1, <2>1, <2>3 DEF MailboxTypeOK, ThreadsKeep
  <2>. QED  BY <1>0, <1>1, <2>1, <2>4, IdleThreadMoves
<1>. QED  BY <1>2, <1>3

LEMMA SaveResultStep ==
  ASSUME MailboxInv, NEW t \in Threads, NEW a \in Attachments, SaveResult(t, a)
  PROVE  MailboxInv'
<1>. DEFINE m == thread[t].mail
            after == Analysed(att[m][a], a \in file[m])
            new == [thread[t] EXCEPT !.left = thread[t].left \ {a}]
<1>0. /\ MailboxTypeOK /\ thread[t] \in Thread /\ m \in Mails
      /\ ThreadOnly /\ UNCHANGED <<job, current, seen, missed>>
  BY DEF MailboxInv, MailboxTypeOK, SaveResult, Thread, ThreadOnly, history
<1>1. /\ att' = [att EXCEPT ![m] = [att[m] EXCEPT ![a] = after]]
      /\ thread' = [thread EXCEPT ![t] = new]
  BY <1>0 DEF SaveResult, MailboxTypeOK
<1>2. after \in Attachment /\ after.live = att[m][a].live
  <2>1. att[m][a] \in Attachment
    BY <1>0 DEF MailboxTypeOK
  <2>2. CASE a \in file[m]  BY <2>1, <2>2 DEF Analysed, Attachment
  <2>3. CASE a \notin file[m]  BY <2>1, <2>3 DEF Analysed, Attachment
  <2>. QED  BY <2>2, <2>3
<1>3. new \in Thread /\ new.mail = m /\ new.version = thread[t].version /\ new.alive = thread[t].alive
  <2>1. thread[t].left \ {a} \in SUBSET Attachments
    BY <1>0 DEF Thread
  <2>. QED  BY <1>0, <2>1 DEF Thread
<1>. HIDE DEF after, new
<1>4. /\ att' \in [Mails -> [Attachments -> Attachment]]
      /\ \A n \in Mails : \A b \in Attachments : att'[n][b].live = att[n][b].live
  BY <1>0, <1>1, <1>2 DEF MailboxTypeOK
<1>5. \A n \in Mails : Live(n)' = Live(n)
  BY <1>4 DEF Live
<1>6. ThreadsKeep
  BY <1>0, <1>1, <1>3 DEF MailboxTypeOK, ThreadsKeep
<1>. QED  BY <1>0, <1>4, <1>5, <1>6, IdleThreadMoves

LEMMA EndThreadStep ==
  ASSUME MailboxInv, NEW t \in Threads, EndThread(t)
  PROVE  MailboxInv'
<1>1. /\ thread[t].mail = NoMail /\ thread' = [thread EXCEPT ![t] = DeadThread]
      /\ current' = (IF current = t THEN NoThread ELSE current)
      /\ UNCHANGED <<gmail, row, att, file, job, req, pollLock, seen, missed, trashed>>
  BY DEF EndThread, Free, dbVars, history
<1>2. DeadThread \in Thread /\ DeadThread.mail = NoMail
  BY BoundsAssumption DEF DeadThread, Thread, Version
<1>3. ThreadsKeep
  BY <1>1, <1>2 DEF MailboxInv, MailboxTypeOK, ThreadsKeep
<1>4. /\ att' \in [Mails -> [Attachments -> Attachment]]
      /\ \A n \in Mails : Live(n)' = Live(n)
  BY <1>1 DEF MailboxInv, MailboxTypeOK, Live
<1>. QED  BY <1>1, <1>3, <1>4, IdleThreadMoves DEF ThreadOnly

(* The thread of a job that ends is free again.                            *)
LEMMA JobEnds ==
  ASSUME MailboxInv, NEW t \in Threads, NEW status \in {"success", "failed"},
         thread[t].mail # NoMail, EndJob(t, status)
  PROVE  /\ thread[t].mail \in Mails
         /\ job' \in [Mails -> JobStatus]
         /\ \A n \in Mails : n # thread[t].mail => job'[n] = job[n]
         /\ job[thread[t].mail] = "running"
         /\ thread' \in [Threads -> Thread] /\ thread'[t].mail = NoMail
         /\ \A u \in Threads \ {t} : thread'[u] = thread[u] /\ thread[u].mail # thread[t].mail
         /\ ThreadsOK'
<1>. DEFINE m == thread[t].mail
            new == [thread[t] EXCEPT !.mail = NoMail, !.version = 0, !.left = {}]
<1>1. MailboxTypeOK /\ thread[t] \in Thread /\ m \in Mails
  BY DEF MailboxInv, MailboxTypeOK, Thread
<1>2. job' = [job EXCEPT ![m] = status] /\ thread' = [thread EXCEPT ![t] = new]
  BY <1>1 DEF EndJob, MailboxTypeOK
<1>3. new \in Thread /\ new.mail = NoMail
  <2>1. 0 \in Version
    BY BoundsAssumption DEF Version
  <2>. QED  BY <1>1, <2>1 DEF Thread
<1>. HIDE DEF new
<1>4. /\ job' \in [Mails -> JobStatus]
      /\ \A n \in Mails : n # m => job'[n] = job[n]
      /\ job[m] = "running"
  BY <1>1, <1>2 DEF MailboxInv, MailboxTypeOK, JobStatus, ThreadsOK
<1>5. /\ thread' \in [Threads -> Thread] /\ thread'[t] = new
      /\ \A u \in Threads \ {t} : thread'[u] = thread[u]
  BY <1>1, <1>2, <1>3 DEF MailboxTypeOK
<1>6. \A u \in Threads \ {t} : thread[u].mail # m
  BY DEF MailboxInv, ThreadsOK
<1>7. ASSUME NEW u \in Threads, thread'[u].mail # NoMail
      PROVE  thread'[u].alive /\ job'[thread'[u].mail] = "running"
  <2>1. u # t
    BY <1>3, <1>5, <1>7
  <2>2. thread'[u] = thread[u] /\ thread[u].mail \in Mails /\ thread[u].mail # m
    BY <1>1, <1>5, <1>6, <1>7, <2>1 DEF MailboxTypeOK, Thread
  <2>. QED  BY <1>4, <1>7, <2>2 DEF MailboxInv, ThreadsOK
<1>8. ASSUME NEW u \in Threads, NEW v \in Threads,
             thread'[u].mail = thread'[v].mail, thread'[u].mail # NoMail
      PROVE  u = v
  BY <1>3, <1>5, <1>8 DEF MailboxInv, ThreadsOK
<1>9. ThreadsOK'
  BY <1>7, <1>8 DEF ThreadsOK
<1>. QED  BY <1>1, <1>3, <1>4, <1>5, <1>6, <1>9

(* Of the mails that are not the one whose job has ended.                  *)
LEMMA OtherChanges ==
  ASSUME MailboxInv, ThreadOnly, NEW t \in Threads, NEW n \in Mails, n # thread[t].mail,
         job'[n] = job[n], seen'[n] = seen[n], n \notin missed' => n \notin missed,
         thread'[t].mail = NoMail, \A u \in Threads \ {t} : thread'[u] = thread[u]
  PROVE  ChangeOK(n)'
<1>1. ReadByRunning(n) => ReadByRunning(n)'
  BY DEF ReadByRunning, ThreadOnly
<1>2. \A u \in Threads : thread'[u].mail = n => u # t /\ thread'[u] = thread[u]
  BY NamesAssumption
<1>. QED  BY <1>1, <1>2, OwedStays DEF MailboxInv, ChangeOK, ThreadOnly

LEMMA FinishJobStep ==
  ASSUME MailboxInv, NEW t \in Threads, NEW m, m = thread[t].mail, FinishJob(t)
  PROVE  MailboxInv'
<1>0. /\ MailboxTypeOK /\ ThreadOnly /\ UNCHANGED <<att, current, missed>>
      /\ m # NoMail /\ EndJob(t, "success")
      /\ seen' = [seen EXCEPT ![m] = thread[t].version]
  BY DEF MailboxInv, FinishJob, ThreadOnly
<1>1. /\ m \in Mails
      /\ job' \in [Mails -> JobStatus]
      /\ \A n \in Mails : n # m => job'[n] = job[n]
      /\ job[m] = "running"
      /\ thread' \in [Threads -> Thread] /\ thread'[t].mail = NoMail
      /\ \A u \in Threads \ {t} : thread'[u] = thread[u] /\ thread[u].mail # m
      /\ ThreadsOK'
  BY <1>0, JobEnds
<1>2. /\ seen' \in [Mails -> Version] /\ seen'[m] = thread[t].version
      /\ \A n \in Mails : n # m => seen'[n] = seen[n]
  BY <1>0, <1>1 DEF MailboxTypeOK, Thread
<1>3. ASSUME NEW n \in Mails, n # m  PROVE ChangeOK(n)'
  BY <1>0, <1>1, <1>2, <1>3, OtherChanges
<1>4. ChangeOK(m)'
  <2>1. \A u \in Threads : thread'[u].mail # m
    BY <1>0, <1>1
  <2>2. m \notin missed => thread[t].version = row[m].version \/ Owed(m)
    BY <1>1 DEF MailboxInv, ChangeOK
  <2>. QED  BY <1>0, <1>1, <1>2, <2>1, <2>2, OwedStays DEF ChangeOK, ThreadOnly
<1>5. /\ att' \in [Mails -> [Attachments -> Attachment]]
      /\ \A n \in Mails : Live(n)' = Live(n)
      /\ missed' \subseteq Mails /\ current' \in Threads \cup {NoThread}
  BY <1>0 DEF MailboxTypeOK, Live
<1>. QED  BY <1>0, <1>1, <1>2, <1>3, <1>4, <1>5, ThreadMoves

LEMMA JobFailsStep ==
  ASSUME MailboxInv, NEW t \in Threads, NEW m, m = thread[t].mail, JobFails(t)
  PROVE  MailboxInv'
<1>0. /\ MailboxTypeOK /\ ThreadOnly /\ UNCHANGED <<att, current, seen>>
      /\ m # NoMail /\ EndJob(t, "failed") /\ missed' = missed \cup {m}
  BY DEF MailboxInv, JobFails, ThreadOnly
<1>1. /\ m \in Mails
      /\ job' \in [Mails -> JobStatus]
      /\ \A n \in Mails : n # m => job'[n] = job[n]
      /\ thread' \in [Threads -> Thread] /\ thread'[t].mail = NoMail
      /\ \A u \in Threads \ {t} : thread'[u] = thread[u]
      /\ ThreadsOK'
  BY <1>0, JobEnds
<1>2. ASSUME NEW n \in Mails  PROVE ChangeOK(n)'
  <2>1. CASE n = m
    BY <1>0, <2>1 DEF ChangeOK
  <2>2. CASE n # m
    BY <1>0, <1>1, <2>2, OtherChanges
  <2>. QED  BY <2>1, <2>2
<1>3. /\ att' \in [Mails -> [Attachments -> Attachment]]
      /\ \A n \in Mails : Live(n)' = Live(n)
      /\ missed' \subseteq Mails /\ seen' \in [Mails -> Version]
      /\ current' \in Threads \cup {NoThread}
  BY <1>0, <1>1 DEF MailboxTypeOK, Live
<1>. QED  BY <1>0, <1>1, <1>2, <1>3, ThreadMoves

-----------------------------------------------------------------------------
(* Gmail.  What it shows anew was never delivered or is in the inbox, and  *)
(* so not trashed.                                                         *)
LEMMA GmailMoves ==
  ASSUME MailboxInv, UNCHANGED <<dbVars, req, pollLock, threadVars, seen, missed>>,
         gmail' \in [Mails -> Content], trashed' \subseteq trashed,
         \A n \in Mails : gmail[n].version > 0 => gmail'[n].version > 0,
         \A n \in trashed' : gmail'[n].inbox => gmail[n].inbox
  PROVE  MailboxInv'
<1>1. UNCHANGED <<row, att, file, job, thread, current>>
  BY DEF dbVars, threadVars
<1>2. MailboxTypeOK'
  BY <1>1 DEF MailboxInv, MailboxTypeOK
<1>3. CountMatchesAttachments' /\ RequestsOK' /\ ThreadsOK'
  BY <1>1 DEF MailboxInv, CountMatchesAttachments, Live, RequestsOK, ThreadsOK
<1>4. GmailKnows'
  <2>1. KnownMails \subseteq KnownMails'
    BY DEF KnownMails, Delivered
  <2>2. \A q \in Requests : RequestKnown(req[q], KnownMails')
    BY <2>1 DEF MailboxInv, GmailKnows, RequestKnown
  <2>. QED  BY <1>1, <2>2 DEF MailboxInv, GmailKnows, Stored, Delivered
<1>5. TrashOK'
  <2>1. \A m \in trashed' : row[m].deleted /\ gmail'[m].version > 0 /\ ~gmail'[m].inbox
    BY DEF MailboxInv, MailboxTypeOK, TrashOK, Delivered
  <2>2. \A q \in Requests : WriteSafe(req[q], trashed')
    BY DEF MailboxInv, TrashOK, WriteSafe
  <2>. QED  BY <1>1, <2>1, <2>2 DEF TrashOK, Delivered
<1>6. \A m \in Mails : ChangeOK(m)'
  BY <1>1 DEF MailboxInv, ChangeOK, ReadByRunning, Owed
<1>. QED  BY <1>2, <1>3, <1>4, <1>5, <1>6 DEF MailboxInv

LEMMA GmailShowsStep ==
  ASSUME MailboxInv, NEW m \in Mails, GmailShows(m)
  PROVE  MailboxInv'
<1>1. gmail \in [Mails -> Content] /\ gmail[m].version \in Nat
      /\ gmail[m].version < MaxVersions
  BY BoundsAssumption DEF GmailShows, MailboxInv, MailboxTypeOK, Content, Version
<1>2. PICK atts \in SUBSET Attachments :
        gmail' = [gmail EXCEPT ![m] = [version |-> gmail[m].version + 1, atts |-> atts,
                                       inbox |-> TRUE]]
  BY DEF GmailShows
<1>3. gmail[m].version + 1 \in Version
  BY <1>1, BoundsAssumption DEF Version
<1>4. /\ gmail' \in [Mails -> Content]
      /\ \A n \in Mails : gmail[n].version > 0 => gmail'[n].version > 0
      /\ \A n \in Mails \ {m} : gmail'[n] = gmail[n]
  BY <1>1, <1>2, <1>3 DEF Content, Version
<1>5. m \notin trashed
  BY DEF GmailShows, MailboxInv, TrashOK, Delivered
<1>6. UNCHANGED <<dbVars, req, pollLock, threadVars, seen, missed, trashed>>
  BY DEF GmailShows, history
<1>7. \A n \in trashed' : gmail'[n].inbox => gmail[n].inbox
  BY <1>4, <1>5, <1>6 DEF MailboxInv, MailboxTypeOK
<1>. QED  BY <1>4, <1>6, <1>7, GmailMoves

LEMMA GmailRestoresStep ==
  ASSUME MailboxInv, NEW m \in Mails, GmailRestores(m)
  PROVE  MailboxInv'
<1>. DEFINE shown == [gmail[m] EXCEPT !.inbox = TRUE, !.version = gmail[m].version + 1]
<1>1. gmail \in [Mails -> Content] /\ gmail[m] \in Content
  BY DEF MailboxInv, MailboxTypeOK
<1>2. gmail[m].version + 1 \in Version /\ gmail[m].version + 1 > 0
  BY BoundsAssumption DEF GmailRestores, Version
<1>3. shown \in Content /\ shown.version = gmail[m].version + 1
  BY <1>1, <1>2 DEF Content
<1>4. gmail' = [gmail EXCEPT ![m] = shown] /\ trashed' = trashed \ {m}
  BY <1>1 DEF GmailRestores
<1>. HIDE DEF shown
<1>5. /\ gmail' \in [Mails -> Content]
      /\ \A n \in Mails : gmail[n].version > 0 => gmail'[n].version > 0
      /\ \A n \in Mails \ {m} : gmail'[n] = gmail[n]
  BY <1>1, <1>2, <1>3, <1>4
<1>6. \A n \in trashed' : gmail'[n].inbox => gmail[n].inbox
  BY <1>4, <1>5 DEF MailboxInv, MailboxTypeOK
<1>7. UNCHANGED <<dbVars, req, pollLock, threadVars, seen, missed>> /\ trashed' \subseteq trashed
  BY <1>4 DEF GmailRestores
<1>. QED  BY <1>5, <1>6, <1>7, GmailMoves

-----------------------------------------------------------------------------
(* The process dies: what it had found changed and what it was analysing   *)
(* is missed.                                                              *)
LEMMA RestartStep ==
  ASSUME MailboxInv, Restart
  PROVE  MailboxInv'
<1>. DEFINE under_way == {p \in Requests : pollLock # p}
            forgotten == UNION {req[q].ids : q \in under_way}
<1>1. /\ UNCHANGED <<gmail, row, att, file, job, seen, trashed>>
      /\ req' = [q \in Requests |-> IdleRequest] /\ pollLock' = NoRequest
      /\ thread' = [t \in Threads |-> DeadThread] /\ current' = NoThread
  BY DEF Restart, dbVars
<1>12. missed' = missed \cup forgotten \cup {m \in Mails : job[m] = "running"}
  BY Zenon DEF Restart
<1>0. \A m : m \in forgotten <=> \E q \in Requests : pollLock # q /\ m \in req[q].ids
  OBVIOUS
<1>. HIDE DEF forgotten, under_way
<1>2. DeadThread \in Thread /\ DeadThread.mail = NoMail
  BY BoundsAssumption DEF DeadThread, Thread, Version
<1>3. \A q \in Requests : req'[q] = IdleRequest
  BY <1>1
<1>4. \A t \in Threads : thread'[t] = DeadThread
  BY <1>1
<1>5. MailboxTypeOK'
  <2>1. \A q \in Requests : req[q].ids \subseteq Mails
    BY DEF MailboxInv, MailboxTypeOK, Request
  <2>2. missed' \subseteq Mails
    BY <1>0, <1>12, <2>1 DEF MailboxInv, MailboxTypeOK
  <2>3. req' \in [Requests -> Request]
    BY <1>1, IdleFits
  <2>4. thread' \in [Threads -> Thread]
    BY <1>1, <1>2
  <2>. QED  BY <1>1, <2>2, <2>3, <2>4 DEF MailboxInv, MailboxTypeOK
<1>6. CountMatchesAttachments'
  BY <1>1, CountStays DEF MailboxInv
<1>7. GmailKnows'
  <2>1. RequestKnown(IdleRequest, KnownMails')
    BY IdleFits, EmptyCopyKnown
  <2>. QED  BY <1>1, <1>3, <2>1 DEF MailboxInv, GmailKnows, Stored, Delivered
<1>8. TrashOK'
  BY <1>1, <1>3, IdleFits DEF MailboxInv, TrashOK, Delivered, WriteSafe
<1>9. RequestsOK'
  BY <1>1, <1>3, IdleFits, NamesAssumption DEF RequestsOK, RequestOK, Requests
<1>10. ThreadsOK'
  BY <1>2, <1>4 DEF ThreadsOK
<1>11. ASSUME NEW m \in Mails  PROVE ChangeOK(m)'
  <2>. SUFFICES ASSUME m \notin missed'  PROVE ChangeOK(m)'
    BY DEF ChangeOK
  <2>1. m \notin missed /\ job[m] # "running" /\ ~Owed(m)
    BY <1>0, <1>12 DEF Owed, Owes
  <2>2. ~ReadByRunning(m)
    BY <2>1, NamesAssumption DEF ReadByRunning, MailboxInv, ThreadsOK
  <2>3. seen[m] = row[m].version \/ job[m] = "pending"
    BY <2>1, <2>2 DEF MailboxInv, ChangeOK
  <2>4. \A t \in Threads : thread'[t].mail # m
    BY <1>2, <1>4, NamesAssumption
  <2>. QED  BY <1>1, <2>3, <2>4 DEF ChangeOK
<1>. QED  BY <1>5, <1>6, <1>7, <1>8, <1>9, <1>10, <1>11 DEF MailboxInv

LEMMA PollFailsStep ==
  ASSUME MailboxInv, NEW q \in Requests, PollFails(q)
  PROVE  MailboxInv'
<1>1. RequestOnly /\ Return(q) /\ pollLock = q /\ pollLock' = NoRequest
  BY DEF PollFails, RequestOnly, dbVars, threadVars, history
<1>. QED  BY <1>1, UnlockStep

LEMMA TrashFailsStep ==
  ASSUME MailboxInv, NEW q \in Requests, TrashFails(q)
  PROVE  MailboxInv'
<1>1. RequestOnly /\ Return(q) /\ pollLock' = pollLock /\ req[q].pc \in {"trash", "mark"}
  BY DEF TrashFails, RequestOnly, dbVars, threadVars, history
<1>2. pollLock # q /\ pollLock \in Requests \cup {NoRequest}
  BY <1>1, LockFree DEF MailboxInv, MailboxTypeOK
<1>. QED  BY <1>1, <1>2, NothingOwed, ReturnStep

LEMMA StartPollStep ==
  ASSUME MailboxInv, NEW q \in Requests, StartPoll(q) \/ ListAgain(q)
  PROVE  MailboxInv'
<1>. DEFINE fetch == [IdleRequest EXCEPT !.pc = "fetch", !.poll = TRUE]
<1>1. RequestOnly /\ pollLock' = pollLock /\ req[q].pc \in {"idle", "rows_again"}
  BY DEF StartPoll, ListAgain, At, RequestOnly, dbVars, threadVars, history
<1>. HIDE DEF fetch
<1>2. \E r \in {fetch, ListRows} : req' = [req EXCEPT ![q] = r]
  BY DEF StartPoll, ListAgain, fetch
<1>. QED  BY <1>1, <1>2, ListStep DEF fetch

-----------------------------------------------------------------------------
LEMMA MailboxInvInit ==
  ASSUME Init
  PROVE  MailboxInv
<1>1. IdleRequest \in Request /\ DeadThread \in Thread /\ NoAttachment \in Attachment
      /\ Nothing \in Content /\ 0 \in Version
  BY IdleFits, BoundsAssumption DEF DeadThread, Thread, NoAttachment, Attachment, Nothing,
                                    Content, Version
<1>2. MailboxTypeOK
  BY <1>1 DEF Init, MailboxTypeOK, JobStatus
<1>3. CountMatchesAttachments
  <2>1. ASSUME NEW m \in Mails  PROVE Live(m) = {}
    BY DEF Init, Live, NoAttachment
  <2>. QED  BY <2>1, FS_EmptySet DEF Init, CountMatchesAttachments
<1>4. \A q \in Requests : req[q] = IdleRequest
  BY DEF Init
<1>5. GmailKnows
  <2>1. RequestKnown(IdleRequest, KnownMails)
    BY IdleFits, EmptyCopyKnown
  <2>. QED  BY <1>4, <2>1 DEF Init, GmailKnows, Stored
<1>6. TrashOK
  BY <1>4, IdleFits DEF Init, TrashOK, WriteSafe
<1>7. RequestsOK
  BY <1>4, IdleFits, NamesAssumption DEF Init, RequestsOK, RequestOK, Requests
<1>8. \A t \in Threads : thread[t].mail = NoMail
  BY DEF Init, DeadThread
<1>9. ThreadsOK
  BY <1>8 DEF ThreadsOK
<1>10. \A m \in Mails : ChangeOK(m)
  BY <1>8, NamesAssumption DEF Init, ChangeOK
<1>. QED  BY <1>2, <1>3, <1>5, <1>6, <1>7, <1>9, <1>10 DEF MailboxInv

LEMMA StutterStep ==
  ASSUME MailboxInv, UNCHANGED vars
  PROVE  MailboxInv'
  BY GmailMoves DEF vars, dbVars, threadVars, history, MailboxInv, MailboxTypeOK

LEMMA RequestSteps ==
  ASSUME MailboxInv, NEW q \in Requests, RequestStep(q)
  PROVE  MailboxInv'
<1>1. CASE SyncStep(q)
  BY <1>1, FetchStep, WriteMessagesStep, SyncFindsMissingStep, FinishSyncStep
  DEF SyncStep, SyncForPoll, At
<1>2. CASE PollStep(q)
  BY <1>2, StartPollStep, TakePollLockStep DEF PollStep
<1>3. CASE AnalysisStep(q)
  BY <1>3, RegisterJobStep, CheckThreadStep, StartThreadStep DEF AnalysisStep
<1>4. CASE TrashStep(q)
  BY <1>4, TrashInGmailStep, MarkTrashedStep DEF TrashStep
<1>. QED  BY <1>1, <1>2, <1>3, <1>4 DEF RequestStep

LEMMA ThreadSteps ==
  ASSUME MailboxInv, NEW t \in Threads, ThreadStep(t) \/ JobFails(t)
  PROVE  MailboxInv'
<1>1. CASE ThreadStep(t)
  BY <1>1, RecoverJobStep, RunJobStep, SaveResultStep, FinishJobStep, EndThreadStep DEF ThreadStep
<1>. QED  BY <1>1, JobFailsStep

LEMMA MailboxInductive ==
  ASSUME MailboxInv, [Next]_vars
  PROVE  MailboxInv'
<1>1. \A q \in Syncers \cup Readers : q \in Requests
  BY DEF Requests
<1>2. CASE \E m \in Mails : GmailShows(m) \/ GmailRestores(m)
  BY <1>2, GmailShowsStep, GmailRestoresStep
<1>3. CASE \E q \in Syncers : StartSync(q)
  BY <1>1, <1>3, FetchStep DEF StartSync, At
<1>4. CASE \E q \in Readers : StartPoll(q) \/ \E m \in Mails : StartTrash(q, m)
  BY <1>1, <1>4, StartPollStep, StartTrashStep
<1>5. CASE \E q \in Requests : RequestStep(q) \/ SyncFails(q) \/ PollFails(q) \/ TrashFails(q)
  BY <1>5, RequestSteps, SyncFailsStep, PollFailsStep, TrashFailsStep
<1>6. CASE \E t \in Threads : ThreadStep(t) \/ JobFails(t)
  BY <1>6, ThreadSteps
<1>. QED  BY <1>2, <1>3, <1>4, <1>5, <1>6, RestartStep, StutterStep DEF Next

THEOREM MailboxInvariant == Spec => []MailboxInv
  BY MailboxInvInit, MailboxInductive, PTL DEF Spec

-----------------------------------------------------------------------------
(* However syncs, polls, trash requests and analyses overlap, mails,       *)
(* attachments, requests and threads stay within their types.              *)
THEOREM MailboxTypesHold == Spec => []MailboxTypeOK
  BY MailboxInvariant, PTL DEF MailboxInv

(* The count in the row of a mail (email_messages.attachment_count, which  *)
(* the lists go by) is that of its attachments that are not deleted.       *)
THEOREM CountsAgree == Spec => []CountMatchesAttachments
  BY MailboxInvariant, PTL DEF MailboxInv

(* trash_email holds: a mail trashed while no sync held a copy of it stays *)
(* deleted until its owner moves it back.                                  *)
THEOREM TrashedMailsStay == Spec => []TrashedStays
<1>1. MailboxInv => TrashedStays
  BY DEF MailboxInv, TrashOK, TrashedStays
<1>. QED  BY <1>1, MailboxInvariant, PTL

(* A change write_messages has stored is read, about to be read or still   *)
(* owed a job by the sync that found it, save for the mails in missed.     *)
THEOREM ChangesAreAnalysed == Spec => []ChangeIsAnalysed
<1>1. MailboxInv => ChangeIsAnalysed
  BY DEF MailboxInv, ChangeOK, Owed, Owes, ChangeIsAnalysed
<1>. QED  BY <1>1, MailboxInvariant, PTL

(* Every way out of the automatic analysis gives _auto_analysis_lock back. *)
THEOREM LockHolderAtWork == Spec => []PollLockHeld
<1>1. MailboxInv => PollLockHeld
  BY DEF MailboxInv, MailboxTypeOK, RequestsOK, RequestOK, PollLockHeld
<1>. QED  BY <1>1, MailboxInvariant, PTL

-----------------------------------------------------------------------------
(* The connected Gmail account.                                            *)

Todo == Seq({"file", "env", "refresh", "unlink", "account", "fetch", "read", "write"})

OfOne(a, t) == t \in {NoToken, Unreadable} \/ (IsToken(t) /\ t.of = a)
AccountOf(a, r) == r # NoAccount => r.email \in {a, Nobody}
HandlerOf(a, h) ==
  OfOne(a, h.token) /\ h.email \in {a, Nobody} /\ AccountOf(a, h.read)

(* Every store, and whatever is under way, is of the account of a.         *)
Agreed(a) ==
  /\ OfOne(a, dotenv) /\ OfOne(a, environ) /\ OfOne(a, tokenFile)
  /\ AccountOf(a, account)
  /\ \A h \in Handlers : HandlerOf(a, handler[h])

(* What is left of the stores of a connection, r being the handler's row.  *)
Connects(r) ==
  /\ r.op = "connect" /\ IsToken(r.token) /\ r.email \in {r.token.of, Nobody}
  /\ r.todo \in {GrantedSteps, <<"env", "account">>, <<"account">>,
                 PastedSteps, <<"file", "account">>}
  /\ r.todo \in {<<"env", "account">>, <<"account">>} => tokenFile = r.token
  /\ r.todo \in {<<"file", "account">>, <<"account">>} => dotenv = r.token /\ environ = r.token
BeingConnected(h) ==
  Connects(handler[h]) /\ \A other \in Handlers \ {h} : handler[other] = Idle

ConnectLists == {GrantedSteps, <<"env", "account">>, <<"account">>,
                 PastedSteps, <<"file", "account">>}
EndsInWrite(t) == t # <<>> => t[Len(t)] \in {"write", "account"}
RowOK(r) ==
  /\ r.op = "none" <=> r.todo = <<>>
  /\ r.op = "none" => r = Idle
  /\ r.op = "connect" => r.todo \in ConnectLists
  /\ EndsInWrite(r.todo)

AccountInv ==
  /\ AccountTypeOK
  /\ \A h \in Handlers : RowOK(handler[h])
  /\ dotenvExists /\ ~mixed =>
       \/ \E h \in Handlers : BeingConnected(h)
       \/ ~Connecting /\ \E a \in Addresses \cup {Nobody} : Agreed(a)

LEMMA IdleHandler == Idle \in Handler /\ Idle.op = "none" /\ Idle.todo = <<>>
                     /\ \A a : HandlerOf(a, Idle)
  BY DEF Idle, Handler, HandlerOf, OfOne, AccountOf

(* The lists a connection can have before it.                              *)
LEMMA StepLists ==
  /\ GrantedSteps \in Todo /\ EndsInWrite(GrantedSteps)
  /\ PastedSteps \in Todo /\ EndsInWrite(PastedSteps)
  /\ Len(GrantedSteps) = 3 /\ Head(GrantedSteps) = "file" /\ Tail(GrantedSteps) = <<"env", "account">>
  /\ Len(PastedSteps) = 3 /\ Head(PastedSteps) = "env" /\ Tail(PastedSteps) = <<"file", "account">>
  /\ Len(<<"env", "account">>) = 2 /\ Head(<<"env", "account">>) = "env"
  /\ Tail(<<"env", "account">>) = <<"account">>
  /\ Len(<<"file", "account">>) = 2 /\ Head(<<"file", "account">>) = "file"
  /\ Tail(<<"file", "account">>) = <<"account">>
  /\ Len(<<"account">>) = 1 /\ Head(<<"account">>) = "account" /\ Len(<<>>) = 0
  BY DEF GrantedSteps, PastedSteps, Todo, EndsInWrite

(* The kinds of steps: a handler begins, takes its next step, or gives up. *)
LEMMA Begins ==
  ASSUME AccountInv, NEW h \in Handlers, NEW op \in {"disconnect", "refused", "sync", "failed_sync", "identify"},
         NEW todo \in Todo \ {<<>>}, EndsInWrite(todo), NEW token \in Token \cup {NoToken}, NEW email \in Addresses \cup {Nobody},
         \A a \in Addresses \cup {Nobody} : Agreed(a) => OfOne(a, token) /\ email \in {a, Nobody},
         Start(h, op, todo, token, email)
  PROVE  AccountInv'
<1>. DEFINE r == [op |-> op, todo |-> todo, token |-> token, email |-> email, read |-> NoAccount]
<1>1. /\ handler' = [handler EXCEPT ![h] = r] /\ mixed' = (mixed \/ Connecting)
      /\ UNCHANGED <<dotenvExists, dotenv, environ, tokenFile, account, known, restarts>>
      /\ ~Busy(h)
  BY DEF Start, files
<1>2. r \in Handler /\ r.op = op /\ r.todo = todo /\ r.token = token /\ r.email = email /\ r.read = NoAccount
  BY DEF Handler, Todo
<1>. HIDE DEF r
<1>3. /\ handler' \in [Handlers -> Handler] /\ handler'[h] = r
      /\ \A other \in Handlers \ {h} : handler'[other] = handler[other]
  BY <1>1, <1>2 DEF AccountInv, AccountTypeOK
<1>4. AccountTypeOK'
  BY <1>1, <1>3 DEF AccountInv, AccountTypeOK
<1>5. \A other \in Handlers : RowOK(handler'[other])
  BY <1>2, <1>3 DEF AccountInv, RowOK
<1>6. ASSUME dotenvExists', ~mixed'
      PROVE  ~Connecting' /\ \E a \in Addresses \cup {Nobody} : Agreed(a)'
  <2>1. dotenvExists /\ ~mixed /\ ~Connecting
    BY <1>1, <1>6
  <2>2. PICK a \in Addresses \cup {Nobody} : Agreed(a)
    BY <2>1 DEF AccountInv, BeingConnected, Connects, Connecting
  <2>3. HandlerOf(a, r)
    BY <1>2, <2>2 DEF HandlerOf, AccountOf
  <2>4. Agreed(a)'
    BY <1>1, <1>3, <2>2, <2>3 DEF Agreed
  <2>5. ~Connecting'
    BY <1>2, <1>3, <2>1 DEF Connecting
  <2>. QED  BY <2>4, <2>5
<1>. QED  BY <1>4, <1>5, <1>6 DEF AccountInv

(* A connection begins.  Undisturbed, it finds every other handler idle.   *)
LEMMA ConnectBegins ==
  ASSUME AccountInv, NEW h \in Handlers, NEW todo \in {GrantedSteps, PastedSteps},
         NEW token \in Token, NEW email \in {token.of, Nobody},
         Start(h, "connect", todo, token, email)
  PROVE  AccountInv'
<1>. DEFINE r == [op |-> "connect", todo |-> todo, token |-> token, email |-> email, read |-> NoAccount]
<1>1. /\ handler' = [handler EXCEPT ![h] = r]
      /\ UNCHANGED <<dotenvExists, dotenv, environ, tokenFile, account, known, restarts>>
  BY DEF Start, files
<1>2. mixed' = \E other \in Handlers : Busy(other)
  BY Zenon DEF Start
<1>3. mixed' \in BOOLEAN /\ (~mixed' => \A other \in Handlers : ~Busy(other))
  <2>. DEFINE busy == \E other \in Handlers : Busy(other)
  <2>1. mixed' = busy
    BY Zenon, <1>2
  <2>2. busy \in BOOLEAN
    OBVIOUS
  <2>3. ~busy => \A other \in Handlers : ~Busy(other)
    OBVIOUS
  <2>. HIDE DEF busy
  <2>4. mixed' \in BOOLEAN
    BY Zenon, <2>1, <2>2
  <2>5. ~mixed' => \A other \in Handlers : ~Busy(other)
    BY Zenon, <2>1, <2>3
  <2>. QED  BY <2>4, <2>5
<1>4. r \in Handler /\ r.op = "connect" /\ r.todo = todo /\ r.token = token /\ r.email = email
  <2>1. todo \in Todo
    BY StepLists
  <2>2. email \in Addresses \cup {Nobody}
    BY DEF Token
  <2>. QED  BY <2>1, <2>2 DEF Handler, Todo
<1>5. todo # <<>> /\ todo \notin {<<"env", "account">>, <<"account">>, <<"file", "account">>}
  <2>1. Len(todo) = 3
    BY StepLists
  <2>2. \A t : Len(t) # 3 => todo # t
    BY <2>1
  <2>3. /\ Len(<<"env", "account">>) # 3 /\ Len(<<"file", "account">>) # 3
        /\ Len(<<"account">>) # 3 /\ Len(<<>>) # 3
    BY StepLists
  <2>. QED  BY <2>2, <2>3
<1>. HIDE DEF r
<1>6. /\ handler' \in [Handlers -> Handler] /\ handler'[h] = r
      /\ \A other \in Handlers \ {h} : handler'[other] = handler[other]
  BY <1>1, <1>4 DEF AccountInv, AccountTypeOK
<1>7. AccountTypeOK'
  BY <1>1, <1>6, <1>3 DEF AccountInv, AccountTypeOK
<1>8. \A other \in Handlers : RowOK(handler'[other])
  <2>1. EndsInWrite(todo) /\ todo \in ConnectLists
    BY StepLists DEF ConnectLists
  <2>2. RowOK(r)
    BY <1>5, <1>4, <2>1 DEF RowOK
  <2>. QED  BY <1>6, <2>2 DEF AccountInv
<1>9. ASSUME ~mixed'  PROVE BeingConnected(h)'
  <2>1. \A other \in Handlers \ {h} : handler'[other] = Idle
    BY <1>6, <1>9, <1>3 DEF Busy, AccountInv, RowOK
  <2>2. Connects(handler[h])'
    BY <1>5, <1>4, <1>6 DEF Connects, IsToken
  <2>. QED  BY <2>1, <2>2 DEF BeingConnected
<1>. QED  BY <1>7, <1>8, <1>9 DEF AccountInv

LEMMA TailIs ==
  ASSUME NEW S, NEW t \in Seq(S), t # <<>>, Len(t) # 1
  PROVE  Tail(t) \in Seq(S) /\ Tail(t) # <<>> /\ (EndsInWrite(t) => EndsInWrite(Tail(t)))
<1>1. Tail(t) \in Seq(S) /\ Len(Tail(t)) = Len(t) - 1
  OBVIOUS
<1>2. Len(t) \in Nat /\ Len(t) # 0 /\ Len(<<>>) = 0
  OBVIOUS
<1>3. Len(Tail(t)) # 0 /\ Tail(t) # <<>>
  <2>1. Len(Tail(t)) # 0
    BY <1>1, <1>2
  <2>. QED  BY <2>1, <1>2
<1>4. Tail(t)[Len(Tail(t))] = t[Len(t)]
  BY <1>1, <1>2, <1>3
<1>. QED  BY <1>1, <1>3, <1>4 DEF EndsInWrite

(* What becomes of a handler's row when a step is done.                    *)
LEMMA DoneIs ==
  ASSUME AccountInv, NEW h \in Handlers, handler[h].todo # <<>>, Done(h)
  PROVE  \E r \in Handler :
           /\ handler' = [handler EXCEPT ![h] = r]
           /\ RowOK(r) /\ (r.op = "connect" => handler[h].op = "connect")
           /\ \A a : HandlerOf(a, handler[h]) => HandlerOf(a, r)
           /\ Len(handler[h].todo) = 1 => r = Idle
           /\ Len(handler[h].todo) # 1 =>
                r.op = handler[h].op /\ r.todo = Tail(handler[h].todo)
                /\ r.token = handler[h].token /\ r.email = handler[h].email
<1>. DEFINE o == handler[h]
            s == [o EXCEPT !.todo = Tail(o.todo)]
<1>1. o \in Handler /\ RowOK(o) /\ handler \in [Handlers -> Handler]
  BY DEF AccountInv, AccountTypeOK
<1>2. CASE Len(o.todo) = 1
  <2>1. handler' = [handler EXCEPT ![h] = Idle]
    BY <1>2 DEF Done
  <2>. QED  BY <1>2, <2>1, IdleHandler DEF RowOK, EndsInWrite
<1>3. CASE Len(o.todo) # 1
  <2>1. o.todo \in Todo /\ Tail(o.todo) \in Todo /\ Tail(o.todo) # <<>> /\ EndsInWrite(Tail(o.todo))
    <3>1. o.todo \in Todo
      BY <1>1 DEF Handler, Todo
    <3>. QED  BY <1>1, <1>3, <3>1, TailIs DEF Todo, RowOK
  <2>2. /\ s \in Handler /\ s.op = o.op /\ s.todo = Tail(o.todo) /\ s.token = o.token
        /\ s.email = o.email /\ s.read = o.read
    BY <1>1, <2>1 DEF Handler, Todo
  <2>3. handler' = [handler EXCEPT ![h] = s]
    BY <1>1, <1>3 DEF Done, Advanced
  <2>. HIDE DEF s
  <2>4. o.op = "connect" => Tail(o.todo) \in ConnectLists
    BY <1>1, <1>3, StepLists DEF RowOK, ConnectLists
  <2>5. RowOK(s)
    BY <1>1, <2>1, <2>2, <2>4 DEF RowOK
  <2>6. \A a : HandlerOf(a, o) => HandlerOf(a, s)
    BY <2>2 DEF HandlerOf
  <2>. QED  BY <1>3, <2>2, <2>3, <2>5, <2>6
<1>. QED  BY <1>2, <1>3

(* A handler at work that keeps all of one account keeps the invariant.    *)
LEMMA StepKeeps ==
  ASSUME AccountInv, NEW h \in Handlers, NEW r \in Handler, RowOK(r),
         handler' = [handler EXCEPT ![h] = r], handler[h].todo # <<>>,
         r.op = "connect" => handler[h].op = "connect",
         UNCHANGED <<dotenvExists, mixed, restarts>>, known' \in BOOLEAN,
         dotenv' \in Token \cup {NoToken}, environ' \in Token \cup {NoToken},
         tokenFile' \in Token \cup {NoToken, Unreadable}, account' \in Account \cup {NoAccount},
         \A a \in Addresses \cup {Nobody} : Agreed(a) =>
           /\ OfOne(a, dotenv') /\ OfOne(a, environ') /\ OfOne(a, tokenFile')
           /\ AccountOf(a, account') /\ HandlerOf(a, r),
         dotenvExists /\ Connects(handler[h]) =>
           \/ Connects(r)'
           \/ /\ r = Idle
              /\ OfOne(handler[h].token.of, dotenv') /\ OfOne(handler[h].token.of, environ')
              /\ OfOne(handler[h].token.of, tokenFile') /\ AccountOf(handler[h].token.of, account')
  PROVE  AccountInv'
<1>1. /\ handler' \in [Handlers -> Handler] /\ handler'[h] = r
      /\ \A other \in Handlers \ {h} : handler'[other] = handler[other]
  BY DEF AccountInv, AccountTypeOK
<1>2. AccountTypeOK'
  BY <1>1 DEF AccountInv, AccountTypeOK
<1>3. \A other \in Handlers : RowOK(handler'[other])
  BY <1>1 DEF AccountInv
<1>4. ASSUME dotenvExists, ~mixed, NEW g \in Handlers, BeingConnected(g)
      PROVE  BeingConnected(h)' \/ (~Connecting' /\ \E a \in Addresses \cup {Nobody} : Agreed(a)')
  <2>1. g = h /\ Connects(handler[h]) /\ \A other \in Handlers \ {h} : handler'[other] = Idle
    BY <1>1, <1>4, IdleHandler DEF BeingConnected
  <2>2. CASE Connects(r)'
    BY <1>1, <2>1, <2>2 DEF BeingConnected
  <2>3. CASE /\ r = Idle
             /\ OfOne(handler[h].token.of, dotenv') /\ OfOne(handler[h].token.of, environ')
             /\ OfOne(handler[h].token.of, tokenFile') /\ AccountOf(handler[h].token.of, account')
    <3>1. \A other \in Handlers : handler'[other] = Idle
      BY <1>1, <2>1, <2>3
    <3>2. ~Connecting'
      BY <3>1, IdleHandler DEF Connecting
    <3>3. PICK a \in Addresses : a = handler[h].token.of
      BY <2>1 DEF Connects, IsToken, Token
    <3>4. Agreed(a)'
      BY <2>3, <3>1, <3>3, IdleHandler DEF Agreed
    <3>. QED  BY <3>2, <3>3, <3>4
  <2>. QED  BY <1>4, <2>1, <2>2, <2>3
<1>5. ASSUME ~Connecting, NEW a \in Addresses \cup {Nobody}, Agreed(a)
      PROVE  ~Connecting' /\ Agreed(a)'
  <2>1. ~Connecting'
    BY <1>1, <1>5 DEF Connecting
  <2>2. Agreed(a)'
    BY <1>1, <1>5 DEF Agreed
  <2>. QED  BY <2>1, <2>2
<1>. QED  BY <1>2, <1>3, <1>4, <1>5 DEF AccountInv

(* The list a connection has before it, and its first step.                *)
LEMMA ConnectAt ==
  ASSUME NEW r, Connects(r)
  PROVE  /\ Head(r.todo) \in {"file", "env", "account"}
         /\ Head(r.todo) = "account" => Len(r.todo) = 1
         /\ Head(r.todo) # "account" => Len(r.todo) # 1
<1>1. CASE r.todo = GrantedSteps  BY <1>1, StepLists
<1>2. CASE r.todo = PastedSteps  BY <1>2, StepLists
<1>3. CASE r.todo = <<"env", "account">>  BY <1>3, StepLists
<1>4. CASE r.todo = <<"file", "account">>  BY <1>4, StepLists
<1>5. CASE r.todo = <<"account">>  BY <1>5, StepLists
<1>. QED  BY <1>1, <1>2, <1>3, <1>4, <1>5 DEF Connects

LEMMA HandlerTyped ==
  ASSUME AccountInv, NEW h \in Handlers
  PROVE  handler[h] \in Handler /\ RowOK(handler[h])
         /\ handler[h].token \in Token \cup {NoToken} /\ handler[h].email \in Addresses \cup {Nobody}
         /\ handler[h].read \in Account \cup {NoAccount}
  BY DEF AccountInv, AccountTypeOK, Handler

LEMMA StoreTokenFileStep ==
  ASSUME AccountInv, NEW h \in Handlers, StoreTokenFile(h)
  PROVE  AccountInv'
<1>. DEFINE o == handler[h]
<1>1. /\ o.todo # <<>> /\ Head(o.todo) = "file" /\ Done(h) /\ tokenFile' = o.token
      /\ UNCHANGED <<dotenvExists, dotenv, environ, account, known, mixed, restarts>>
  BY DEF StoreTokenFile, AtStep
<1>2. PICK r \in Handler :
           /\ handler' = [handler EXCEPT ![h] = r]
           /\ RowOK(r) /\ (r.op = "connect" => o.op = "connect")
           /\ \A a : HandlerOf(a, o) => HandlerOf(a, r)
           /\ Len(o.todo) = 1 => r = Idle
           /\ Len(o.todo) # 1 => r.op = o.op /\ r.todo = Tail(o.todo)
                                 /\ r.token = o.token /\ r.email = o.email
  BY <1>1, DoneIs
<1>3. o.token \in Token \cup {NoToken}
  BY HandlerTyped
<1>4. \A a \in Addresses \cup {Nobody} : Agreed(a) =>
           /\ OfOne(a, dotenv') /\ OfOne(a, environ') /\ OfOne(a, tokenFile')
           /\ AccountOf(a, account') /\ HandlerOf(a, r)
  BY <1>1, <1>2 DEF Agreed, HandlerOf
<1>5. Connects(o) => Connects(r)'
  <2>. SUFFICES ASSUME Connects(o)  PROVE Connects(r)'
    OBVIOUS
  <2>1. Len(o.todo) # 1 /\ o.todo \in {GrantedSteps, <<"file", "account">>}
    <3>1. o.todo \notin {<<"env", "account">>, <<"account">>, PastedSteps}
      BY <1>1, StepLists
    <3>. QED  BY <1>1, <3>1, ConnectAt DEF Connects
  <2>2. r.op = o.op /\ r.token = o.token /\ r.email = o.email /\ r.todo = Tail(o.todo)
    BY <1>2, <2>1
  <2>3. CASE o.todo = GrantedSteps
    BY <1>1, <2>2, <2>3, StepLists DEF Connects
  <2>4. CASE o.todo = <<"file", "account">>
    BY <1>1, <2>2, <2>4, StepLists DEF Connects
  <2>. QED  BY <2>1, <2>3, <2>4
<1>. QED  BY <1>1, <1>2, <1>3, <1>4, <1>5, StepKeeps DEF AccountInv, AccountTypeOK

LEMMA StoreEnvStep ==
  ASSUME AccountInv, NEW h \in Handlers, StoreEnv(h)
  PROVE  AccountInv'
<1>. DEFINE o == handler[h]
<1>1. /\ o.todo # <<>> /\ Head(o.todo) = "env" /\ Done(h)
      /\ dotenvExists => dotenv' = o.token /\ environ' = o.token
      /\ ~dotenvExists => dotenv' = dotenv /\ environ' = environ
      /\ UNCHANGED <<dotenvExists, tokenFile, account, known, mixed, restarts>>
  BY DEF StoreEnv, AtStep
<1>2. PICK r \in Handler :
           /\ handler' = [handler EXCEPT ![h] = r]
           /\ RowOK(r) /\ (r.op = "connect" => o.op = "connect")
           /\ \A a : HandlerOf(a, o) => HandlerOf(a, r)
           /\ Len(o.todo) = 1 => r = Idle
           /\ Len(o.todo) # 1 => r.op = o.op /\ r.todo = Tail(o.todo)
                                 /\ r.token = o.token /\ r.email = o.email
  BY <1>1, DoneIs
<1>3. o.token \in Token \cup {NoToken}
  BY HandlerTyped
<1>4. \A a \in Addresses \cup {Nobody} : Agreed(a) =>
           /\ OfOne(a, dotenv') /\ OfOne(a, environ') /\ OfOne(a, tokenFile')
           /\ AccountOf(a, account') /\ HandlerOf(a, r)
  BY <1>1, <1>2 DEF Agreed, HandlerOf
<1>5. dotenvExists /\ Connects(o) => Connects(r)'
  <2>. SUFFICES ASSUME dotenvExists, Connects(o)  PROVE Connects(r)'
    OBVIOUS
  <2>1. Len(o.todo) # 1 /\ o.todo \in {PastedSteps, <<"env", "account">>}
    <3>1. o.todo \notin {<<"file", "account">>, <<"account">>, GrantedSteps}
      BY <1>1, StepLists
    <3>. QED  BY <1>1, <3>1, ConnectAt DEF Connects
  <2>2. r.op = o.op /\ r.token = o.token /\ r.email = o.email /\ r.todo = Tail(o.todo)
    BY <1>2, <2>1
  <2>3. CASE o.todo = PastedSteps
    BY <1>1, <2>2, <2>3, StepLists DEF Connects
  <2>4. CASE o.todo = <<"env", "account">>
    BY <1>1, <2>2, <2>4, StepLists DEF Connects
  <2>. QED  BY <2>1, <2>3, <2>4
<1>6. dotenv' \in Token \cup {NoToken} /\ environ' \in Token \cup {NoToken}
  BY <1>1, <1>3 DEF AccountInv, AccountTypeOK
<1>. QED  BY <1>1, <1>2, <1>4, <1>5, <1>6, StepKeeps DEF AccountInv, AccountTypeOK

(* The last store of a connection: everything is of one account.           *)
LEMMA StoreAccountStep ==
  ASSUME AccountInv, NEW h \in Handlers, StoreAccount(h)
  PROVE  AccountInv'
<1>. DEFINE o == handler[h]
<1>1. /\ o.todo # <<>> /\ Head(o.todo) = "account" /\ Done(h)
      /\ account' = [email |-> o.email, status |-> "active"]
      /\ UNCHANGED <<dotenvExists, dotenv, environ, tokenFile, known, mixed, restarts>>
  BY DEF StoreAccount, AtStep
<1>2. PICK r \in Handler :
           /\ handler' = [handler EXCEPT ![h] = r]
           /\ RowOK(r) /\ (r.op = "connect" => o.op = "connect")
           /\ \A a : HandlerOf(a, o) => HandlerOf(a, r)
           /\ Len(o.todo) = 1 => r = Idle
  BY <1>1, DoneIs
<1>3. account' \in Account /\ account'.email = o.email
  BY <1>1, HandlerTyped DEF Account
<1>4. \A a \in Addresses \cup {Nobody} : Agreed(a) =>
           /\ OfOne(a, dotenv') /\ OfOne(a, environ') /\ OfOne(a, tokenFile')
           /\ AccountOf(a, account') /\ HandlerOf(a, r)
  BY <1>1, <1>2, <1>3 DEF Agreed, HandlerOf, AccountOf
<1>5. ASSUME Connects(o)
      PROVE  /\ r = Idle
             /\ OfOne(o.token.of, dotenv') /\ OfOne(o.token.of, environ')
             /\ OfOne(o.token.of, tokenFile') /\ AccountOf(o.token.of, account')
  <2>1. o.todo = <<"account">> /\ r = Idle
    <3>1. Len(o.todo) = 1
      BY <1>1, <1>5, ConnectAt
    <3>2. o.todo \notin {GrantedSteps, PastedSteps, <<"env", "account">>, <<"file", "account">>}
      <4>1. /\ Len(GrantedSteps) # 1 /\ Len(PastedSteps) # 1
            /\ Len(<<"env", "account">>) # 1 /\ Len(<<"file", "account">>) # 1
        BY StepLists
      <4>2. \A t : Len(t) # 1 => o.todo # t
        BY <3>1
      <4>. QED  BY <4>1, <4>2
    <3>. QED  BY <1>2, <1>5, <3>1, <3>2 DEF Connects
  <2>2. dotenv = o.token /\ environ = o.token /\ tokenFile = o.token /\ IsToken(o.token)
        /\ o.email \in {o.token.of, Nobody}
    BY <1>5, <2>1 DEF Connects
  <2>. QED  BY <1>1, <1>3, <2>1, <2>2 DEF OfOne, AccountOf
<1>. QED  BY <1>1, <1>2, <1>3, <1>4, <1>5, StepKeeps DEF AccountInv, AccountTypeOK

(* A step that is none of a connection.                                    *)
LEMMA OtherStep ==
  ASSUME AccountInv, NEW h \in Handlers, handler[h].todo # <<>>,
         Head(handler[h].todo) \notin {"file", "env", "account"},
         NEW r \in Handler, RowOK(r), handler' = [handler EXCEPT ![h] = r],
         r.op = "connect" => handler[h].op = "connect",
         UNCHANGED <<dotenvExists, mixed, restarts>>, known' \in BOOLEAN,
         dotenv' \in Token \cup {NoToken}, environ' \in Token \cup {NoToken},
         tokenFile' \in Token \cup {NoToken, Unreadable}, account' \in Account \cup {NoAccount},
         \A a \in Addresses \cup {Nobody} : Agreed(a) =>
           /\ OfOne(a, dotenv') /\ OfOne(a, environ') /\ OfOne(a, tokenFile')
           /\ AccountOf(a, account') /\ HandlerOf(a, r)
  PROVE  AccountInv'
<1>1. ~Connects(handler[h])
  BY ConnectAt
<1>. QED  BY <1>1, StepKeeps

LEMMA StoresTyped ==
  ASSUME AccountInv
  PROVE  /\ known \in BOOLEAN /\ mixed \in BOOLEAN /\ dotenvExists \in BOOLEAN
         /\ dotenv \in Token \cup {NoToken} /\ environ \in Token \cup {NoToken}
         /\ tokenFile \in Token \cup {NoToken, Unreadable} /\ account \in Account \cup {NoAccount}
  BY DEF AccountInv, AccountTypeOK

LEMMA StoreRefreshedStep ==
  ASSUME AccountInv, NEW h \in Handlers, StoreRefreshed(h)
  PROVE  AccountInv'
<1>1. /\ handler[h].todo # <<>> /\ Head(handler[h].todo) = "refresh" /\ Done(h)
      /\ environ' = handler[h].token /\ dotenv' \in {handler[h].token, dotenv}
      /\ UNCHANGED <<dotenvExists, tokenFile, account, known, mixed, restarts>>
  BY DEF StoreRefreshed, AtStep
<1>2. PICK r \in Handler :
           /\ handler' = [handler EXCEPT ![h] = r]
           /\ RowOK(r) /\ (r.op = "connect" => handler[h].op = "connect")
           /\ \A a : HandlerOf(a, handler[h]) => HandlerOf(a, r)
  BY <1>1, DoneIs
<1>3. dotenv' \in Token \cup {NoToken} /\ environ' \in Token \cup {NoToken}
  BY <1>1, StoresTyped, HandlerTyped
<1>4. \A a \in Addresses \cup {Nobody} : Agreed(a) =>
           /\ OfOne(a, dotenv') /\ OfOne(a, environ') /\ OfOne(a, tokenFile')
           /\ AccountOf(a, account') /\ HandlerOf(a, r)
  BY <1>1, <1>2 DEF Agreed, HandlerOf
<1>. QED  BY <1>1, <1>2, <1>3, <1>4, StoresTyped, OtherStep

LEMMA UnlinkStep ==
  ASSUME AccountInv, NEW h \in Handlers, UnlinkTokenFile(h)
  PROVE  AccountInv'
<1>1. /\ handler[h].todo # <<>> /\ Head(handler[h].todo) = "unlink" /\ Done(h)
      /\ tokenFile' = NoToken
      /\ UNCHANGED <<dotenvExists, dotenv, environ, account, known, mixed, restarts>>
  BY DEF UnlinkTokenFile, AtStep
<1>2. PICK r \in Handler :
           /\ handler' = [handler EXCEPT ![h] = r]
           /\ RowOK(r) /\ (r.op = "connect" => handler[h].op = "connect")
           /\ \A a : HandlerOf(a, handler[h]) => HandlerOf(a, r)
  BY <1>1, DoneIs
<1>3. \A a \in Addresses \cup {Nobody} : Agreed(a) =>
           /\ OfOne(a, dotenv') /\ OfOne(a, environ') /\ OfOne(a, tokenFile')
           /\ AccountOf(a, account') /\ HandlerOf(a, r)
  BY <1>1, <1>2 DEF Agreed, OfOne
<1>. QED  BY <1>1, <1>2, <1>3, StoresTyped, OtherStep

LEMMA FetchMailsStep ==
  ASSUME AccountInv, NEW h \in Handlers, FetchMails(h)
  PROVE  AccountInv'
<1>1. /\ handler[h].todo # <<>> /\ Head(handler[h].todo) = "fetch" /\ Done(h)
      /\ known' = TRUE
      /\ UNCHANGED <<dotenvExists, dotenv, environ, tokenFile, account, mixed, restarts>>
  BY DEF FetchMails, AtStep, files
<1>2. PICK r \in Handler :
           /\ handler' = [handler EXCEPT ![h] = r]
           /\ RowOK(r) /\ (r.op = "connect" => handler[h].op = "connect")
           /\ \A a : HandlerOf(a, handler[h]) => HandlerOf(a, r)
  BY <1>1, DoneIs
<1>3. \A a \in Addresses \cup {Nobody} : Agreed(a) =>
           /\ OfOne(a, dotenv') /\ OfOne(a, environ') /\ OfOne(a, tokenFile')
           /\ AccountOf(a, account') /\ HandlerOf(a, r)
  BY <1>1, <1>2 DEF Agreed
<1>. QED  BY <1>1, <1>2, <1>3, StoresTyped, OtherStep

LEMMA ReadAccountStep ==
  ASSUME AccountInv, NEW h \in Handlers, ReadAccount(h)
  PROVE  AccountInv'
<1>. DEFINE o == handler[h]
            r == [[o EXCEPT !.todo = Tail(o.todo)] EXCEPT !.read = account]
<1>1. /\ o.todo # <<>> /\ Head(o.todo) = "read" /\ handler' = [handler EXCEPT ![h] = r]
      /\ UNCHANGED <<dotenvExists, dotenv, environ, tokenFile, account, known, mixed, restarts>>
  BY HandlerTyped DEF ReadAccount, AtStep, files, Advanced, Handler
<1>2. o \in Handler /\ RowOK(o) /\ o.todo \in Todo /\ account \in Account \cup {NoAccount}
  BY HandlerTyped, StoresTyped DEF Handler, Todo
<1>3. Len(o.todo) # 1
  BY <1>1, <1>2 DEF RowOK, EndsInWrite, Todo
<1>4. Tail(o.todo) \in Todo /\ Tail(o.todo) # <<>> /\ EndsInWrite(Tail(o.todo))
  BY <1>1, <1>2, <1>3, TailIs DEF Todo, RowOK
<1>5. /\ r \in Handler /\ r.op = o.op /\ r.todo = Tail(o.todo) /\ r.token = o.token
      /\ r.email = o.email /\ r.read = account
  BY <1>2, <1>4 DEF Handler, Todo
<1>. HIDE DEF r
<1>6. o.op # "connect" /\ o.op # "none"
  BY <1>1, <1>2, StepLists DEF RowOK, ConnectLists
<1>7. RowOK(r)
  BY <1>4, <1>5, <1>6 DEF RowOK
<1>8. \A a \in Addresses \cup {Nobody} : Agreed(a) =>
           /\ OfOne(a, dotenv') /\ OfOne(a, environ') /\ OfOne(a, tokenFile')
           /\ AccountOf(a, account') /\ HandlerOf(a, r)
  BY <1>1, <1>5 DEF Agreed, HandlerOf
<1>. QED  BY <1>1, <1>5, <1>6, <1>7, <1>8, StoresTyped, OtherStep

LEMMA UpdatedIs ==
  ASSUME NEW op \in {"disconnect", "refused", "sync", "failed_sync", "identify"},
         NEW read \in Account \cup {NoAccount}, NEW email \in Addresses \cup {Nobody},
         account \in Account \cup {NoAccount}
  PROVE  /\ Updated(op, read, email) \in Account \cup {NoAccount}
         /\ \A a : AccountOf(a, account) /\ AccountOf(a, read) /\ email \in {a, Nobody}
                     => AccountOf(a, Updated(op, read, email))
<1>. DEFINE old == IF read = NoAccount THEN [email |-> Nobody, status |-> "error"] ELSE read
<1>1. old \in Account /\ \A a : AccountOf(a, read) => old.email \in {a, Nobody}
  BY DEF Account, AccountOf
<1>. HIDE DEF old
<1>2. ASSUME NEW status \in {"active", "error", "disabled"}
      PROVE  [old EXCEPT !.status = status] \in Account /\ [old EXCEPT !.status = status].email = old.email
  BY <1>1 DEF Account
<1>3. CASE op = "disconnect"
  <2>1. Updated(op, read, email) \in {account, [old EXCEPT !.status = "disabled"]}
    BY <1>3 DEF Updated, old
  <2>. QED  BY <1>1, <1>2, <2>1 DEF AccountOf
<1>4. CASE op \in {"refused", "failed_sync"}
  <2>1. Updated(op, read, email) = [old EXCEPT !.status = "error"]
    BY <1>4 DEF Updated, old
  <2>. QED  BY <1>1, <1>2, <2>1 DEF AccountOf
<1>5. CASE op = "sync"
  <2>1. Updated(op, read, email) = [old EXCEPT !.status = "active"]
    BY <1>5 DEF Updated, old
  <2>. QED  BY <1>1, <1>2, <2>1 DEF AccountOf
<1>6. CASE op = "identify"
  <2>1. Updated(op, read, email) = [email |-> email, status |-> "active"]
    BY <1>6 DEF Updated
  <2>. QED  BY <2>1 DEF AccountOf, Account
<1>. QED  BY <1>3, <1>4, <1>5, <1>6

LEMMA WriteAccountStep ==
  ASSUME AccountInv, NEW h \in Handlers, WriteAccount(h)
  PROVE  AccountInv'
<1>. DEFINE o == handler[h]
<1>1. /\ o.todo # <<>> /\ Head(o.todo) = "write" /\ Done(h)
      /\ account' = Updated(o.op, o.read, o.email)
      /\ known' = (known \/ o.op = "identify")
      /\ UNCHANGED <<dotenvExists, dotenv, environ, tokenFile, mixed, restarts>>
  BY DEF WriteAccount, AtStep
<1>2. PICK r \in Handler :
           /\ handler' = [handler EXCEPT ![h] = r]
           /\ RowOK(r) /\ (r.op = "connect" => o.op = "connect")
           /\ \A a : HandlerOf(a, o) => HandlerOf(a, r)
  BY <1>1, DoneIs
<1>3. /\ o.read \in Account \cup {NoAccount} /\ o.email \in Addresses \cup {Nobody}
      /\ account \in Account \cup {NoAccount}
  BY HandlerTyped, StoresTyped
<1>4. o.op \in {"disconnect", "refused", "sync", "failed_sync", "identify"}
  <2>1. o.op # "connect" /\ o.op # "none"
    BY <1>1, HandlerTyped, StepLists DEF RowOK, ConnectLists
  <2>. QED  BY <2>1, HandlerTyped DEF Handler
<1>5. account' \in Account \cup {NoAccount} /\ known' \in BOOLEAN
  BY <1>1, <1>3, <1>4, UpdatedIs
<1>6. \A a \in Addresses \cup {Nobody} : Agreed(a) =>
           /\ OfOne(a, dotenv') /\ OfOne(a, environ') /\ OfOne(a, tokenFile')
           /\ AccountOf(a, account') /\ HandlerOf(a, r)
  BY <1>1, <1>2, <1>3, <1>4, UpdatedIs DEF Agreed, HandlerOf
<1>. QED  BY <1>1, <1>2, <1>5, <1>6, StoresTyped, OtherStep

LEMMA AskingFailsStep ==
  ASSUME AccountInv, NEW h \in Handlers, AskingFails(h)
  PROVE  AccountInv'
<1>. DEFINE failed == [Idle EXCEPT !.op = "failed_sync", !.todo = <<"read", "write">>]
<1>1. /\ handler[h].op \in {"sync", "identify"}
      /\ handler[h].todo # <<>> /\ Head(handler[h].todo) \in {"refresh", "fetch", "read"}
      /\ UNCHANGED <<dotenvExists, dotenv, environ, tokenFile, account, known, mixed, restarts>>
  BY DEF AskingFails, AtStep, files
<1>2. failed \in Handler /\ RowOK(failed) /\ failed.op # "connect" /\ \A a : HandlerOf(a, failed)
  <2>1. /\ <<"read", "write">> \in Todo /\ <<"read", "write">> # <<>>
        /\ EndsInWrite(<<"read", "write">>)
    BY DEF Todo, EndsInWrite
  <2>. QED  BY <2>1 DEF Idle, Handler, Todo, RowOK, HandlerOf, OfOne, AccountOf
<1>3. RowOK(Idle)
  BY IdleHandler DEF RowOK, EndsInWrite
<1>. HIDE DEF failed
<1>4. PICK r \in {Idle, failed} : handler' = [handler EXCEPT ![h] = r]
  BY DEF AskingFails, failed
<1>5. r \in Handler /\ RowOK(r) /\ r.op # "connect" /\ \A a : HandlerOf(a, r)
  BY <1>2, <1>3, <1>4, IdleHandler
<1>6. \A a \in Addresses \cup {Nobody} : Agreed(a) =>
           /\ OfOne(a, dotenv') /\ OfOne(a, environ') /\ OfOne(a, tokenFile')
           /\ AccountOf(a, account') /\ HandlerOf(a, r)
  BY <1>1, <1>5 DEF Agreed
<1>. QED  BY <1>1, <1>4, <1>5, <1>6, StoresTyped, OtherStep

(* The server dies.                                                        *)
LEMMA ServerDiesStep ==
  ASSUME AccountInv, ServerDies
  PROVE  AccountInv'
<1>1. /\ restarts < MaxRestarts /\ restarts' = restarts + 1
      /\ dotenv' \in {dotenv, NoToken} /\ environ' = dotenv'
      /\ tokenFile' \in {tokenFile, Unreadable} /\ account' \in {account, NoAccount}
      /\ known' = FALSE /\ handler' = [h \in Handlers |-> Idle]
      /\ dotenvExists' = dotenvExists
  BY DEF ServerDies
<1>2. mixed' = (mixed \/ Connecting)
  BY DEF ServerDies
<1>3. mixed' \in BOOLEAN /\ (~mixed' => ~mixed /\ ~Connecting)
  BY Zenon, <1>2 DEF Connecting
<1>4. \A h \in Handlers : handler'[h] = Idle
  BY <1>1
<1>5. AccountTypeOK'
  <2>1. handler' \in [Handlers -> Handler]
    BY <1>1, IdleHandler
  <2>2. restarts' \in 0 .. MaxRestarts
    BY <1>1, RestartsAssumption DEF AccountInv, AccountTypeOK
  <2>. QED  BY <1>1, <1>3, <2>1, <2>2, StoresTyped DEF AccountTypeOK
<1>6. \A h \in Handlers : RowOK(handler'[h])
  BY <1>4, IdleHandler DEF RowOK, EndsInWrite
<1>7. ASSUME dotenvExists', ~mixed'
      PROVE  ~Connecting' /\ \E a \in Addresses \cup {Nobody} : Agreed(a)'
  <2>1. dotenvExists /\ ~mixed /\ ~Connecting
    BY <1>1, <1>3, <1>7
  <2>2. PICK a \in Addresses \cup {Nobody} : Agreed(a)
    BY <2>1 DEF AccountInv, BeingConnected, Connects, Connecting
  <2>3. Agreed(a)'
    BY <1>1, <1>4, <2>2, IdleHandler DEF Agreed, OfOne, AccountOf
  <2>4. ~Connecting'
    BY <1>4, IdleHandler DEF Connecting
  <2>. QED  BY <2>3, <2>4
<1>. QED  BY <1>5, <1>6, <1>7 DEF AccountInv

(* The token that is used is of the account that all stores are of.        *)
LEMMA UsedOfOne ==
  ASSUME NEW a, Agreed(a), IsToken(UsedToken)
  PROVE  UsedToken.of = a
  BY NoneAssumption DEF Agreed, UsedToken, EnvToken, OfOne, IsToken

(* The lists the other handlers begin with.                                *)
LEMMA WriteList == <<"read", "write">> \in Todo \ {<<>>} /\ EndsInWrite(<<"read", "write">>)
  BY DEF Todo, EndsInWrite
LEMMA DisconnectList ==
  <<"unlink", "read", "write">> \in Todo \ {<<>>} /\ EndsInWrite(<<"unlink", "read", "write">>)
  BY DEF Todo, EndsInWrite
LEMMA UseList ==
  ASSUME NEW refresh \in {<<>>, <<"refresh", "file">>},
         NEW rest \in {<<"fetch", "read", "write">>, <<"read", "write">>}
  PROVE  refresh \o rest \in Todo \ {<<>>} /\ EndsInWrite(refresh \o rest)
<1>1. /\ refresh \in Todo /\ Len(refresh) \in Nat
      /\ rest \in Todo /\ Len(rest) \in {2, 3} /\ rest[Len(rest)] = "write"
  <2>1. refresh \in Todo /\ Len(refresh) \in Nat
    <3>1. <<"refresh", "file">> \in Todo /\ <<>> \in Todo
      BY DEF Todo
    <3>2. refresh \in Todo
      BY <3>1
    <3>. QED  BY <3>2 DEF Todo
  <2>2. CASE rest = <<"read", "write">>
    BY <2>1, <2>2 DEF Todo
  <2>3. CASE rest = <<"fetch", "read", "write">>
    BY <2>1, <2>3 DEF Todo
  <2>. QED  BY <2>2, <2>3
<1>2. /\ refresh \o rest \in Todo /\ Len(refresh \o rest) = Len(refresh) + Len(rest)
      /\ \A i \in 1 .. Len(rest) : (refresh \o rest)[Len(refresh) + i] = rest[i]
  <2>1. refresh \o rest \in Todo
    BY <1>1 DEF Todo
  <2>2. Len(refresh \o rest) = Len(refresh) + Len(rest)
    BY <1>1 DEF Todo
  <2>3. \A i \in 1 .. Len(rest) : (refresh \o rest)[Len(refresh) + i] = rest[i]
    BY <1>1 DEF Todo
  <2>. QED  BY <2>1, <2>2, <2>3
<1>3. (refresh \o rest)[Len(refresh \o rest)] = "write"
  BY <1>1, <1>2
<1>4. refresh \o rest # <<>>
  <2>1. Len(refresh \o rest) # 0 /\ Len(<<>>) = 0
    BY <1>1, <1>2
  <2>. QED  BY <2>1
<1>. QED  BY <1>2, <1>3, <1>4 DEF EndsInWrite

LEMMA UseTokenStep ==
  ASSUME AccountInv, NEW h \in Handlers, NEW op \in {"sync", "identify"},
         NEW rest \in {<<"fetch", "read", "write">>, <<"read", "write">>}, UseToken(h, op, rest)
  PROVE  AccountInv'
<1>1. PICK refresh \in {<<>>, <<"refresh", "file">>} :
        Start(h, op, refresh \o rest, UsedToken, UsedToken.of)
  BY DEF UseToken
<1>2. IsToken(UsedToken) /\ UsedToken \in Token /\ UsedToken.of \in Addresses
  BY DEF UseToken, IsToken, Token
<1>3. \A a \in Addresses \cup {Nobody} : Agreed(a) => OfOne(a, UsedToken) /\ UsedToken.of \in {a, Nobody}
  BY <1>2, UsedOfOne DEF OfOne
<1>4. PICK todo \in Todo \ {<<>>} : EndsInWrite(todo) /\ Start(h, op, todo, UsedToken, UsedToken.of)
  BY <1>1, UseList
<1>. QED  BY <1>2, <1>3, <1>4, Begins

LEMMA AccountStep ==
  ASSUME AccountInv, AccountNext
  PROVE  AccountInv'
<1>1. \A a : OfOne(a, NoToken) /\ Nobody \in {a, Nobody}
  BY DEF OfOne
<1>2. ASSUME NEW h \in Handlers, NEW a \in Addresses, ConnectGranted(h, a)  PROVE AccountInv'
  <2>. DEFINE token == [of |-> a, named |-> FALSE]
  <2>1. token \in Token /\ token.of = a
    BY DEF Token
  <2>2. PICK email \in {a, Nobody} : Start(h, "connect", GrantedSteps, token, email)
    BY <1>2 DEF ConnectGranted
  <2>. QED  BY <2>1, <2>2, ConnectBegins
<1>3. ASSUME NEW h \in Handlers, NEW a \in Addresses, ConnectPasted(h, a)  PROVE AccountInv'
  <2>1. PICK named \in BOOLEAN :
          Start(h, "connect", PastedSteps, [of |-> a, named |-> named], IF named THEN a ELSE Nobody)
    BY <1>3 DEF ConnectPasted
  <2>. DEFINE token == [of |-> a, named |-> named]
              email == IF named THEN a ELSE Nobody
  <2>2. token \in Token /\ token.of = a /\ email \in {a, Nobody}
    BY DEF Token
  <2>3. Start(h, "connect", PastedSteps, token, email)
    BY <2>1
  <2>. HIDE DEF token, email
  <2>. QED  BY <2>2, <2>3, ConnectBegins
<1>4. ASSUME NEW h \in Handlers, OauthFails(h)  PROVE AccountInv'
  BY <1>1, <1>4, WriteList, Begins DEF OauthFails
<1>5. ASSUME NEW h \in Handlers, Disconnect(h)  PROVE AccountInv'
  BY <1>1, <1>5, DisconnectList, Begins DEF Disconnect
<1>6. ASSUME NEW h \in Handlers, SyncWithoutToken(h)  PROVE AccountInv'
  BY <1>1, <1>6, WriteList, Begins DEF SyncWithoutToken
<1>7. ASSUME NEW h \in Handlers, Sync(h)  PROVE AccountInv'
  BY <1>7, UseTokenStep DEF Sync
<1>8. ASSUME NEW h \in Handlers, Identify(h)  PROVE AccountInv'
  BY <1>8, UseTokenStep DEF Identify
<1>. QED  BY <1>2, <1>3, <1>4, <1>5, <1>6, <1>7, <1>8, StoreTokenFileStep, StoreEnvStep,
             StoreRefreshedStep, StoreAccountStep, UnlinkStep, FetchMailsStep, ReadAccountStep,
             WriteAccountStep, AskingFailsStep, ServerDiesStep DEF AccountNext

(* AccountInv holds from the start and is kept.                            *)
THEOREM AccountInvariant == AccountSpec => []AccountInv
<1>1. AccountInit => AccountInv
  <2>. SUFFICES ASSUME AccountInit  PROVE AccountInv
    OBVIOUS
  <2>1. \A h \in Handlers : handler[h] = Idle
    BY DEF AccountInit
  <2>2. AccountTypeOK
    <3>1. handler \in [Handlers -> Handler]
      BY IdleHandler DEF AccountInit
    <3>2. restarts \in 0 .. MaxRestarts
      BY RestartsAssumption DEF AccountInit
    <3>. QED  BY <3>1, <3>2 DEF AccountInit, AccountTypeOK
  <2>3. \A h \in Handlers : RowOK(handler[h])
    BY <2>1, IdleHandler DEF RowOK, EndsInWrite
  <2>4. ~Connecting /\ Agreed(Nobody)
    BY <2>1, IdleHandler DEF Connecting, Agreed, AccountInit, OfOne, AccountOf
  <2>. QED  BY <2>2, <2>3, <2>4 DEF AccountInv
<1>2. AccountInv /\ [AccountNext]_accountVars => AccountInv'
  <2>. SUFFICES ASSUME AccountInv, UNCHANGED accountVars  PROVE AccountInv'
    BY AccountStep
  <2>. QED  BY DEF accountVars, files, AccountInv, AccountTypeOK, BeingConnected, Connects,
                   Connecting, Agreed, HandlerOf, OfOne, AccountOf, RowOK
<1>. QED  BY <1>1, <1>2, PTL DEF AccountSpec

(* The stores of the Gmail account, and the rows of the handlers, have     *)
(* their types.                                                            *)
THEOREM AccountTypesHold == AccountSpec => []AccountTypeOK
<1>1. AccountInv => AccountTypeOK
  BY DEF AccountInv
<1>. QED  BY <1>1, AccountInvariant, PTL

(* With a .env, the settings page shows the account whose token is used,   *)
(* unless the last connection met other requests or a crash                *)
(* (gmail_account_repository.py, public_status and primary_token_info).    *)
THEOREM ShownAccountIsUsed == AccountSpec => []ShownIsUsed
<1>1. AccountInv => ShownIsUsed
  <2>. SUFFICES ASSUME AccountInv, dotenvExists, ~mixed, ~Connecting, IsToken(UsedToken)
                PROVE  ShownEmail \in {UsedToken.of, Nobody}
    BY DEF ShownIsUsed
  <2>1. PICK a \in Addresses \cup {Nobody} : Agreed(a)
    BY DEF AccountInv, BeingConnected, Connects, Connecting
  <2>2. UsedToken.of = a /\ (account # NoAccount => account.email \in {a, Nobody})
    BY <2>1, UsedOfOne DEF Agreed, AccountOf
  <2>3. Connected
    BY DEF Connected
  <2>. QED  BY <2>2, <2>3 DEF ShownEmail
<1>. QED  BY <1>1, AccountInvariant, PTL

-----------------------------------------------------------------------------
(* The mailboxes of the other providers.                                   *)

Variables == {"address", "username", "password"}
SyncRow == [pc : {"idle", "password", "username", "login", "persist", "publish"},
            config : Configuration, late : BOOLEAN, torn : BOOLEAN,
            drafts : SUBSET [id : Letters, mail : Letters]]
MailboxTypes ==
  /\ mailbox \in [Owners -> Seq(Letters)]
  /\ env \in Configuration
  /\ form \in [account : Setting, todo : Seq(Variables)]
  /\ syncs \in [Syncs -> SyncRow]
  /\ rows \in [Owners -> [Letters -> Letters \cup {NoLetter}]]
  /\ everSynced \subseteq Owners

(* Outside of the form the variables are of one account; within it, those  *)
(* that are no longer to set are of the account being saved.               *)
SetNames == <<"address", "username", "password">>
FormOK ==
  /\ ~Saving => env.password = env.address /\ env.username = env.address
  /\ Saving =>
       /\ form.account \in Owners
       /\ form.todo \in {SetNames, <<"username", "password">>, <<"password">>, <<>>}
       /\ form.todo # SetNames => env.address = form.account
       /\ form.todo \in {<<"password">>, <<>>} => env.username = form.account
       /\ form.todo = <<>> => env.password = form.account

(* A sync the form has not touched has read what the environment holds.    *)
SyncOK(r) ==
  /\ r.pc \in {"persist", "publish"} => r.config.address \in Owners
  /\ r.pc = "publish" => r.config.address \in everSynced
  /\ r.pc # "persist" => r.drafts = {}
  /\ \A draft \in r.drafts : draft.id = draft.mail
  /\ r.pc # "idle" /\ ~r.torn =>
       /\ ~Saving /\ r.config.address = env.address
       /\ r.pc \in {"username", "login"} => r.config.password = env.password
       /\ r.pc = "login" => r.config.username = env.username

(* What it has fetched is in no other mailbox and stored of no other one.  *)
In(m, a) == m \in ToSet(mailbox[a])
DraftsOwn(r) ==
  r.pc = "persist" /\ ~r.torn =>
    \A draft \in r.drafts, b \in Owners \ {r.config.address} :
      ~In(draft.mail, b) /\ (b \notin torn => rows[b][draft.mail] # draft.mail)

RowsOwn ==
  /\ \A a \in Owners, id \in Letters : rows[a][id] \in {id, NoLetter}
  /\ \A a \in Owners, b \in Owners, m \in Letters : a # b =>
       /\ ~(In(m, a) /\ In(m, b))
       /\ a \notin torn /\ rows[a][m] = m => ~In(m, b)
       /\ a \notin torn /\ b \notin torn => ~(rows[a][m] = m /\ rows[b][m] = m)

SyncedOK ==
  /\ lastSynced \in everSynced \cup {NoOwner}
  /\ runtime = "ok" /\ ~stale /\ ~Saving => env.address \in everSynced

SourceInv ==
  /\ MailboxTypes /\ FormOK
  /\ \A s \in Syncs : SyncOK(syncs[s]) /\ DraftsOwn(syncs[s])
  /\ RowsOwn /\ SyncedOK

LEMMA IdleSyncRow == IdleSync \in SyncRow /\ IdleSync.pc = "idle" /\ IdleSync.drafts = {}
  BY DEF IdleSync, SyncRow, NoConfiguration, Configuration, Setting

LEMMA SyncTyped ==
  ASSUME SourceInv, NEW s \in Syncs
  PROVE  /\ syncs[s] \in SyncRow /\ syncs[s].config \in Configuration
         /\ SyncOK(syncs[s]) /\ DraftsOwn(syncs[s])
         /\ env \in Configuration
  BY DEF SourceInv, MailboxTypes, SyncRow

(* Letters of a mailbox that has grown or shrunk.                          *)
LEMMA LettersAfterAppend ==
  ASSUME NEW S, NEW t \in Seq(S), NEW m \in S
  PROVE  Append(t, m) \in Seq(S) /\ \A x \in ToSet(Append(t, m)) : x = m \/ x \in ToSet(t)
  BY DEF ToSet
LEMMA LettersAfterCut ==
  ASSUME NEW S, NEW t \in Seq(S), NEW i \in DOMAIN t
  PROVE  /\ SubSeq(t, 1, i - 1) \o SubSeq(t, i + 1, Len(t)) \in Seq(S)
         /\ \A x \in ToSet(SubSeq(t, 1, i - 1) \o SubSeq(t, i + 1, Len(t))) : x \in ToSet(t)
<1>. DEFINE p == SubSeq(t, 1, i - 1)
            q == SubSeq(t, i + 1, Len(t))
<1>1. Len(t) \in Nat /\ i \in 1 .. Len(t)
  OBVIOUS
<1>2. p \in Seq(S) /\ Len(p) = i - 1 /\ \A j \in 1 .. i - 1 : p[j] = t[j]
  BY <1>1
<1>3. q \in Seq(S) /\ Len(q) = Len(t) - i /\ \A j \in 1 .. Len(t) - i : q[j] = t[i + j]
  BY <1>1
<1>. HIDE DEF p, q
<1>4. Len(p) \in Nat /\ Len(q) \in Nat /\ Len(p) + Len(q) = Len(t) - 1
  BY <1>1, <1>2, <1>3
<1>5. /\ p \o q \in Seq(S) /\ Len(p \o q) = Len(p) + Len(q)
      /\ \A j \in 1 .. Len(p) + Len(q) :
           (p \o q)[j] = IF j <= Len(p) THEN p[j] ELSE q[j - Len(p)]
  BY <1>2, <1>3, ConcatProperties
<1>6. ASSUME NEW j \in 1 .. Len(p \o q)
      PROVE  \E k \in 1 .. Len(t) : (p \o q)[j] = t[k]
  <2>1. j \in 1 .. Len(t) - 1 /\ j \in Nat
    BY <1>1, <1>4, <1>5
  <2>2. CASE j <= Len(p)
    <3>1. j \in 1 .. i - 1 /\ j \in 1 .. Len(t) /\ (p \o q)[j] = p[j]
      BY <1>1, <1>2, <1>4, <1>5, <2>1, <2>2
    <3>. QED  BY <1>2, <3>1
  <2>3. CASE ~(j <= Len(p))
    <3>1. j - (i - 1) \in 1 .. Len(t) - i /\ j + 1 \in 1 .. Len(t)
      BY <1>1, <1>2, <2>1, <2>3
    <3>2. (p \o q)[j] = q[j - (i - 1)]
      BY <1>2, <1>5, <2>3
    <3>3. i + (j - (i - 1)) = j + 1
      BY <1>1, <2>1
    <3>. QED  BY <1>3, <3>1, <3>2, <3>3
  <2>. QED  BY <2>2, <2>3
<1>7. \A x \in ToSet(p \o q) : x \in ToSet(t)
  BY <1>5, <1>6 DEF ToSet
<1>. QED  BY <1>5, <1>7 DEF p, q

(* A mail is fetched under its own id, from the mailbox that was opened.   *)
LEMMA FetchedIsOwn ==
  ASSUME NEW letters \in Seq(Letters)
  PROVE  /\ DraftsOf(letters) \subseteq [id : Letters, mail : Letters]
         /\ \A draft \in DraftsOf(letters) : draft.id = draft.mail /\ draft.mail \in ToSet(letters)
<1>1. \A i \in Selected(letters) : i \in DOMAIN letters /\ letters[i] \in Letters
  BY DEF Selected
<1>. QED  BY <1>1 DEF DraftsOf, IdOf, ToSet

(* What a mail server does: a mailbox loses a letter or gets a new one.    *)
LEMMA DeliverStep ==
  ASSUME SourceInv, NEW a \in Owners, NEW m \in Letters, Deliver(a, m)
  PROVE  SourceInv'
<1>1. /\ mailbox' = [mailbox EXCEPT ![a] = Append(mailbox[a], m)]
      /\ UNCHANGED <<env, form, syncs, runtime, rows, lastSynced, everSynced, stale, torn>>
  BY DEF Deliver, stored
<1>2. /\ \A b \in Owners : ~In(m, b) /\ m \notin Range(rows[b])
      /\ \A s \in Syncs : \A draft \in syncs[s].drafts : draft.mail # m
  BY DEF Deliver, In
<1>3. mailbox[a] \in Seq(Letters) /\ mailbox \in [Owners -> Seq(Letters)]
  BY DEF SourceInv, MailboxTypes
<1>4. mailbox' \in [Owners -> Seq(Letters)]
  BY <1>1, <1>3, LettersAfterAppend
<1>5. \A x : \A b \in Owners : In(x, b)' => In(x, b) \/ (b = a /\ x = m)
  BY <1>1, <1>3, LettersAfterAppend DEF In
<1>6. \A b \in Owners : rows[b][m] # m
  <2>1. \A b \in Owners : rows[b] \in [Letters -> Letters \cup {NoLetter}]
    BY DEF SourceInv, MailboxTypes
  <2>. QED  BY <1>2, <2>1 DEF Range
<1>7. RowsOwn'
  BY <1>1, <1>2, <1>5, <1>6 DEF SourceInv, RowsOwn
<1>8. \A s \in Syncs : SyncOK(syncs[s])' /\ DraftsOwn(syncs[s])'
  BY <1>1, <1>2, <1>5 DEF SourceInv, SyncOK, DraftsOwn, Saving
<1>. QED  BY <1>1, <1>4, <1>7, <1>8 DEF SourceInv, MailboxTypes, FormOK, SyncedOK, Saving

LEMMA ExpungeStep ==
  ASSUME SourceInv, NEW a \in Owners, NEW i, Expunge(a, i)
  PROVE  SourceInv'
<1>. DEFINE t == mailbox[a]
<1>1. /\ i \in DOMAIN t
      /\ mailbox' = [mailbox EXCEPT ![a] = SubSeq(t, 1, i - 1) \o SubSeq(t, i + 1, Len(t))]
      /\ UNCHANGED <<env, form, syncs, runtime, rows, lastSynced, everSynced, stale, torn>>
  BY DEF Expunge, stored
<1>2. t \in Seq(Letters) /\ mailbox \in [Owners -> Seq(Letters)]
  BY DEF SourceInv, MailboxTypes
<1>3. mailbox' \in [Owners -> Seq(Letters)]
  BY <1>1, <1>2, LettersAfterCut
<1>4. \A x : \A b \in Owners : In(x, b)' => In(x, b)
  BY <1>1, <1>2, LettersAfterCut DEF In
<1>5. RowsOwn'
  BY <1>1, <1>4 DEF SourceInv, RowsOwn
<1>6. \A s \in Syncs : SyncOK(syncs[s])' /\ DraftsOwn(syncs[s])'
  BY <1>1, <1>4 DEF SourceInv, SyncOK, DraftsOwn, Saving
<1>. QED  BY <1>1, <1>3, <1>5, <1>6 DEF SourceInv, MailboxTypes, FormOK, SyncedOK, Saving

(* A step of one sync that stores nothing.                                 *)
LEMMA SyncMoves ==
  ASSUME SourceInv, NEW s \in Syncs, NEW r \in SyncRow, SyncOK(r), DraftsOwn(r),
         syncs' = [syncs EXCEPT ![s] = r],
         UNCHANGED <<mailbox, env, form, rows, lastSynced, everSynced, torn>>,
         runtime' = "ok" /\ ~stale' /\ ~Saving => env.address \in everSynced
  PROVE  SourceInv'
<1>1. /\ syncs' \in [Syncs -> SyncRow] /\ syncs'[s] = r
      /\ \A other \in Syncs \ {s} : syncs'[other] = syncs[other]
  BY DEF SourceInv, MailboxTypes
<1>2. \A other \in Syncs : SyncOK(syncs'[other]) /\ DraftsOwn(syncs'[other])
  BY <1>1 DEF SourceInv
<1>3. \A other \in Syncs : SyncOK(syncs[other])' /\ DraftsOwn(syncs[other])'
  BY <1>2 DEF SyncOK, DraftsOwn, Saving, In
<1>. QED  BY <1>1, <1>3 DEF SourceInv, MailboxTypes, FormOK, RowsOwn, SyncedOK, Saving, In

LEMMA ReadAddressStep ==
  ASSUME SourceInv, NEW s \in Syncs, ReadAddress(s)
  PROVE  SourceInv'
<1>. DEFINE c == [NoConfiguration EXCEPT !.address = env.address]
            r == [IdleSync EXCEPT !.pc = "password", !.config.address = env.address,
                                  !.torn = Saving]
<1>1. /\ syncs' = [syncs EXCEPT ![s] = r]
      /\ UNCHANGED <<mailbox, env, form, runtime, rows, lastSynced, everSynced, stale, torn>>
  BY DEF ReadAddress, Step, world, stored
<1>2. c \in Configuration /\ c.address = env.address
  BY SyncTyped DEF Configuration, NoConfiguration, Setting
<1>3. r.pc = "password" /\ r.config = c /\ r.drafts = {} /\ r.late = FALSE
  BY DEF IdleSync
<1>4. r.torn = Saving
  BY DEF IdleSync
<1>5. Saving \in BOOLEAN
  BY DEF Saving
<1>6. r \in SyncRow
  BY <1>2, <1>5 DEF SyncRow, IdleSync
<1>. HIDE DEF r, c
<1>7. ~r.torn => ~Saving
  BY Zenon, <1>4
<1>8. SyncOK(r) /\ DraftsOwn(r)
  BY <1>2, <1>3, <1>7 DEF SyncOK, DraftsOwn
<1>. QED  BY <1>1, <1>6, <1>8, SyncMoves DEF SourceInv, SyncedOK

LEMMA ReadPasswordStep ==
  ASSUME SourceInv, NEW s \in Syncs, ReadPassword(s)
  PROVE  SourceInv'
<1>. DEFINE o == syncs[s]
            c == [o.config EXCEPT !.password = env.password]
            r == [syncs[s] EXCEPT !.pc = "username", !.config.password = env.password]
<1>1. /\ syncs[s].pc = "password" /\ syncs' = [syncs EXCEPT ![s] = r]
      /\ UNCHANGED <<mailbox, env, form, runtime, rows, lastSynced, everSynced, stale, torn>>
  BY DEF ReadPassword, Step, world, stored
<1>2. c \in Configuration /\ c.password = env.password /\ c.address = o.config.address
  BY SyncTyped DEF Configuration
<1>3. r \in SyncRow /\ r.pc = "username" /\ r.config = c /\ r.drafts = o.drafts /\ r.torn = o.torn
  BY <1>2, SyncTyped DEF SyncRow
<1>. HIDE DEF r, c
<1>4. SyncOK(r) /\ DraftsOwn(r)
  BY <1>1, <1>2, <1>3, SyncTyped DEF SyncOK, DraftsOwn
<1>. QED  BY <1>1, <1>3, <1>4, SyncMoves DEF SourceInv, SyncedOK

LEMMA ReadUsernameStep ==
  ASSUME SourceInv, NEW s \in Syncs, ReadUsername(s)
  PROVE  SourceInv'
<1>. DEFINE o == syncs[s]
            c == [o.config EXCEPT !.username = env.username]
            r == [syncs[s] EXCEPT !.pc = "login", !.config.username = env.username]
<1>1. /\ syncs[s].pc = "username" /\ syncs' = [syncs EXCEPT ![s] = r]
      /\ UNCHANGED <<mailbox, env, form, runtime, rows, lastSynced, everSynced, stale, torn>>
  BY DEF ReadUsername, Step, world, stored
<1>2. /\ c \in Configuration /\ c.username = env.username
      /\ c.address = o.config.address /\ c.password = o.config.password
  BY SyncTyped DEF Configuration
<1>3. r \in SyncRow /\ r.pc = "login" /\ r.config = c /\ r.drafts = o.drafts /\ r.torn = o.torn
  BY <1>2, SyncTyped DEF SyncRow
<1>. HIDE DEF r, c
<1>4. SyncOK(r) /\ DraftsOwn(r)
  BY <1>1, <1>2, <1>3, SyncTyped DEF SyncOK, DraftsOwn
<1>. QED  BY <1>1, <1>3, <1>4, SyncMoves DEF SourceInv, SyncedOK

(* An untouched sync opens the mailbox of the account it stores under.     *)
LEMMA FetchDraftsStep ==
  ASSUME SourceInv, NEW s \in Syncs, FetchDrafts(s)
  PROVE  SourceInv'
<1>. DEFINE o == syncs[s]
            a == o.config.address
            user == o.config.username
            c == [NoConfiguration EXCEPT !.address = a]
            drafts == DraftsOf(mailbox[user])
            r == [o EXCEPT !.pc = "persist", !.config = c, !.drafts = drafts]
<1>1. /\ o.pc = "login" /\ syncs' = [syncs EXCEPT ![s] = r]
      /\ a # NoOwner /\ o.config.password # NoOwner /\ user = o.config.password
      /\ UNCHANGED <<mailbox, env, form, runtime, rows, lastSynced, everSynced, stale, torn>>
  BY DEF FetchDrafts, Login, Step, world, stored
<1>2. a \in Owners /\ user \in Owners
  BY <1>1, SyncTyped DEF Configuration, Setting
<1>3. c \in Configuration /\ c.address = a
  BY <1>2 DEF Configuration, NoConfiguration, Setting
<1>4. mailbox[user] \in Seq(Letters)
  BY <1>2 DEF SourceInv, MailboxTypes
<1>5. /\ drafts \subseteq [id : Letters, mail : Letters]
      /\ \A draft \in drafts : /\ draft.id = draft.mail
                               /\ draft.mail \in ToSet(mailbox[user])
                               /\ draft.mail \in Letters
  BY <1>4, FetchedIsOwn
<1>. HIDE DEF drafts, c
<1>6. r \in SyncRow /\ r.pc = "persist" /\ r.config = c /\ r.drafts = drafts /\ r.torn = o.torn
  BY <1>3, <1>5, SyncTyped DEF SyncRow
<1>. HIDE DEF r
<1>7. SyncOK(r)
  BY <1>1, <1>2, <1>3, <1>5, <1>6, SyncTyped DEF SyncOK
<1>8. DraftsOwn(r)
  <2>. SUFFICES ASSUME ~o.torn, NEW draft \in drafts, NEW b \in Owners \ {a}
                PROVE  ~In(draft.mail, b) /\ (b \notin torn => rows[b][draft.mail] # draft.mail)
    BY <1>3, <1>6 DEF DraftsOwn
  <2>1. user = a
    BY <1>1, SyncTyped DEF SyncOK, SourceInv, FormOK
  <2>2. In(draft.mail, a) /\ draft.mail \in Letters
    BY <1>5, <2>1 DEF In
  <2>. QED  BY <1>2, <2>2 DEF SourceInv, RowsOwn
<1>. QED  BY <1>1, <1>6, <1>7, <1>8, SyncMoves DEF SourceInv, SyncedOK

LEMMA SyncEnds == SyncOK(IdleSync) /\ DraftsOwn(IdleSync)
  BY IdleSyncRow DEF SyncOK, DraftsOwn

LEMMA PublishStep ==
  ASSUME SourceInv, NEW s \in Syncs, Publish(s)
  PROVE  SourceInv'
<1>1. /\ syncs[s].pc = "publish" /\ syncs' = [syncs EXCEPT ![s] = IdleSync]
      /\ UNCHANGED <<mailbox, env, form, rows, lastSynced, everSynced, torn>>
  BY DEF Publish, Step, world, stored
<1>2. stale' = (syncs[s].late \/ syncs[s].torn)
  BY DEF Publish
<1>3. ~stale' => ~syncs[s].torn
  BY Zenon, <1>2
<1>4. runtime' = "ok" /\ ~stale' /\ ~Saving => env.address \in everSynced
  BY <1>1, <1>3, SyncTyped DEF SyncOK
<1>. QED  BY <1>1, <1>4, IdleSyncRow, SyncEnds, SyncMoves

LEMMA RecordFailureStep ==
  ASSUME SourceInv, NEW s \in Syncs, RecordFailure(s)
  PROVE  SourceInv'
<1>1. /\ syncs' = [syncs EXCEPT ![s] = IdleSync] /\ runtime' = "error"
      /\ UNCHANGED <<mailbox, env, form, rows, lastSynced, everSynced, torn>>
  BY DEF RecordFailure, Step, world, stored
<1>. QED  BY <1>1, IdleSyncRow, SyncEnds, SyncMoves

(* What is stored of an account a sync adds to its mails, each under its   *)
(* own id.                                                                 *)
LEMMA WrittenIs ==
  ASSUME NEW old \in [Letters -> Letters \cup {NoLetter}],
         NEW drafts \in SUBSET [id : Letters, mail : Letters],
         \A draft \in drafts : draft.id = draft.mail
  PROVE  /\ Written(old, drafts) \in [Letters -> Letters \cup {NoLetter}]
         /\ \A id \in Letters :
              \/ Written(old, drafts)[id] = old[id]
              \/ Written(old, drafts)[id] = id /\ \E draft \in drafts : draft.mail = id
<1>. DEFINE new(id) == {draft \in drafts : draft.id = id}
            value(id) == IF new(id) = {} THEN old[id] ELSE (CHOOSE draft \in new(id) : TRUE).mail
<1>1. Written(old, drafts) = [id \in Letters |-> value(id)]
  BY DEF Written
<1>2. ASSUME NEW id \in Letters
      PROVE  \/ value(id) = old[id]
             \/ value(id) = id /\ \E draft \in drafts : draft.mail = id
  <2>1. CASE new(id) = {}
    BY <2>1
  <2>2. CASE new(id) # {}
    <3>1. (CHOOSE draft \in new(id) : TRUE) \in new(id)
      BY <2>2
    <3>2. PICK draft \in new(id) : draft = (CHOOSE d \in new(id) : TRUE)
      BY <3>1
    <3>3. draft \in drafts /\ draft.mail = id
      BY <3>2
    <3>. QED  BY <2>2, <3>2, <3>3
  <2>. QED  BY <2>1, <2>2
<1>. HIDE DEF value
<1>3. \A id \in Letters : value(id) \in Letters \cup {NoLetter}
  BY <1>2
<1>. QED  BY <1>1, <1>2, <1>3

LEMMA PersistStep ==
  ASSUME SourceInv, NEW s \in Syncs, Persist(s)
  PROVE  SourceInv'
<1>. DEFINE o == syncs[s]
            r == [syncs[s] EXCEPT !.pc = "publish", !.drafts = {}]
<1>1. PICK a \in Owners : a = o.config.address
  BY SyncTyped DEF Persist, Step, SyncOK
<1>2. /\ o.pc = "persist" /\ syncs' = [syncs EXCEPT ![s] = r]
      /\ rows' = [rows EXCEPT ![a] = Written(rows[a], o.drafts)]
      /\ lastSynced' = a /\ everSynced' = everSynced \cup {a}
      /\ torn' = IF o.torn THEN torn \cup {a} ELSE torn
      /\ UNCHANGED <<mailbox, env, form, runtime, stale>>
  BY <1>1 DEF Persist, Step, world
<1>3. /\ o \in SyncRow /\ o.drafts \in SUBSET [id : Letters, mail : Letters]
      /\ \A draft \in o.drafts : draft.id = draft.mail
  BY SyncTyped DEF SyncRow, SyncOK
<1>4. /\ r \in SyncRow /\ r.pc = "publish" /\ r.config = o.config /\ r.drafts = {} /\ r.torn = o.torn
  BY <1>3 DEF SyncRow
<1>. HIDE DEF r
<1>5. /\ rows \in [Owners -> [Letters -> Letters \cup {NoLetter}]]
      /\ rows[a] \in [Letters -> Letters \cup {NoLetter}]
  BY DEF SourceInv, MailboxTypes
<1>. DEFINE becomes == Written(rows[a], o.drafts)
<1>6. /\ becomes \in [Letters -> Letters \cup {NoLetter}]
      /\ \A id \in Letters : becomes[id] = rows[a][id]
                             \/ (becomes[id] = id /\ \E draft \in o.drafts : draft.mail = id)
  BY <1>3, <1>5, WrittenIs
<1>. HIDE DEF becomes
<1>7. /\ rows' = [rows EXCEPT ![a] = becomes] /\ rows' \in [Owners -> [Letters -> Letters \cup {NoLetter}]]
      /\ rows'[a] = becomes /\ \A b \in Owners \ {a} : rows'[b] = rows[b]
  BY <1>2, <1>5, <1>6 DEF becomes
<1>8. /\ syncs' \in [Syncs -> SyncRow] /\ syncs'[s] = r
      /\ \A other \in Syncs \ {s} : syncs'[other] = syncs[other]
  BY <1>2, <1>4 DEF SourceInv, MailboxTypes
<1>9. \A b \in Owners : b \notin torn' => b \notin torn
  BY <1>2
(* A mail now stored of the account either was, or was just fetched.       *)
<1>10. ASSUME NEW m \in Letters, rows'[a][m] = m, a \notin torn'
      PROVE  rows[a][m] = m \/ \A b \in Owners \ {a} : ~In(m, b) /\ (b \notin torn => rows[b][m] # m)
  <2>1. CASE rows[a][m] = m
    BY <2>1
  <2>2. CASE rows[a][m] # m
    <3>1. PICK draft \in o.drafts : draft.mail = m
      BY <1>6, <1>7, <1>10, <2>2
    <3>2. ~o.torn
      BY <1>2, <1>10
    <3>. QED  BY <1>1, <1>2, <3>1, <3>2, SyncTyped DEF DraftsOwn
  <2>. QED  BY <2>1, <2>2
<1>11. RowsOwn'
  <2>1. \A b \in Owners, id \in Letters : rows'[b][id] \in {id, NoLetter}
    BY <1>6, <1>7 DEF SourceInv, RowsOwn
  <2>2. ASSUME NEW b \in Owners, NEW c \in Owners, NEW m \in Letters, b # c
        PROVE  /\ ~(In(m, b) /\ In(m, c))
               /\ b \notin torn' /\ rows'[b][m] = m => ~In(m, c)
               /\ b \notin torn' /\ c \notin torn' => ~(rows'[b][m] = m /\ rows'[c][m] = m)
    BY <1>7, <1>9, <1>10, <2>2 DEF SourceInv, RowsOwn
  <2>. QED  BY <1>2, <2>1, <2>2 DEF RowsOwn, In
<1>12. SyncOK(syncs[s])' /\ DraftsOwn(syncs[s])'
  BY <1>1, <1>2, <1>4, <1>8, SyncTyped DEF SyncOK, DraftsOwn, Saving
<1>13. ASSUME NEW q \in Syncs \ {s}  PROVE SyncOK(syncs[q])' /\ DraftsOwn(syncs[q])'
  <2>1. syncs'[q] = syncs[q] /\ SyncOK(syncs[q]) /\ DraftsOwn(syncs[q])
    BY <1>8, SyncTyped
  <2>2. SyncOK(syncs[q])'
    BY <1>2, <1>8, <2>1 DEF SyncOK, Saving
  <2>3. ASSUME syncs[q].pc = "persist", ~syncs[q].torn, NEW draft \in syncs[q].drafts,
               NEW b \in Owners \ {syncs[q].config.address}, b \notin torn'
        PROVE  rows'[b][draft.mail] # draft.mail
    <3>1. draft.mail \in Letters /\ b \notin torn /\ rows[b][draft.mail] # draft.mail
      BY <1>9, <2>1, <2>3, SyncTyped DEF DraftsOwn, SyncRow
    <3>2. CASE b # a
      BY <1>7, <3>1, <3>2
    <3>3. CASE b = a
      <4>1. o.torn
        BY <1>1, <1>2, <2>1, <2>3, <3>3, SyncTyped DEF SyncOK
      <4>. QED  BY <1>2, <2>3, <3>3, <4>1
    <3>. QED  BY <3>2, <3>3
  <2>4. DraftsOwn(syncs[q])'
    BY <1>2, <1>8, <1>9, <2>1, <2>3 DEF DraftsOwn, In
  <2>. QED  BY <2>2, <2>4
<1>14. \A q \in Syncs : SyncOK(syncs[q])' /\ DraftsOwn(syncs[q])'
  BY <1>8, <1>12, <1>13
<1>15. SyncedOK'
  BY <1>2 DEF SourceInv, SyncedOK, Saving
<1>. QED  BY <1>2, <1>7, <1>8, <1>11, <1>14, <1>15 DEF SourceInv, MailboxTypes, FormOK, Saving

-----------------------------------------------------------------------------
(* The form.                                                               *)
LEMMA NamesLeft ==
  /\ SetNames \in Seq(Variables) /\ <<"username", "password">> \in Seq(Variables)
  /\ <<"password">> \in Seq(Variables) /\ <<>> \in Seq(Variables)
  /\ Len(SetNames) = 3 /\ Head(SetNames) = "address" /\ Tail(SetNames) = <<"username", "password">>
  /\ Len(<<"username", "password">>) = 2 /\ Head(<<"username", "password">>) = "username"
  /\ Tail(<<"username", "password">>) = <<"password">>
  /\ Len(<<"password">>) = 1 /\ Head(<<"password">>) = "password" /\ Tail(<<"password">>) = <<>>
  /\ Len(<<>>) = 0
  BY DEF SetNames, Variables

LEMMA SaveAccountStep ==
  ASSUME SourceInv, NEW a \in Owners, SaveAccount(a)
  PROVE  SourceInv'
<1>. DEFINE f == [account |-> a, todo |-> SetNames]
            becomes(s) == [syncs[s] EXCEPT !.torn = syncs[s].pc # "idle"]
<1>1. /\ ~Saving /\ form' = f /\ syncs' = [s \in Syncs |-> becomes(s)]
      /\ UNCHANGED <<mailbox, env, runtime, rows, lastSynced, everSynced, stale, torn>>
  BY DEF SaveAccount, SetNames, world, stored
<1>2. /\ f \in [account : Setting, todo : Seq(Variables)]
      /\ f.account = a /\ f.todo = SetNames
  BY NamesLeft DEF Setting
<1>3. ASSUME NEW s \in Syncs
      PROVE  /\ becomes(s) \in SyncRow /\ becomes(s).pc = syncs[s].pc /\ becomes(s).config = syncs[s].config
             /\ becomes(s).drafts = syncs[s].drafts /\ (becomes(s).pc # "idle" => becomes(s).torn)
  <2>1. syncs[s] \in SyncRow
    BY SyncTyped
  <2>. QED  BY <2>1 DEF SyncRow
<1>4. \A s \in Syncs : syncs'[s] = becomes(s)
  BY <1>1
<1>. HIDE DEF f, becomes
<1>5. Saving'
  <2>1. f # NoForm
    BY <1>2, OwnersAssumption DEF NoForm
  <2>. QED  BY <1>1, <2>1 DEF Saving, NoForm
<1>6. FormOK'
  <2>1. SetNames \notin {<<"password">>, <<>>}
    <3>1. Len(SetNames) # Len(<<"password">>) /\ Len(SetNames) # Len(<<>>)
      BY NamesLeft
    <3>. QED  BY <3>1
  <2>. QED  BY <1>1, <1>2, <1>5, <2>1 DEF FormOK
<1>7. \A s \in Syncs : SyncOK(syncs[s])' /\ DraftsOwn(syncs[s])'
  <2>. SUFFICES ASSUME NEW s \in Syncs  PROVE SyncOK(syncs[s])' /\ DraftsOwn(syncs[s])'
    OBVIOUS
  <2>1. SyncOK(syncs[s]) /\ DraftsOwn(syncs[s])
    BY SyncTyped
  <2>2. SyncOK(syncs[s])'
    BY <1>1, <1>3, <1>4, <2>1 DEF SyncOK, Saving
  <2>3. DraftsOwn(syncs[s])'
    BY <1>1, <1>3, <1>4, <2>1 DEF SyncOK, DraftsOwn
  <2>. QED  BY <2>2, <2>3
<1>8. syncs' \in [Syncs -> SyncRow]
  BY <1>1, <1>3
<1>. QED  BY <1>1, <1>2, <1>5, <1>6, <1>7, <1>8
          DEF SourceInv, MailboxTypes, RowsOwn, SyncedOK, In

LEMMA SetVariableStep ==
  ASSUME SourceInv, SetVariable
  PROVE  SourceInv'
<1>. DEFINE f == [form EXCEPT !.todo = Tail(form.todo)]
            e == [env EXCEPT ![Head(form.todo)] = form.account]
<1>1. /\ form.todo # <<>> /\ form' = f /\ env' = e
      /\ UNCHANGED <<mailbox, syncs, runtime, rows, lastSynced, everSynced, stale, torn>>
  BY DEF SetVariable, world, stored
<1>2. Saving
  BY <1>1 DEF Saving, NoForm
<1>3. /\ form \in [account : Setting, todo : Seq(Variables)] /\ env \in Configuration
      /\ form.account \in Owners /\ form.account \in Setting
      /\ form.todo \in {SetNames, <<"username", "password">>, <<"password">>}
  BY <1>1, <1>2 DEF SourceInv, MailboxTypes, FormOK, Setting
<1>4. /\ f.account = form.account /\ f.todo = Tail(form.todo)
      /\ f \in [account : Setting, todo : Seq(Variables)]
  <2>1. Tail(form.todo) \in Seq(Variables)
    BY <1>3, NamesLeft
  <2>. QED  BY <1>3, <2>1
<1>. HIDE DEF f
<1>5. Saving'
  <2>1. f # NoForm
    BY <1>3, <1>4, OwnersAssumption DEF NoForm
  <2>. QED  BY <1>1, <2>1 DEF Saving, NoForm
<1>6. /\ SetNames \notin {<<"username", "password">>, <<"password">>, <<>>}
      /\ <<"username", "password">> \notin {<<"password">>, <<>>} /\ <<"password">> # <<>>
  <2>1. /\ Len(SetNames) # Len(<<"username", "password">>) /\ Len(SetNames) # Len(<<"password">>)
        /\ Len(SetNames) # Len(<<>>)
    BY NamesLeft
  <2>2. /\ Len(<<"username", "password">>) # Len(<<"password">>)
        /\ Len(<<"username", "password">>) # Len(<<>>) /\ Len(<<"password">>) # Len(<<>>)
    BY NamesLeft
  <2>. QED  BY <2>1, <2>2
<1>7. FormOK' /\ e \in Configuration
  <2>1. CASE form.todo = SetNames
    <3>1. f.todo = <<"username", "password">> /\ e = [env EXCEPT !["address"] = form.account]
      BY <1>4, <2>1, NamesLeft
    <3>2. e \in Configuration /\ e.address = form.account
      BY <1>3, <3>1 DEF Configuration
    <3>. HIDE DEF e
    <3>. QED  BY <1>1, <1>3, <1>4, <1>5, <1>6, <3>1, <3>2 DEF FormOK
  <2>2. CASE form.todo = <<"username", "password">>
    <3>1. f.todo = <<"password">> /\ e = [env EXCEPT !["username"] = form.account]
      BY <1>4, <2>2, NamesLeft
    <3>2. e \in Configuration /\ e.username = form.account /\ e.address = env.address
      BY <1>3, <3>1 DEF Configuration
    <3>3. env.address = form.account
      BY <1>2, <1>6, <2>2 DEF SourceInv, FormOK
    <3>. HIDE DEF e
    <3>. QED  BY <1>1, <1>3, <1>4, <1>5, <1>6, <3>1, <3>2, <3>3 DEF FormOK
  <2>3. CASE form.todo = <<"password">>
    <3>1. f.todo = <<>> /\ e = [env EXCEPT !["password"] = form.account]
      BY <1>4, <2>3, NamesLeft
    <3>2. /\ e \in Configuration /\ e.password = form.account
          /\ e.username = env.username /\ e.address = env.address
      BY <1>3, <3>1 DEF Configuration
    <3>3. env.address = form.account /\ env.username = form.account
      BY <1>2, <1>6, <2>3 DEF SourceInv, FormOK
    <3>. HIDE DEF e
    <3>. QED  BY <1>1, <1>3, <1>4, <1>5, <1>6, <3>1, <3>2, <3>3 DEF FormOK
  <2>. QED  BY <1>3, <2>1, <2>2, <2>3
<1>8. \A s \in Syncs : SyncOK(syncs[s])' /\ DraftsOwn(syncs[s])'
  <2>. SUFFICES ASSUME NEW s \in Syncs  PROVE SyncOK(syncs[s])' /\ DraftsOwn(syncs[s])'
    OBVIOUS
  <2>1. SyncOK(syncs[s]) /\ DraftsOwn(syncs[s])
    BY SyncTyped
  <2>2. SyncOK(syncs[s])'
    BY <1>1, <1>2, <2>1 DEF SyncOK
  <2>3. DraftsOwn(syncs[s])'
    BY <1>1, <2>1 DEF DraftsOwn, In
  <2>. QED  BY <2>2, <2>3
<1>. HIDE DEF e
<1>. QED  BY <1>1, <1>4, <1>5, <1>7, <1>8 DEF SourceInv, MailboxTypes, RowsOwn, SyncedOK, In

LEMMA NotSaving ==
  ASSUME form = NoForm
  PROVE  ~Saving /\ form \in [account : Setting, todo : Seq(Variables)]
  BY NamesLeft DEF Saving, NoForm, Setting

LEMMA FinishSavingStep ==
  ASSUME SourceInv, FinishSaving
  PROVE  SourceInv'
<1>. DEFINE becomes(s) == [syncs[s] EXCEPT !.late = syncs[s].pc # "idle"]
<1>1. /\ Saving /\ form.todo = <<>> /\ form' = NoForm /\ runtime' = "idle"
      /\ syncs' = [s \in Syncs |-> becomes(s)]
      /\ UNCHANGED <<mailbox, env, rows, lastSynced, everSynced, torn>>
  BY DEF FinishSaving, ResetRuntimeStatus, world, stored
<1>2. ASSUME NEW s \in Syncs
      PROVE  /\ becomes(s) \in SyncRow /\ becomes(s).pc = syncs[s].pc /\ becomes(s).config = syncs[s].config
             /\ becomes(s).drafts = syncs[s].drafts /\ becomes(s).torn = syncs[s].torn
  <2>1. syncs[s] \in SyncRow
    BY SyncTyped
  <2>. QED  BY <2>1 DEF SyncRow
<1>3. \A s \in Syncs : syncs'[s] = becomes(s)
  BY <1>1
<1>. HIDE DEF becomes
<1>4. ~Saving' /\ form' \in [account : Setting, todo : Seq(Variables)]
  BY <1>1, NamesLeft DEF Saving, NoForm, Setting
<1>5. FormOK'
  <2>1. /\ <<>> # SetNames /\ env.address = form.account /\ env.username = form.account
        /\ env.password = form.account
    <3>1. <<>> # SetNames
      <4>1. Len(<<>>) # Len(SetNames)
        BY NamesLeft
      <4>. QED  BY <4>1
    <3>. QED  BY <1>1, <3>1 DEF SourceInv, FormOK
  <2>. QED  BY <1>1, <1>4, <2>1 DEF FormOK
<1>6. \A s \in Syncs : SyncOK(syncs[s])' /\ DraftsOwn(syncs[s])'
  <2>. SUFFICES ASSUME NEW s \in Syncs  PROVE SyncOK(syncs[s])' /\ DraftsOwn(syncs[s])'
    OBVIOUS
  <2>1. SyncOK(syncs[s]) /\ DraftsOwn(syncs[s])
    BY SyncTyped
  <2>2. SyncOK(syncs[s])'
    BY <1>1, <1>2, <1>3, <2>1 DEF SyncOK
  <2>3. DraftsOwn(syncs[s])'
    BY <1>1, <1>2, <1>3, <2>1 DEF DraftsOwn, In
  <2>. QED  BY <2>2, <2>3
<1>7. syncs' \in [Syncs -> SyncRow]
  BY <1>1, <1>2
<1>. QED  BY <1>1, <1>4, <1>5, <1>6, <1>7 DEF SourceInv, MailboxTypes, RowsOwn, SyncedOK, In

LEMMA SettingAll ==
  ASSUME NEW a \in Setting
  PROVE  All(a) \in Configuration /\ All(a).address = a /\ All(a).password = a /\ All(a).username = a
  BY DEF All, Configuration

LEMMA RebootStep ==
  ASSUME SourceInv, saved \in Setting, NEW a \in Owners, Reboot(a)
  PROVE  SourceInv'
<1>1. /\ saved' \in Setting /\ env' = All(saved') /\ form' = NoForm /\ runtime' = "idle"
      /\ syncs' = [s \in Syncs |-> IdleSync]
      /\ UNCHANGED <<mailbox, rows, lastSynced, everSynced, torn>>
  BY DEF Reboot, Setting, stored
<1>2. /\ env' \in Configuration /\ env'.password = env'.address /\ env'.username = env'.address
  BY <1>1, SettingAll
<1>3. ~Saving' /\ form' \in [account : Setting, todo : Seq(Variables)]
  BY <1>1, NamesLeft DEF Saving, NoForm, Setting
<1>4. \A s \in Syncs : syncs'[s] = IdleSync
  BY <1>1
<1>5. \A s \in Syncs : SyncOK(syncs[s])' /\ DraftsOwn(syncs[s])'
  BY <1>4, IdleSyncRow DEF SyncOK, DraftsOwn
<1>6. syncs' \in [Syncs -> SyncRow]
  BY <1>1, IdleSyncRow
<1>. QED  BY <1>1, <1>2, <1>3, <1>5, <1>6
          DEF SourceInv, MailboxTypes, FormOK, RowsOwn, SyncedOK, In

LEMMA SavedTyped ==
  ASSUME saved \in Setting, MailboxNext
  PROVE  saved' \in Setting
<1>1. ASSUME NEW a \in Owners, SaveAccount(a) \/ Reboot(a)  PROVE saved' \in Setting
  BY <1>1 DEF SaveAccount, Reboot, Setting
<1>2. ASSUME NEW a \in Owners, NEW m, Deliver(a, m)  PROVE saved' = saved
  BY <1>2 DEF Deliver
<1>3. ASSUME NEW a \in Owners, NEW i, Expunge(a, i)  PROVE saved' = saved
  BY <1>3 DEF Expunge
<1>4. ASSUME SetVariable \/ FinishSaving  PROVE saved' = saved
  BY <1>4 DEF SetVariable, FinishSaving
<1>5. ASSUME NEW s \in Syncs,
             \/ ReadAddress(s) \/ ReadPassword(s) \/ ReadUsername(s)
             \/ FetchDrafts(s) \/ Persist(s) \/ Publish(s) \/ RecordFailure(s)
      PROVE  saved' = saved
  BY <1>5 DEF ReadAddress, ReadPassword, ReadUsername, FetchDrafts, Persist, Publish, RecordFailure
<1>. QED  BY <1>1, <1>2, <1>3, <1>4, <1>5 DEF MailboxNext

(* SourceInv holds from the start and is kept.                             *)
THEOREM SourceInvariant == MailboxSpec => [](SourceInv /\ saved \in Setting)
<1>1. MailboxInit => SourceInv /\ saved \in Setting
  <2>. SUFFICES ASSUME MailboxInit  PROVE SourceInv
    BY DEF MailboxInit
  <2>1. /\ saved \in Setting /\ env = All(saved) /\ form = NoForm /\ runtime = "idle"
        /\ syncs = [s \in Syncs |-> IdleSync] /\ mailbox = [a \in Owners |-> <<>>]
        /\ rows = [a \in Owners |-> [id \in Letters |-> NoLetter]]
        /\ lastSynced = NoOwner /\ everSynced = {} /\ torn = {}
    BY DEF MailboxInit
  <2>2. env \in Configuration /\ env.password = env.address /\ env.username = env.address
    BY <2>1, SettingAll
  <2>3. ~Saving /\ form \in [account : Setting, todo : Seq(Variables)]
    BY <2>1, NotSaving
  <2>4. \A s \in Syncs : syncs[s] = IdleSync
    BY <2>1
  <2>5. \A s \in Syncs : SyncOK(syncs[s]) /\ DraftsOwn(syncs[s])
    BY <2>4, SyncEnds
  <2>6. syncs \in [Syncs -> SyncRow]
    BY <2>1, IdleSyncRow
  <2>7. /\ mailbox \in [Owners -> Seq(Letters)]
        /\ rows \in [Owners -> [Letters -> Letters \cup {NoLetter}]]
    BY <2>1
  <2>8. RowsOwn
    <3>1. \A b \in Owners, m \in Letters : rows[b][m] = NoLetter /\ rows[b][m] # m /\ ~In(m, b)
      BY <2>1, LettersAssumption DEF In, ToSet
    <3>. QED  BY <3>1 DEF RowsOwn
  <2>. QED  BY <2>1, <2>2, <2>3, <2>5, <2>6, <2>7, <2>8
            DEF SourceInv, MailboxTypes, FormOK, SyncedOK
<1>2. SourceInv /\ saved \in Setting /\ [MailboxNext]_mailboxVars
        => (SourceInv /\ saved \in Setting)'
  <2>. SUFFICES ASSUME SourceInv, saved \in Setting, [MailboxNext]_mailboxVars
                PROVE  SourceInv' /\ saved' \in Setting
    OBVIOUS
  <2>1. CASE UNCHANGED mailboxVars
    BY <2>1 DEF mailboxVars, SourceInv, MailboxTypes, FormOK, SyncOK, DraftsOwn, RowsOwn, SyncedOK,
                Saving, In
  <2>2. CASE MailboxNext
    <3>1. SourceInv'
      BY <2>2, DeliverStep, ExpungeStep, SaveAccountStep, RebootStep, SetVariableStep,
         FinishSavingStep, ReadAddressStep, ReadPasswordStep, ReadUsernameStep, FetchDraftsStep,
         PersistStep, PublishStep, RecordFailureStep DEF MailboxNext
    <3>2. saved' \in Setting
      BY <2>2, SavedTyped
    <3>. QED  BY <3>1, <3>2
  <2>. QED  BY <2>1, <2>2
<1>. QED  BY <1>1, <1>2, PTL DEF MailboxSpec

(* Hiworks is shown as connected only if the account now configured was    *)
(* once synced (hiworks_mail_service.py, public_status and                 *)
(* reset_runtime_status).                                                  *)
THEOREM ShownConnectedWasSynced == MailboxSpec => []ConnectedWasSynced
<1>1. SourceInv => ConnectedWasSynced
  BY DEF SourceInv, SyncedOK, ConnectedWasSynced, ShownConnected, PersistedCounts
<1>. QED  BY <1>1, SourceInvariant, PTL

(* What is stored of an account are mails of its own mailbox, each under   *)
(* its own id, however syncs, the form and the mail server interleave,     *)
(* unless a sync read the account while the form was setting it.           *)
THEOREM StoredMailsAreOwn == MailboxSpec => []RowsOfOwnMailbox
<1>1. SourceInv => RowsOfOwnMailbox
  <2>. SUFFICES ASSUME SourceInv, NEW a \in Owners \ torn
                PROVE  /\ \A id \in Letters : rows[a][id] \in {id, NoLetter}
                       /\ \A b \in Owners \ {a} : StoredOf(a) \cap ToSet(mailbox[b]) = {}
                       /\ \A b \in Owners \ (torn \cup {a}) : StoredOf(a) \cap StoredOf(b) = {}
    BY DEF RowsOfOwnMailbox
  <2>1. \A m : \A b \in Owners : m \in StoredOf(b) => m \in Letters /\ rows[b][m] = m
    <3>1. \A b \in Owners : rows[b] \in [Letters -> Letters \cup {NoLetter}]
      BY DEF SourceInv, MailboxTypes
    <3>2. \A b \in Owners, id \in Letters : rows[b][id] \in {id, NoLetter}
      BY DEF SourceInv, RowsOwn
    <3>. QED  BY <3>1, <3>2 DEF StoredOf, Range
  <2>. QED  BY <2>1 DEF SourceInv, RowsOwn, In
<1>. QED  BY <1>1, SourceInvariant, PTL
=============================================================================
