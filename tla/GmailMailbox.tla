---------------------------- MODULE GmailMailbox ----------------------------
(***************************************************************************)
(* The Gmail mailbox of the web server: how mails and attachments get from *)
(* Gmail into the database, how they get analysed and how they are trashed *)
(* (app/services/gmail_mail_service.py and                                 *)
(* app/repositories/postgres_gmail_sync_repository.py).                    *)
(*                                                                         *)
(* The handlers run in the threads of the server, so several syncs, polls  *)
(* of the list and trash requests overlap; analysis runs in a thread that  *)
(* a sync or a poll starts when it finds none alive.  What such a thread   *)
(* has to do, and what a sync has found changed, exists in memory only.    *)
(***************************************************************************)
EXTENDS Naturals, FiniteSets

CONSTANTS
  Mails,         \* provider message ids
  Attachments,   \* attachment keys within a mail
  Syncers,       \* server threads that serve the sync handlers
  Readers,       \* server threads that serve lists and trash requests
  Threads,       \* threads coramail-gmail-analysis
  NoRequest, NoThread, NoMail,
  MaxVersions,   \* bound: contents Gmail shows of a mail
  MaxFaults      \* bound: failing calls (of Gmail, the database, the analysis)
                 \* and deaths of the server process

ASSUME NamesAssumption ==
  /\ NoRequest \notin Syncers \cup Readers
  /\ NoThread \notin Threads
  /\ NoMail \notin Mails
(* The server threads that serve a handler of the mailbox.                 *)
Requests == Syncers \cup Readers

ASSUME AttachmentsAssumption == IsFiniteSet(Attachments)
ASSUME BoundsAssumption ==
  MaxVersions \in Nat /\ MaxFaults \in Nat

VARIABLES
  gmail,      \* what Gmail has of each mail; version 0: not delivered
  row,        \* email_messages: the version its content_hash stands for
  att,        \* email_attachments, with the current analysis result of each
  file,       \* attachment originals under data/runtime/gmail_attachments
  job,        \* status of the latest mail_decision job of each mail
  req,        \* control state of each request
  pollLock,   \* holder of _auto_analysis_lock
  cached,     \* _messages is not empty
  lastError,  \* _last_error is not empty
  thread,     \* control state of each analysis thread
  current,    \* _analysis_thread, while it is alive
  seen,       \* history: the version the last successful analysis has read
  missed,     \* history: mails whose new content nobody remembers to analyse
  trashed,    \* history: mails trashed while no sync held a copy of them
  faults      \* bound: faults so far

dbVars == <<row, att, file, job>>
cacheVars == <<cached, lastError>>
threadVars == <<thread, current>>
history == <<seen, missed, trashed>>
vars == <<gmail, dbVars, req, pollLock, cacheVars, threadVars, history, faults>>

Version == 0 .. MaxVersions
Content == [version: Version, atts: SUBSET Attachments, inbox: BOOLEAN]
Nothing == [version |-> 0, atts |-> {}, inbox |-> FALSE]

(* An attachment row: live is deleted_at IS NULL, result its current       *)
(* document_understanding result ("bad": the file was not there).          *)
Attachment == [status: {"none", "downloaded", "failed", "superseded", "analysed"},
               live: BOOLEAN, result: {"none", "good", "bad"}]
NoAttachment == [status |-> "none", live |-> FALSE, result |-> "none"]

JobStatus == {"none", "pending", "running", "success", "failed"}
Active(m) == job[m] \in {"pending", "running"}

Stored(m) == row[m].version > 0
Visible(m) == Stored(m) /\ ~row[m].deleted
Live(m) == {a \in Attachments : att[m][a].live}

(* Mutant: only mails that never had a job are looked at.                  *)
NeedsFirstAnalysis(m) ==
  /\ job[m] = "none"
  /\ \E a \in Live(m) : att[m][a].status = "downloaded" /\ att[m][a].result = "none"
(* message_ids_needing_attachment_analysis                                 *)
NeedsAnalysis(m) ==
  \E a \in Live(m) : att[m][a].status = "downloaded" /\ att[m][a].result = "none"

(* A request: copy and broken are what a sync has fetched and could not    *)
(* download, ids the mails it is about (changed ones, or rows of a list),  *)
(* todo and next the lists _run_analysis gets, made the jobs it has.  The  *)
(* id of a job is the mail it is about, as long as it is the latest: that  *)
(* of an older one, which nobody can run any more, is dropped.             *)
IdleRequest ==
  [pc |-> "idle", poll |-> FALSE, copy |-> [m \in Mails |-> Nothing], broken |-> {},
   ids |-> {}, todo |-> {}, next |-> {}, made |-> {}, mail |-> NoMail]
Request ==
  [pc: {"idle", "rows_again", "lock", "fetch", "write", "missing", "register",
        "start", "finish", "trash", "mark"},
   poll: BOOLEAN, copy: [Mails -> Content], broken: SUBSET (Mails \X Attachments),
   ids: SUBSET Mails, todo: SUBSET Mails, next: SUBSET Mails,
   made: SUBSET Mails, mail: Mails \cup {NoMail}]

DeadThread == [alive |-> FALSE, queue |-> {}, mail |-> NoMail, version |-> 0, left |-> {}]
Thread == [alive: BOOLEAN, queue: SUBSET Mails, mail: Mails \cup {NoMail},
           version: Version, left: SUBSET Attachments]

Init ==
  /\ gmail = [m \in Mails |-> Nothing]
  /\ row = [m \in Mails |-> [version |-> 0, deleted |-> FALSE, count |-> 0]]
  /\ att = [m \in Mails |-> [a \in Attachments |-> NoAttachment]]
  /\ file = [m \in Mails |-> {}]
  /\ job = [m \in Mails |-> "none"]
  /\ req = [q \in Requests |-> IdleRequest]
  /\ pollLock = NoRequest
  /\ cached = FALSE /\ lastError = FALSE
  /\ thread = [t \in Threads |-> DeadThread]
  /\ current = NoThread
  /\ seen = [m \in Mails |-> 0]
  /\ missed = {} /\ trashed = {}
  /\ faults = 0

At(q, pc) == req[q].pc = pc
Goto(q, pc) == req' = [req EXCEPT ![q] = [@ EXCEPT !.pc = pc]]
Return(q) == req' = [req EXCEPT ![q] = IdleRequest]
Fail == faults < MaxFaults /\ faults' = faults + 1

-----------------------------------------------------------------------------
(* Gmail.  A mail is delivered, shown with other content or attachment ids *)
(* afterwards, or moved back to the inbox by its owner.                    *)

GmailShows(m) ==
  /\ gmail[m].version < MaxVersions
  /\ gmail[m].version > 0 => gmail[m].inbox
  /\ \E atts \in SUBSET Attachments :
       gmail' = [gmail EXCEPT ![m] = [version |-> gmail[m].version + 1, atts |-> atts,
                                      inbox |-> TRUE]]
  /\ UNCHANGED <<dbVars, req, pollLock, cacheVars, threadVars, history, faults>>

GmailRestores(m) ==
  /\ gmail[m].version \in 1 .. MaxVersions - 1 /\ ~gmail[m].inbox
  /\ gmail' = [gmail EXCEPT ![m] = [@ EXCEPT !.inbox = TRUE, !.version = gmail[m].version + 1]]
  /\ trashed' = trashed \ {m}
  /\ UNCHANGED <<dbVars, req, pollLock, cacheVars, threadVars, seen, missed, faults>>

-----------------------------------------------------------------------------
(* Sync.                                                                   *)

(* Mutant: the query is not restricted to the inbox.                       *)
AllMailCopy == gmail

(* fetch_inbox_messages lists and reads the inbox.  Each mail's copy is    *)
(* used on its own, so one reading stands for the reading of all.          *)
InboxCopy == [m \in Mails |-> IF gmail[m].inbox THEN gmail[m] ELSE Nothing]

(* Then the attachments are downloaded.  A failing one is noted and does   *)
(* not stop the sync; its file of an earlier sync stays.                   *)
Fetch(q) ==
  /\ \E broken \in SUBSET {x \in Mails \X Attachments : x[2] \in InboxCopy[x[1]].atts} :
       /\ faults' = faults + Cardinality(broken)
       /\ faults' <= MaxFaults
       /\ file' = [m \in Mails |->
                     file[m] \cup {a \in InboxCopy[m].atts : <<m, a>> \notin broken}]
       /\ req' = [req EXCEPT ![q] = [@ EXCEPT !.pc = "write", !.copy = InboxCopy,
                                              !.broken = broken]]
  /\ UNCHANGED <<gmail, row, att, job, pollLock, cacheVars, threadVars, history>>

StartSync(q) == At(q, "idle") /\ Fetch(q)
SyncForPoll(q) == At(q, "fetch") /\ Fetch(q)

(* write_messages: one transaction, which waits for that of another sync,  *)
(* since both first update the row of the account.  It revives what was    *)
(* deleted, and the attachments the copy does not have are superseded.     *)
Copied(q) == {m \in Mails : req[q].copy[m].version > 0}
(* Mutant: the content hash is not compared.                               *)
NewOnly(q) == {m \in Copied(q) : row[m].version = 0}
Changed(q) == {m \in Copied(q) : row[m].version # req[q].copy[m].version}

UpsertMessage(c) ==
  [version |-> c.version, deleted |-> FALSE, count |-> Cardinality(c.atts)]
UpsertAttachment(old, downloaded) ==
  [old EXCEPT !.status = IF downloaded THEN "downloaded" ELSE "failed", !.live = TRUE]
(* Mutant: attachments the mail lost stay.                                 *)
KeepReplaced(old) == old
Supersede(old) ==
  IF old.live THEN [old EXCEPT !.status = "superseded", !.live = FALSE] ELSE old
UpsertAttachments(q, m) ==
  [a \in Attachments |->
     IF a \in req[q].copy[m].atts
     THEN UpsertAttachment(att[m][a], <<m, a>> \notin req[q].broken)
     ELSE Supersede(att[m][a])]

WriteMessages(q) ==
  /\ At(q, "write")
  /\ row' = [m \in Mails |-> IF m \in Copied(q) THEN UpsertMessage(req[q].copy[m]) ELSE row[m]]
  /\ att' = [m \in Mails |-> IF m \in Copied(q) THEN UpsertAttachments(q, m) ELSE att[m]]
  /\ req' = [req EXCEPT ![q] = [@ EXCEPT !.pc = "missing", !.ids = Changed(q), !.broken = {}]]
  /\ UNCHANGED <<gmail, file, job, pollLock, cacheVars, threadVars, history, faults>>

(* _run_analysis is called with a list, and maybe with another one; it     *)
(* returns at once when the list is empty.                                 *)
WithLists(r, first, second) ==
  IF first # {} THEN [r EXCEPT !.pc = "register", !.todo = first, !.next = second, !.made = {}]
  ELSE IF second # {} THEN [r EXCEPT !.pc = "register", !.todo = second, !.next = {}, !.made = {}]
  ELSE [r EXCEPT !.pc = "finish", !.made = {}]

(* _persist_messages analyses the changed mails, then the other mails it   *)
(* has written that miss an attachment analysis.                           *)
SyncFindsMissing(q) ==
  LET missing == {m \in Copied(q) : NeedsAnalysis(m)} IN
  /\ At(q, "missing")
  /\ req' = [req EXCEPT ![q] = WithLists(req[q], req[q].ids, missing \ req[q].ids)]
  /\ UNCHANGED <<gmail, dbVars, pollLock, cacheVars, threadVars, history, faults>>

FinishSync(q) ==
  /\ At(q, "finish")
  /\ cached' = (Copied(q) # {})
  /\ lastError' = FALSE
  /\ IF req[q].poll THEN Goto(q, "rows_again") ELSE Return(q)
  /\ UNCHANGED <<gmail, dbVars, pollLock, threadVars, history, faults>>

(* A call of Gmail or of the database raises: _record_failure.  What the   *)
(* sync has found changed is forgotten.  A list goes on with its rows.     *)
SyncFails(q) ==
  /\ req[q].pc \in (IF q \in Syncers THEN {"idle"} ELSE {}) \cup {"fetch", "write", "missing", "register"}
  /\ pollLock # q
  /\ Fail
  /\ lastError' = TRUE
  /\ missed' = missed \cup req[q].ids
  /\ req' = [req EXCEPT ![q] =
       [IdleRequest EXCEPT !.pc = IF req[q].poll THEN "rows_again" ELSE "idle",
                           !.poll = req[q].poll]]
  /\ UNCHANGED <<gmail, dbVars, pollLock, cached, threadVars, seen, trashed>>

-----------------------------------------------------------------------------
(* Listing (list_emails), which every open page does again and again.      *)

Listed == {m \in Mails : Visible(m)}
ListRows == [IdleRequest EXCEPT !.pc = "lock", !.poll = TRUE,
                                !.ids = {m \in Listed : row[m].count > 0}]

(* An empty mailbox that was never synced is synced first.                 *)
StartPoll(q) ==
  /\ At(q, "idle")
  /\ req' = [req EXCEPT ![q] =
       IF Listed = {} /\ ~lastError /\ ~cached
       THEN [IdleRequest EXCEPT !.pc = "fetch", !.poll = TRUE]
       ELSE ListRows]
  /\ UNCHANGED <<gmail, dbVars, pollLock, cacheVars, threadVars, history, faults>>

ListAgain(q) ==
  /\ At(q, "rows_again")
  /\ req' = [req EXCEPT ![q] = ListRows]
  /\ UNCHANGED <<gmail, dbVars, pollLock, cacheVars, threadVars, history, faults>>

(* A poll that finds another at it returns; so does one without mails.     *)
TakePollLock(q) ==
  LET missing == {m \in req[q].ids : NeedsAnalysis(m)} IN
  /\ At(q, "lock")
  /\ IF pollLock = NoRequest /\ missing # {}
     THEN pollLock' = q /\ req' = [req EXCEPT ![q] = WithLists(req[q], missing, {})]
     ELSE pollLock' = pollLock /\ Return(q)
  /\ UNCHANGED <<gmail, dbVars, cacheVars, threadVars, history, faults>>

(* Mutant: released only when all went well.                               *)
PollFailsLocked(q) ==
  /\ At(q, "register") /\ pollLock = q
  /\ Fail
  /\ pollLock' = pollLock
  /\ Return(q)
  /\ UNCHANGED <<gmail, dbVars, cacheVars, threadVars, history>>

(* An exception is logged, and the lock released on the way out.           *)
PollFails(q) ==
  /\ At(q, "register") /\ pollLock = q
  /\ Fail
  /\ pollLock' = NoRequest
  /\ Return(q)
  /\ UNCHANGED <<gmail, dbVars, cacheVars, threadVars, history>>

-----------------------------------------------------------------------------
(* _run_analysis: register a job per mail, then start a thread for them    *)
(* unless one is alive.                                                    *)

(* create_email_analysis_job returns an active job as it is.               *)
RegisterJob(q, m) ==
  LET others == IF Active(m) THEN [p \in Requests |-> req[p]]
                ELSE [p \in Requests |-> [req[p] EXCEPT !.made = @ \ {m}]]
  IN
  /\ At(q, "register") /\ m \in req[q].todo
  /\ job' = IF Active(m) THEN job ELSE [job EXCEPT ![m] = "pending"]
  /\ req' = [others EXCEPT ![q] = [@ EXCEPT !.todo = req[q].todo \ {m}, !.ids = req[q].ids \ {m},
                                            !.made = req[q].made \cup {m}]]
  /\ thread' = IF Active(m) THEN thread
               ELSE [t \in Threads |-> [thread[t] EXCEPT !.queue = @ \ {m}]]
  /\ missed' = IF job[m] # "running" THEN missed \ {m}
               ELSE IF pollLock # q /\ m \in req[q].ids THEN missed \cup {m} ELSE missed
  /\ UNCHANGED <<gmail, row, att, file, pollLock, cacheVars, current, seen, trashed, faults>>

(* The next list, or the end of the handler, where a poll gives its lock   *)
(* back.                                                                   *)
NextList(q) ==
  IF pollLock = q
  THEN pollLock' = NoRequest /\ Return(q)
  ELSE /\ pollLock' = pollLock
       /\ req' = [req EXCEPT ![q] = WithLists(req[q], req[q].next, {})]

ThreadAlive == current # NoThread

CheckThread(q) ==
  /\ At(q, "register") /\ req[q].todo = {}
  /\ IF ThreadAlive
     THEN NextList(q)
     ELSE Goto(q, "start") /\ pollLock' = pollLock
  /\ UNCHANGED <<gmail, dbVars, cacheVars, threadVars, history, faults>>

StartThread(q, t) ==
  /\ At(q, "start")
  /\ ~thread[t].alive
  /\ thread' = [thread EXCEPT ![t] = [DeadThread EXCEPT !.alive = TRUE, !.queue = req[q].made]]
  /\ current' = t
  /\ NextList(q)
  /\ UNCHANGED <<gmail, dbVars, cacheVars, history, faults>>

-----------------------------------------------------------------------------
(* The analysis thread (_drain_analysis_jobs_by_id, run_one).  The worker  *)
(* and its attempts are AnalysisJobs; here a job reads the mail once, saves *)
(* the result of each attachment and ends.                                 *)

Free(t) == thread[t].alive /\ thread[t].mail = NoMail

(* _recover_stale_jobs: a job whose thread died with the server.           *)
RecoverJob(t, m) ==
  /\ Free(t) /\ thread[t].queue # {}
  /\ job[m] = "running" /\ \A u \in Threads : thread[u].mail # m
  /\ job' = [job EXCEPT ![m] = "pending"]
  /\ UNCHANGED <<gmail, row, att, file, req, pollLock, cacheVars, threadVars, history, faults>>

RunJob(t, m) ==
  /\ Free(t) /\ m \in thread[t].queue
  /\ IF job[m] = "pending"
     THEN /\ job' = [job EXCEPT ![m] = "running"]
          /\ thread' = [thread EXCEPT ![t] = [@ EXCEPT !.queue = thread[t].queue \ {m}, !.mail = m,
                          !.version = row[m].version, !.left = Live(m)]]
     ELSE /\ job' = job
          /\ thread' = [thread EXCEPT ![t] = [@ EXCEPT !.queue = thread[t].queue \ {m}]]
  /\ UNCHANGED <<gmail, row, att, file, req, pollLock, cacheVars, current, history, faults>>

(* The dispatcher fails on a file that is not there, and that is a result. *)
Analysed(old, found) ==
  [old EXCEPT !.status = IF found THEN "analysed" ELSE "failed",
              !.result = IF found THEN "good" ELSE "bad"]

SaveResult(t, a) ==
  LET m == thread[t].mail IN
  /\ thread[t].alive /\ m # NoMail /\ a \in thread[t].left
  /\ att' = [att EXCEPT ![m] = [@ EXCEPT ![a] = Analysed(att[m][a], a \in file[m])]]
  /\ thread' = [thread EXCEPT ![t] = [@ EXCEPT !.left = thread[t].left \ {a}]]
  /\ UNCHANGED <<gmail, row, file, job, req, pollLock, cacheVars, current, history, faults>>

(* Mutant: the status of a Mail Decision run instead of one of a job.      *)
EndJobCompleted(t, status) ==
  /\ job' = [job EXCEPT ![thread[t].mail] = "completed"]
  /\ thread' = [thread EXCEPT ![t] = [@ EXCEPT !.mail = NoMail, !.version = 0, !.left = {}]]

EndJob(t, status) ==
  LET m == thread[t].mail IN
  /\ job' = [job EXCEPT ![m] = status]
  /\ thread' = [thread EXCEPT ![t] = [@ EXCEPT !.mail = NoMail, !.version = 0, !.left = {}]]

FinishJob(t) ==
  /\ thread[t].alive /\ thread[t].mail # NoMail /\ thread[t].left = {}
  /\ EndJob(t, "success")
  /\ seen' = [seen EXCEPT ![thread[t].mail] = thread[t].version]
  /\ UNCHANGED <<gmail, row, att, file, req, pollLock, cacheVars, current, missed, trashed, faults>>

JobFails(t) ==
  /\ thread[t].alive /\ thread[t].mail # NoMail
  /\ Fail
  /\ EndJob(t, "failed")
  /\ missed' = missed \cup {thread[t].mail}
  /\ UNCHANGED <<gmail, row, att, file, req, pollLock, cacheVars, current, seen, trashed>>

EndThread(t) ==
  /\ Free(t) /\ thread[t].queue = {}
  /\ thread' = [thread EXCEPT ![t] = DeadThread]
  /\ current' = IF current = t THEN NoThread ELSE current
  /\ UNCHANGED <<gmail, dbVars, req, pollLock, cacheVars, history, faults>>

-----------------------------------------------------------------------------
(* Trashing (trash_email): first in Gmail, then in the database.           *)

StartTrash(q, m) ==
  /\ At(q, "idle")
  /\ Visible(m)
  /\ req' = [req EXCEPT ![q] = [IdleRequest EXCEPT !.pc = "trash", !.mail = m]]
  /\ UNCHANGED <<gmail, dbVars, pollLock, cacheVars, threadVars, history, faults>>

TrashInGmail(q) ==
  /\ At(q, "trash")
  /\ gmail' = [gmail EXCEPT ![req[q].mail] = [@ EXCEPT !.inbox = FALSE]]
  /\ Goto(q, "mark")
  /\ UNCHANGED <<dbVars, pollLock, cacheVars, threadVars, history, faults>>

MarkTrashed(q) ==
  LET m == req[q].mail
      held == \E p \in Requests : At(p, "write") /\ req[p].copy[m] # Nothing
  IN
  /\ At(q, "mark")
  /\ row' = [row EXCEPT ![m] = [@ EXCEPT !.deleted = TRUE]]
  /\ trashed' = IF held \/ gmail[m].inbox THEN trashed ELSE trashed \cup {m}
  /\ Return(q)
  /\ UNCHANGED <<gmail, att, file, job, pollLock, cacheVars, threadVars, seen, missed, faults>>

TrashFails(q) ==
  /\ req[q].pc \in {"trash", "mark"}
  /\ Fail
  /\ Return(q)
  /\ UNCHANGED <<gmail, dbVars, pollLock, cacheVars, threadVars, history>>

-----------------------------------------------------------------------------
(* The server process dies and is started again.                           *)
Restart ==
  /\ Fail
  /\ missed' = missed \cup (UNION {req[q].ids : q \in {p \in Requests : pollLock # p}})
                      \cup {m \in Mails : job[m] = "running"}
  /\ req' = [q \in Requests |-> IdleRequest]
  /\ pollLock' = NoRequest
  /\ cached' = FALSE /\ lastError' = FALSE
  /\ thread' = [t \in Threads |-> DeadThread]
  /\ current' = NoThread
  /\ UNCHANGED <<gmail, dbVars, seen, trashed>>

SyncStep(q) ==
  \/ SyncForPoll(q) \/ WriteMessages(q) \/ SyncFindsMissing(q) \/ FinishSync(q)
PollStep(q) == ListAgain(q) \/ TakePollLock(q)
AnalysisStep(q) ==
  \/ \E m \in Mails : RegisterJob(q, m)
  \/ CheckThread(q)
  \/ \E t \in Threads : StartThread(q, t)
TrashStep(q) == TrashInGmail(q) \/ MarkTrashed(q)
RequestStep(q) == SyncStep(q) \/ PollStep(q) \/ AnalysisStep(q) \/ TrashStep(q)

ThreadStep(t) ==
  \/ \E m \in Mails : RecoverJob(t, m) \/ RunJob(t, m)
  \/ \E a \in Attachments : SaveResult(t, a)
  \/ FinishJob(t) \/ EndThread(t)

Next ==
  \/ \E m \in Mails : GmailShows(m) \/ GmailRestores(m)
  \/ \E q \in Syncers : StartSync(q)
  \/ \E q \in Readers : StartPoll(q) \/ \E m \in Mails : StartTrash(q, m)
  \/ \E q \in Requests : RequestStep(q) \/ SyncFails(q) \/ PollFails(q) \/ TrashFails(q)
  \/ \E t \in Threads : ThreadStep(t) \/ JobFails(t)
  \/ Restart

Spec == Init /\ [][Next]_vars

(* Handlers and analysis threads run to their end, and a page that is open *)
(* lists the mailbox again and again; nobody need sync, trash or write.  A *)
(* job left running is old enough, sooner or later, to be recovered by the *)
(* next call of run_one.                                                   *)
Fairness ==
  /\ \A q \in Requests : WF_vars(RequestStep(q))
  /\ \A q \in Readers : SF_vars(StartPoll(q))
  /\ \A t \in Threads : WF_vars(ThreadStep(t))
  /\ \A m \in Mails : SF_vars(\E t \in Threads : RecoverJob(t, m))
FairSpec == Spec /\ Fairness

-----------------------------------------------------------------------------
(* Every mail, attachment, request and thread stays within its type.       *)
TypeOK ==
  /\ gmail \in [Mails -> Content]
  /\ row \in [Mails -> [version: Version, deleted: BOOLEAN, count: Nat]]
  /\ att \in [Mails -> [Attachments -> Attachment]]
  /\ file \in [Mails -> SUBSET Attachments]
  /\ job \in [Mails -> JobStatus]
  /\ req \in [Requests -> Request]
  /\ pollLock \in Requests \cup {NoRequest}
  /\ cached \in BOOLEAN /\ lastError \in BOOLEAN
  /\ thread \in [Threads -> Thread]
  /\ current \in Threads \cup {NoThread}
  /\ seen \in [Mails -> Version]
  /\ missed \subseteq Mails /\ trashed \subseteq Mails
  /\ faults \in 0 .. MaxFaults

(* However syncs that hold copies of different age overlap, and analyses   *)
(* save into attachments meanwhile superseded, the attachments a mail has  *)
(* in one table are as many as its row counts in the other.                *)
CountMatchesAttachments ==
  \A m \in Mails : row[m].count = Cardinality(Live(m))

(* A mail trashed while no sync held a copy of it stays out of the lists   *)
(* until its owner moves it back to the inbox.  (One trashed while a sync  *)
(* holds a copy does not: write_messages sets deleted_at to NULL.)         *)
TrashedStays == \A m \in trashed : row[m].deleted

(* New content of a mail is never silently forgotten: it has been read by  *)
(* an analysis, a job that will read or has read it is active, or a sync   *)
(* still has to register one.  The exceptions are in missed: an exception  *)
(* or a death between the commit of the mail and its job, an analysis that *)
(* fails, and a mail that changes while it is analysed, whose running job  *)
(* create_email_analysis_job takes for the new one.                        *)
ReadByRunning(m) == \E t \in Threads : thread[t].mail = m /\ thread[t].version = row[m].version
ChangeIsAnalysed ==
  \A m \in Mails \ missed :
    \/ seen[m] = row[m].version
    \/ job[m] = "pending"
    \/ ReadByRunning(m)
    \/ \E q \in Requests : pollLock # q /\ m \in req[q].ids

(* The lock of the automatic analysis is held only by a poll under way:    *)
(* every way out of it gives the lock back.                                *)
PollLockHeld ==
  pollLock # NoRequest =>
    req[pollLock].poll /\ req[pollLock].pc \in {"register", "start"}

(* A downloaded attachment without a result gets one, or is superseded,    *)
(* even when its job was left to nobody: a later list finds it again.      *)
MissingAttachmentsAnalysed ==
  \A m \in Mails, a \in Attachments :
    (att[m][a].live /\ att[m][a].status = "downloaded" /\ att[m][a].result = "none" /\ Visible(m))
      ~> ~(att[m][a].live /\ att[m][a].status = "downloaded" /\ att[m][a].result = "none"
           /\ Visible(m))
=============================================================================
