---------------------------- MODULE AnalysisJobs ----------------------------
(***************************************************************************)
(* The queue of email analysis jobs (table processing_jobs) and the        *)
(* workers that drain it: app/repositories/postgres_job_repository.py and  *)
(* app/services/postgres_email_analysis_worker.py.                         *)
(*                                                                         *)
(* What makes the worker delicate is its connection.  run_pending serves   *)
(* all its jobs on one connection; conn.transaction() commits at its end   *)
(* while the connection is idle, but _current_ai_result issues a bare      *)
(* SELECT, which opens a transaction nobody closes: from then on every     *)
(* conn.transaction() of that run is a savepoint, and nothing it writes is *)
(* seen by others, or survives a crash, before the connection is closed.   *)
(* The rows so written stay locked meanwhile.                              *)
(*                                                                         *)
(* jobs and current are the committed rows; draft and the two lock tables  *)
(* hold what an open transaction has written over them.                    *)
(***************************************************************************)
EXTENDS Naturals, FiniteSets

CONSTANTS
  Workers,      \* threads and processes that call run_one or run_pending
  NoWorker,     \* the holder of an unlocked row
  Mails,        \* rows of email_messages
  Resumed,      \* mails a run of which is resumed by hand meanwhile
  Kinds,        \* the analysis types requested: metadata ->> 'analysis_type'
  EntryPoints,  \* which of "run_pending" and "run_one" are called
  MaxAttempts,  \* max_attempts of a job (the code inserts 3)
  Limit,        \* the limit argument of run_pending
  MaxJobs,      \* bound: jobs ever registered
  MaxCrashes    \* bound: workers that die, or lose their connection

(* The types a worker claims; every type but mail_decision first looks for *)
(* a stored result, and is one of those a decision saves.                  *)
AnalysisTypes == {"classification", "executive_summary", "mail_decision"}

ASSUME NamesAssumption ==
  /\ NoWorker \notin Workers
  /\ Kinds \subseteq AnalysisTypes
  /\ EntryPoints \subseteq {"run_pending", "run_one"}
ASSUME LimitsAssumption ==
  /\ MaxAttempts \in Nat \ {0}
  /\ Limit \in Nat \ {0}
  /\ MaxJobs \in Nat
  /\ MaxCrashes \in Nat

VARIABLES
  jobs,      \* the committed row of each job, in order of created_at
  current,   \* the committed status of the current result, per mail and type
  draft,     \* the row of a job as its lock's holder has rewritten it
  lock,      \* the worker whose open transaction has written the job's row
  failing,   \* the worker whose open transaction has marked the result failed
  worker,    \* control state of each worker
  execs,     \* history: how often each job was handed to a worker
  crashes    \* bound: crashes so far

vars == <<jobs, current, draft, lock, failing, worker, execs, crashes>>

(* The types among them that are results of a decision.                    *)
SavedKinds == Kinds \ {"mail_decision"}

JobId == 1 .. MaxJobs
NoJob == 0

(* A row of processing_jobs; stale means started_at is before the cutoff.  *)
Job == [mail: Mails, kind: Kinds,
        status: {"pending", "running", "success", "failed"},
        attempt: Nat, stale: BOOLEAN]
Unused == [status |-> "unused"]

(* An UPDATE of the status; only a running row can be stale.               *)
WithStatus(r, status) == [r EXCEPT !.status = status, !.stale = FALSE]

Created(j) == jobs[j] # Unused
Active(j) == Created(j) /\ jobs[j].status \in {"pending", "running"}
Finished(j) == Created(j) /\ jobs[j].status \in {"success", "failed"}

(* What a statement of worker w reads of job j.                            *)
View(w, j) == IF lock[j] = w THEN draft[j] ELSE jobs[j]

WorkerState ==
  [pc: {"idle", "recover", "claim", "lookup", "decide", "save", "succeed", "fail", "failjob"},
   target: JobId \cup {NoJob}, left: 0 .. Limit, job: JobId \cup {NoJob}, open: BOOLEAN]
Idle == [pc |-> "idle", target |-> NoJob, left |-> 0, job |-> NoJob, open |-> FALSE]

(* A run resumed after its decision has saved the results of its mail.     *)
Init ==
  /\ jobs = [j \in JobId |-> Unused]
  /\ current = [m \in Mails |-> [k \in Kinds |->
                  IF m \in Resumed /\ k \in SavedKinds THEN "success" ELSE "none"]]
  /\ draft = [j \in JobId |-> Unused]
  /\ lock = [j \in JobId |-> NoWorker]
  /\ failing = [m \in Mails |-> [k \in Kinds |-> NoWorker]]
  /\ worker = [w \in Workers |-> Idle]
  /\ execs = [j \in JobId |-> 0]
  /\ crashes = 0

-----------------------------------------------------------------------------
(* Registration (create_email_analysis_job).                               *)

ActivePending(m, k) ==
  \E j \in JobId : Created(j) /\ jobs[j].status = "pending"
                   /\ jobs[j].mail = m /\ jobs[j].kind = k

ActiveEmailAnalysisJob(m, k) ==
  \E j \in JobId : Active(j) /\ jobs[j].mail = m /\ jobs[j].kind = k

(* An active job is returned as it is (a stutter).  Otherwise a job is     *)
(* added and the current result of the type, good or not, gives way to a   *)
(* pending one; the update waits for a transaction that has rewritten it.  *)
CreateEmailAnalysisJob(m, k) ==
  /\ ~ActiveEmailAnalysisJob(m, k)
  /\ failing[m][k] = NoWorker
  /\ \E j \in JobId :
       /\ ~Created(j)
       /\ \A i \in JobId : i < j => Created(i)
       /\ jobs' = [jobs EXCEPT ![j] = [mail |-> m, kind |-> k, status |-> "pending",
                                       attempt |-> 0, stale |-> FALSE]]
  /\ current' = [current EXCEPT ![m][k] = "pending"]
  /\ UNCHANGED <<draft, lock, failing, worker, execs, crashes>>

(* Time passes the cutoff (CORAMAIL_ANALYSIS_STALE_SECONDS, 300 by         *)
(* default) of a running job, whether its worker is alive or not: a        *)
(* worker never renews started_at.                                         *)
Age(j) ==
  /\ Created(j) /\ jobs[j].status = "running" /\ ~jobs[j].stale
  /\ jobs' = [jobs EXCEPT ![j].stale = TRUE]
  /\ UNCHANGED <<current, draft, lock, failing, worker, execs, crashes>>

-----------------------------------------------------------------------------
(* The worker.                                                             *)

At(w, pc) == worker[w].pc = pc
Goto(w, pc) == worker' = [worker EXCEPT ![w] = [@ EXCEPT !.pc = pc]]

(* run_pending serves up to Limit jobs, run_one only the job it is given.  *)
RunPending(w) ==
  /\ "run_pending" \in EntryPoints
  /\ At(w, "idle")
  /\ worker' = [worker EXCEPT ![w] = [Idle EXCEPT !.pc = "recover", !.left = Limit]]
  /\ UNCHANGED <<jobs, current, draft, lock, failing, execs, crashes>>

RunOne(w, j) ==
  /\ "run_one" \in EntryPoints
  /\ At(w, "idle") /\ Created(j)
  /\ worker' = [worker EXCEPT ![w] = [Idle EXCEPT !.pc = "recover", !.left = 1, !.target = j]]
  /\ UNCHANGED <<jobs, current, draft, lock, failing, execs, crashes>>

(* _recover_stale_jobs: a running job past the cutoff goes back to the     *)
(* queue unless its attempts are used up.  The UPDATE waits for every such *)
(* row that an open transaction has rewritten.                             *)
RecoverableAlways(j) ==
  Created(j) /\ jobs[j].status = "running" /\ jobs[j].stale

RecoverableFailed(j) ==
  /\ Created(j) /\ jobs[j].attempt < MaxAttempts
  /\ jobs[j].status = "failed" \/ (jobs[j].status = "running" /\ jobs[j].stale)

Recoverable(j) ==
  Created(j) /\ jobs[j].status = "running" /\ jobs[j].stale /\ jobs[j].attempt < MaxAttempts

RecoverFromZero(w) ==
  /\ At(w, "recover")
  /\ \A j \in JobId : Recoverable(j) => lock[j] = NoWorker
  /\ jobs' = [j \in JobId |-> IF Recoverable(j)
                              THEN [WithStatus(jobs[j], "pending") EXCEPT !.attempt = 0]
                              ELSE jobs[j]]
  /\ Goto(w, "claim")
  /\ UNCHANGED <<current, draft, lock, failing, execs, crashes>>

RecoverStaleJobs(w) ==
  /\ At(w, "recover")
  /\ \A j \in JobId : Recoverable(j) => lock[j] = NoWorker
  /\ jobs' = [j \in JobId |-> IF Recoverable(j)
                              THEN WithStatus(jobs[j], "pending")
                              ELSE jobs[j]]
  /\ Goto(w, "claim")
  /\ UNCHANGED <<current, draft, lock, failing, execs, crashes>>

(* An UPDATE of job j to the row r by worker w: it waits for another's     *)
(* lock, and is committed at once unless the connection is in a            *)
(* transaction.                                                            *)
Update(w, j, r) ==
  /\ lock[j] \in {w, NoWorker}
  /\ IF worker[w].open
     THEN /\ draft' = [draft EXCEPT ![j] = r]
          /\ lock' = [lock EXCEPT ![j] = w]
          /\ UNCHANGED jobs
     ELSE /\ jobs' = [jobs EXCEPT ![j] = r]
          /\ UNCHANGED <<draft, lock>>

PendingOrAsked(w, j) ==           \* mutation: a job asked for is run as it is
  Created(j) /\ (jobs[j].status = "pending" \/ worker[w].target = j)
             /\ worker[w].target \in {NoJob, j}

(* _claim_next_job: the oldest pending job nobody has locked (FOR UPDATE   *)
(* SKIP LOCKED), or the one asked for.                                     *)
Pending(w, j) ==
  Created(j) /\ jobs[j].status = "pending" /\ worker[w].target \in {NoJob, j}

Claimable(w, j) == Pending(w, j) /\ lock[j] = NoWorker

FirstStep(kind) == IF kind = "mail_decision" THEN "decide" ELSE "lookup"
Serving(r, j, pc) == [r EXCEPT !.job = j, !.left = @ - 1, !.pc = pc]

ClaimNextJob(w) ==
  /\ At(w, "claim") /\ worker[w].left > 0
  /\ \E j \in JobId :
       /\ Claimable(w, j)
       /\ \A i \in JobId : i < j => ~Claimable(w, i)
       /\ Update(w, j, [jobs[j] EXCEPT !.status = "running", !.attempt = @ + 1])
       /\ worker' = [worker EXCEPT ![w] = Serving(@, j, FirstStep(jobs[j].kind))]
       /\ execs' = [execs EXCEPT ![j] = @ + 1]
  /\ UNCHANGED <<current, failing, crashes>>

(* _current_ai_result: the SELECT that opens the transaction.  A stored    *)
(* decision answers the job; otherwise the decision has to be run.         *)
Mine(w) == jobs[worker[w].job]

LookupForUpdate(w) ==             \* mutation: the SELECT locks the result it finds
  /\ At(w, "lookup")
  /\ failing[Mine(w).mail][Mine(w).kind] = NoWorker
  /\ failing' = [failing EXCEPT ![Mine(w).mail][Mine(w).kind] = w]
  /\ worker' = [worker EXCEPT ![w] = [@ EXCEPT !.open = TRUE, !.pc = "decide"]]
  /\ UNCHANGED <<jobs, current, draft, lock, execs, crashes>>

CurrentAiResult(w) ==
  /\ At(w, "lookup")
  /\ LET found == current[Mine(w).mail][Mine(w).kind] = "success"
     IN  worker' = [worker EXCEPT ![w] = [@ EXCEPT !.open = TRUE,
                                            !.pc = IF found THEN "succeed" ELSE "decide"]]
  /\ UNCHANGED <<jobs, current, draft, lock, failing, execs, crashes>>

(* _run_mail_decision, on connections of its own: the run ends without a   *)
(* decision, which raises, or reaches _generate_decision.  A run resumed   *)
(* by hand after that node is active again: the worker joins it there and  *)
(* takes the decision from its state, so that nothing is saved.            *)
RunMailDecision(w) ==
  /\ At(w, "decide")
  /\ \/ \E pc \in {"save", "fail"} : Goto(w, pc)
     \/ Mine(w).mail \in Resumed /\ Goto(w, "succeed")
  /\ UNCHANGED <<jobs, current, draft, lock, failing, execs, crashes>>

(* PostgresMailDecisionResultRepository.save, on its own connection and    *)
(* committed: every saved type of the mail gets a new current result.  It  *)
(* waits for any transaction that has rewritten one of them, that of the   *)
(* worker itself included.                                                 *)
SaveResults(m) ==
  /\ \A k \in SavedKinds : failing[m][k] = NoWorker
  /\ current' = [current EXCEPT ![m] =
                   [k \in Kinds |-> IF k \in SavedKinds THEN "success" ELSE @[k]]]

(* The rest of the worker's run may still raise.                           *)
SaveDecision(w) ==
  /\ At(w, "save")
  /\ SaveResults(Mine(w).mail)
  /\ \E pc \in {"succeed", "fail"} : Goto(w, pc)
  /\ UNCHANGED <<jobs, draft, lock, failing, execs, crashes>>

(* The decision of a mail run by an API request, without any job.          *)
DecideOnRequest(m) ==
  /\ SaveResults(m)
  /\ UNCHANGED <<jobs, draft, lock, failing, worker, execs, crashes>>

(* The end of _process_job: the next turn of the loop.                     *)
NextTurn(w) == worker' = [worker EXCEPT ![w] = [@ EXCEPT !.pc = "claim", !.job = NoJob]]

(* _mark_job_success and _mark_job_failed set the status whatever the      *)
(* row's status is by now.                                                 *)
MarkJob(w, status) ==
  LET j == worker[w].job
  IN  /\ Update(w, j, WithStatus(View(w, j), status))
      /\ NextTurn(w)
      /\ UNCHANGED <<current, failing, execs, crashes>>

MarkJobSuccess(w) == At(w, "succeed") /\ MarkJob(w, "success")
MarkJobFailed(w) == At(w, "failjob") /\ MarkJob(w, "failed")

(* _mark_analysis_failed: only a pending current result is marked.         *)
SkipAnalysisFailed(w) ==
  /\ At(w, "fail")
  /\ Goto(w, "failjob")
  /\ UNCHANGED <<jobs, current, draft, lock, failing, execs, crashes>>

MarkAnyAnalysisFailed(w) ==
  /\ At(w, "fail")
  /\ current' = [current EXCEPT ![Mine(w).mail][Mine(w).kind] = "failed"]
  /\ Goto(w, "failjob")
  /\ UNCHANGED <<jobs, draft, lock, failing, execs, crashes>>

MarkAnalysisFailed(w) ==
  LET m == Mine(w).mail
      k == Mine(w).kind
  IN  /\ At(w, "fail")
      /\ \/ /\ current[m][k] # "pending" \/ failing[m][k] = w
            /\ UNCHANGED <<current, failing>>
         \/ /\ current[m][k] = "pending" /\ failing[m][k] = NoWorker
            /\ IF worker[w].open
               THEN /\ failing' = [failing EXCEPT ![m][k] = w]
                    /\ UNCHANGED current
               ELSE /\ current' = [current EXCEPT ![m][k] = "failed"]
                    /\ UNCHANGED failing
      /\ Goto(w, "failjob")
      /\ UNCHANGED <<jobs, draft, lock, execs, crashes>>

(* Nothing left to claim, or the limit reached.                            *)
Drained(w) ==
  /\ At(w, "claim")
  /\ worker[w].left = 0 \/ \A j \in JobId : ~Claimable(w, j)

ReleaseLeaking(w) ==
  /\ draft' = [j \in JobId |-> IF lock[j] = w THEN Unused ELSE draft[j]]
  /\ lock' = [j \in JobId |-> IF lock[j] = w THEN NoWorker ELSE lock[j]]
  /\ worker' = [worker EXCEPT ![w] = Idle]
  /\ UNCHANGED failing

Release(w) ==
  /\ draft' = [j \in JobId |-> IF lock[j] = w THEN Unused ELSE draft[j]]
  /\ lock' = [j \in JobId |-> IF lock[j] = w THEN NoWorker ELSE lock[j]]
  /\ failing' = [m \in Mails |-> [k \in Kinds |->
                   IF failing[m][k] = w THEN NoWorker ELSE failing[m][k]]]
  /\ worker' = [worker EXCEPT ![w] = Idle]

(* The end of the connection's with block commits what is open.            *)
Return(w) ==
  /\ Drained(w)
  /\ jobs' = [j \in JobId |-> View(w, j)]
  /\ current' = [m \in Mails |-> [k \in Kinds |->
                   IF failing[m][k] = w THEN "failed" ELSE current[m][k]]]
  /\ Release(w)
  /\ UNCHANGED <<execs, crashes>>

(* The process dies or the connection breaks: the open transaction is      *)
(* rolled back.                                                            *)
Crash(w) ==
  /\ ~At(w, "idle") /\ crashes < MaxCrashes
  /\ crashes' = crashes + 1
  /\ Release(w)
  /\ UNCHANGED <<jobs, current, execs>>

-----------------------------------------------------------------------------
Work(w) ==
  \/ RecoverStaleJobs(w)
  \/ ClaimNextJob(w)
  \/ CurrentAiResult(w)
  \/ RunMailDecision(w)
  \/ SaveDecision(w)
  \/ MarkJobSuccess(w)
  \/ MarkAnalysisFailed(w)
  \/ MarkJobFailed(w)
  \/ Return(w)

Next ==
  \/ \E m \in Mails, k \in Kinds : CreateEmailAnalysisJob(m, k)
  \/ \E m \in Mails : DecideOnRequest(m)
  \/ \E j \in JobId : Age(j)
  \/ \E w \in Workers : RunPending(w) \/ (\E j \in JobId : RunOne(w, j)) \/ Work(w) \/ Crash(w)

Spec == Init /\ [][Next]_vars

-----------------------------------------------------------------------------
(* The types of the variables, and what ties the locks to the drafts: a    *)
(* row is locked exactly while it has a draft, by a worker in a            *)
(* transaction, and the draft is of the same job.                          *)
RowsOK ==
  /\ jobs \in [JobId -> Job \cup {Unused}]
  /\ current \in [Mails -> [Kinds -> {"none", "pending", "success", "failed"}]]
  /\ execs \in [JobId -> Nat]
  /\ crashes \in 0 .. MaxCrashes
LocksOK ==
  /\ draft \in [JobId -> Job \cup {Unused}]
  /\ lock \in [JobId -> Workers \cup {NoWorker}]
  /\ failing \in [Mails -> [Kinds -> Workers \cup {NoWorker}]]
  /\ \A j \in JobId :
       IF lock[j] = NoWorker THEN draft[j] = Unused
       ELSE /\ worker[lock[j]].open
            /\ Created(j) /\ draft[j] # Unused
            /\ draft[j].mail = jobs[j].mail /\ draft[j].kind = jobs[j].kind
  /\ \A m \in Mails, k \in Kinds : failing[m][k] # NoWorker => worker[failing[m][k]].open
WorkersOK ==
  /\ worker \in [Workers -> WorkerState]
  /\ \A w \in Workers :
       /\ At(w, "idle") => worker[w] = Idle
       /\ worker[w].job # NoJob <=> worker[w].pc \notin {"idle", "recover", "claim"}
       /\ worker[w].job # NoJob => Created(worker[w].job)
TypeOK == RowsOK /\ LocksOK /\ WorkersOK

(* A mail has at most one active job of a type, however registrations,     *)
(* recoveries and late finishes interleave: create_email_analysis_job is   *)
(* asked again on every poll and every click and must return the job there *)
(* is.                                                                     *)
OneActiveJob ==
  \A i, j \in JobId :
    Active(i) /\ Active(j) /\ jobs[i].mail = jobs[j].mail /\ jobs[i].kind = jobs[j].kind => i = j

(* The recorded attempts of a job never pass max_attempts, though the      *)
(* claim itself does not look at them: only a job with attempts left ever  *)
(* becomes pending.                                                        *)
AttemptsBounded ==
  \A j \in JobId :
    /\ Created(j) => jobs[j].attempt <= MaxAttempts
    /\ lock[j] # NoWorker => draft[j].attempt <= MaxAttempts

(* Workers that execute the same job at the same time (after a recovery    *)
(* of a job whose worker was only slow) are never more than the attempts   *)
(* its newest row counts: SKIP LOCKED keeps an uncommitted claim from      *)
(* being claimed again.                                                    *)
Newest(j) == IF lock[j] = NoWorker THEN jobs[j] ELSE draft[j]
ExecutorsCounted ==
  \A j \in JobId : Created(j) =>
    Cardinality({w \in Workers : worker[w].job = j}) <= Newest(j).attempt

(* A result that is shown as pending has an active job: a worker that      *)
(* finishes a job, with or without an answer, crashing or not, late or     *)
(* not, never leaves a result waiting for nobody, unless a run of the mail *)
(* is resumed by hand.  (The type mail_decision is not a result of its     *)
(* own: no save replaces its pending row.)                                 *)
Awaited(m, k) == current[m][k] = "pending" => ActiveEmailAnalysisJob(m, k)

PendingResultHasJob == \A m \in Mails \ Resumed, k \in SavedKinds : Awaited(m, k)

(* A finished job never goes back to the queue: neither the recovery nor   *)
(* the commit of an old transaction revives it.                            *)
FinishedStaysFinished == [][\A j \in JobId : Finished(j) => Finished(j)']_vars

(* A good result is only replaced on request: it stays current until a     *)
(* job of its mail and type is registered, in particular when a job of the *)
(* mail fails after the result was saved by another.                       *)
ResultKept ==
  [][\A m \in Mails, k \in Kinds :
       current[m][k] = "success" /\ current'[m][k] # "success" =>
         ActiveEmailAnalysisJob(m, k)' /\ ~ActiveEmailAnalysisJob(m, k)]_vars

(* What a reader finds in the table: the committed rows, without the age   *)
(* of a run.  For readers the workers are the queue JobQueue describes.    *)
Shown(r) ==
  IF r = Unused THEN Unused
  ELSE [mail |-> r.mail, kind |-> r.kind, status |-> r.status, attempt |-> r.attempt]

Queue == INSTANCE JobQueue WITH rows <- [j \in JobId |-> Shown(jobs[j])]

ImplementsQueue == Queue!Spec

(* The workers whose open transactions worker w is waiting for.            *)
Blockers(w) ==
  LET rows == CASE At(w, "recover") -> {lock[j] : j \in {i \in JobId : Recoverable(i)}}
                [] At(w, "save") -> {failing[Mine(w).mail][k] : k \in SavedKinds}
                [] At(w, "fail") -> {failing[Mine(w).mail][Mine(w).kind]} \ {w}
                [] worker[w].pc \in {"succeed", "failjob"} -> {lock[worker[w].job]} \ {w}
                [] OTHER -> {}
  IN  rows \ {NoWorker}

(* Calls for one job never wait for each other, or for themselves: only    *)
(* run_pending, which keeps the rows of a job it has failed locked while   *)
(* it goes on to the next one, can close a circle of waiting transactions. *)
CalledForOne(w) == worker[w].target # NoJob
NoLockCircle ==
  \A w, v \in Workers :
    CalledForOne(w) /\ CalledForOne(v) /\ v \in Blockers(w) => w \notin Blockers(v)

(* However workers die or are taken for dead, a job is handed to a worker  *)
(* no more often than its maximum of attempts and once more for every      *)
(* process that died: a death rolls the claim back and its attempt with    *)
(* it, and nothing else forgets an attempt.                                *)
ExecutionsBounded == \A j \in JobId : execs[j] <= MaxAttempts + crashes
=============================================================================
