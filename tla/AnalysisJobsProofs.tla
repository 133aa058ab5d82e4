------------------------ MODULE AnalysisJobsProofs ------------------------
(***************************************************************************)
(* Proofs about AnalysisJobs, for any number of workers, mails, jobs,      *)
(* attempts and crashes.                                                   *)
(***************************************************************************)
EXTENDS AnalysisJobs, TLAPS

USE LimitsAssumption

-----------------------------------------------------------------------------
(* Records.                                                                *)

LEMMA UnusedIsNoJob == Unused \notin Job
BY SMT DEF Unused, Job

LEMMA JobRewritten ==
  ASSUME NEW r \in Job, NEW s \in {"pending", "running", "success", "failed"}
  PROVE  /\ WithStatus(r, s) \in Job
         /\ WithStatus(r, s).mail = r.mail
         /\ WithStatus(r, s).kind = r.kind
         /\ WithStatus(r, s).attempt = r.attempt
         /\ WithStatus(r, s).status = s
BY DEF Job, WithStatus

LEMMA JobClaimed ==
  ASSUME NEW r \in Job
  PROVE  /\ [r EXCEPT !.status = "running", !.attempt = @ + 1] \in Job
         /\ [r EXCEPT !.status = "running", !.attempt = @ + 1].mail = r.mail
         /\ [r EXCEPT !.status = "running", !.attempt = @ + 1].kind = r.kind
         /\ [r EXCEPT !.status = "running", !.attempt = @ + 1].attempt = r.attempt + 1
         /\ [r EXCEPT !.status = "running", !.attempt = @ + 1].status = "running"
<1>1. r.attempt \in Nat  BY DEF Job
<1>2. PICK n \in Nat : n = r.attempt + 1  BY <1>1
<1>3. /\ [r EXCEPT !.status = "running", !.attempt = n] \in Job
      /\ [r EXCEPT !.status = "running", !.attempt = n].mail = r.mail
      /\ [r EXCEPT !.status = "running", !.attempt = n].kind = r.kind
      /\ [r EXCEPT !.status = "running", !.attempt = n].attempt = n
      /\ [r EXCEPT !.status = "running", !.attempt = n].status = "running"
  BY DEF Job
<1>. QED  BY <1>2, <1>3, Zenon

LEMMA JobAged ==
  ASSUME NEW r \in Job
  PROVE  /\ [r EXCEPT !.stale = TRUE] \in Job
         /\ [r EXCEPT !.stale = TRUE].mail = r.mail
         /\ [r EXCEPT !.stale = TRUE].kind = r.kind
         /\ [r EXCEPT !.stale = TRUE].attempt = r.attempt
         /\ [r EXCEPT !.stale = TRUE].status = r.status
BY DEF Job

(* A worker's record after each kind of step.                              *)
LEMMA IdleTyped ==
  /\ Idle \in WorkerState
  /\ Idle.pc = "idle" /\ Idle.job = NoJob /\ Idle.open = FALSE
BY DEF Idle, WorkerState, NoJob

LEMMA CalledTyped ==
  ASSUME NEW n \in 0 .. Limit, NEW t \in JobId \cup {NoJob}
  PROVE  /\ [Idle EXCEPT !.pc = "recover", !.left = n, !.target = t] \in WorkerState
         /\ [Idle EXCEPT !.pc = "recover", !.left = n, !.target = t].pc = "recover"
         /\ [Idle EXCEPT !.pc = "recover", !.left = n, !.target = t].job = NoJob
         /\ [Idle EXCEPT !.pc = "recover", !.left = n] \in WorkerState
         /\ [Idle EXCEPT !.pc = "recover", !.left = n].pc = "recover"
         /\ [Idle EXCEPT !.pc = "recover", !.left = n].job = NoJob
BY DEF Idle, WorkerState, NoJob

LEMMA MovedTyped ==
  ASSUME NEW r \in WorkerState,
         NEW pc \in {"claim", "lookup", "decide", "save", "succeed", "fail", "failjob"}
  PROVE  /\ [r EXCEPT !.pc = pc] \in WorkerState
         /\ [r EXCEPT !.pc = pc].pc = pc
         /\ [r EXCEPT !.pc = pc].job = r.job
         /\ [r EXCEPT !.pc = pc].open = r.open
         /\ [r EXCEPT !.open = TRUE, !.pc = pc] \in WorkerState
         /\ [r EXCEPT !.open = TRUE, !.pc = pc].pc = pc
         /\ [r EXCEPT !.open = TRUE, !.pc = pc].job = r.job
         /\ [r EXCEPT !.open = TRUE, !.pc = pc].open = TRUE
         /\ [r EXCEPT !.pc = pc, !.job = NoJob] \in WorkerState
         /\ [r EXCEPT !.pc = pc, !.job = NoJob].pc = pc
         /\ [r EXCEPT !.pc = pc, !.job = NoJob].job = NoJob
         /\ [r EXCEPT !.pc = pc, !.job = NoJob].open = r.open
BY DEF WorkerState

LEMMA ClaimedTyped ==
  ASSUME NEW r \in WorkerState, r.left > 0, NEW j \in JobId, NEW pc \in {"lookup", "decide"}
  PROVE  /\ Serving(r, j, pc) \in WorkerState
         /\ Serving(r, j, pc).pc = pc
         /\ Serving(r, j, pc).job = j
         /\ Serving(r, j, pc).open = r.open
<1>1. PICK n \in 0 .. Limit : n = r.left - 1  BY DEF WorkerState
<1>2. /\ [r EXCEPT !.job = j, !.left = n, !.pc = pc] \in WorkerState
      /\ [r EXCEPT !.job = j, !.left = n, !.pc = pc].pc = pc
      /\ [r EXCEPT !.job = j, !.left = n, !.pc = pc].job = j
      /\ [r EXCEPT !.job = j, !.left = n, !.pc = pc].open = r.open
  BY DEF WorkerState
<1>. QED  BY <1>1, <1>2, Zenon DEF Serving

-----------------------------------------------------------------------------
(* Types.                                                                  *)

(* No step forgets a job, or what it is for.                               *)
JobsKept ==
  \A j \in JobId : Created(j) => /\ jobs'[j] # Unused
                                 /\ jobs'[j].mail = jobs[j].mail
                                 /\ jobs'[j].kind = jobs[j].kind

PlacedWorker(r) == r.job # NoJob <=> r.pc \notin {"idle", "recover", "claim"}

LEMMA CreatedTyped ==
  ASSUME TypeOK, NEW j \in JobId, Created(j)
  PROVE  jobs[j] \in Job
BY DEF TypeOK, RowsOK, Created

LEMMA WorkerMoved ==
  ASSUME WorkersOK, NEW w \in Workers, NEW r \in WorkerState,
         r.pc = "idle" => r = Idle,
         PlacedWorker(r),
         r.job # NoJob => jobs'[r.job] # Unused,
         JobsKept,
         worker' = [worker EXCEPT ![w] = r]
  PROVE  WorkersOK'
<1>1. worker' \in [Workers -> WorkerState]  BY DEF WorkersOK
<1>2. ASSUME NEW v \in Workers
      PROVE  /\ worker'[v].pc = "idle" => worker'[v] = Idle
             /\ worker'[v].job # NoJob <=> worker'[v].pc \notin {"idle", "recover", "claim"}
             /\ worker'[v].job # NoJob => jobs'[worker'[v].job] # Unused
  <2>1. CASE v = w
    <3>1. worker'[v] = r  BY <2>1, <1>1 DEF WorkersOK
    <3>. QED  BY <3>1, Zenon DEF PlacedWorker
  <2>2. CASE v # w
    <3>1. worker'[v] = worker[v]  BY <2>2 DEF WorkersOK
    <3>2. worker[v].job \in JobId \cup {NoJob}  BY DEF WorkersOK, WorkerState
    <3>3. worker[v].job # NoJob => jobs'[worker[v].job] # Unused
      BY <3>2 DEF WorkersOK, JobsKept, Created
    <3>. QED  BY <3>1, <3>3, Zenon DEF WorkersOK, At
  <2>. QED  BY <2>1, <2>2
<1>. QED  BY <1>1, <1>2 DEF WorkersOK, At, Created

LEMMA WorkersStay ==
  ASSUME WorkersOK, JobsKept, UNCHANGED worker
  PROVE  WorkersOK'
<1>1. ASSUME NEW v \in Workers, worker[v].job # NoJob
      PROVE  jobs'[worker[v].job] # Unused
  BY <1>1 DEF WorkersOK, WorkerState, JobsKept, Created
<1>. QED  BY <1>1 DEF WorkersOK, At, Created

(* The locks of a step that takes or gives none.                           *)
LEMMA LocksStay ==
  ASSUME LocksOK, JobsKept, UNCHANGED <<draft, lock, failing>>,
         \A w \in Workers : worker[w].open => worker'[w].open,
         NoWorker \notin Workers
  PROVE  LocksOK'
<1>1. ASSUME NEW j \in JobId, lock[j] # NoWorker
      PROVE  /\ worker'[lock[j]].open
             /\ jobs'[j] # Unused /\ draft[j] # Unused
             /\ draft[j].mail = jobs'[j].mail /\ draft[j].kind = jobs'[j].kind
  BY <1>1 DEF LocksOK, JobsKept, Created
<1>2. ASSUME NEW m \in Mails, NEW k \in Kinds, failing[m][k] # NoWorker
      PROVE  worker'[failing[m][k]].open
  BY <1>2 DEF LocksOK
<1>. QED  BY <1>1, <1>2 DEF LocksOK, Created

LEMMA OpenKept ==
  ASSUME WorkersOK, NEW w \in Workers, NEW r, worker' = [worker EXCEPT ![w] = r],
         worker[w].open => r.open
  PROVE  \A v \in Workers : worker[v].open => worker'[v].open
BY DEF WorkersOK

LEMMA CreateTyped ==
  ASSUME TypeOK, NEW m \in Mails, NEW k \in Kinds, CreateEmailAnalysisJob(m, k)
  PROVE  TypeOK' /\ JobsKept
<1>. USE NamesAssumption DEF TypeOK
<1>1. PICK j \in JobId :
        /\ ~Created(j)
        /\ jobs' = [jobs EXCEPT ![j] = [mail |-> m, kind |-> k, status |-> "pending",
                                       attempt |-> 0, stale |-> FALSE]]
  BY DEF CreateEmailAnalysisJob
<1>2. [mail |-> m, kind |-> k, status |-> "pending", attempt |-> 0, stale |-> FALSE] \in Job
  BY DEF Job
<1>3. jobs' \in [JobId -> Job \cup {Unused}]  BY <1>1, <1>2 DEF RowsOK
<1>4. JobsKept  BY <1>1 DEF JobsKept, Created, RowsOK
<1>5. current' \in [Mails -> [Kinds -> {"none", "pending", "success", "failed"}]]
  BY DEF RowsOK, CreateEmailAnalysisJob
<1>6. RowsOK'  BY <1>3, <1>5 DEF RowsOK, CreateEmailAnalysisJob
<1>7. UNCHANGED <<draft, lock, failing, worker>>  BY DEF CreateEmailAnalysisJob
<1>8. LocksOK'  BY <1>4, <1>7, LocksStay
<1>9. WorkersOK'  BY <1>4, <1>7, WorkersStay
<1>. QED  BY <1>4, <1>6, <1>8, <1>9

LEMMA AgeTyped ==
  ASSUME TypeOK, NEW j \in JobId, Age(j)
  PROVE  TypeOK' /\ JobsKept
<1>. USE NamesAssumption DEF TypeOK
<1>1. jobs[j] \in Job  BY CreatedTyped DEF Age
<1>2. PICK r \in Job : /\ r.mail = jobs[j].mail /\ r.kind = jobs[j].kind
                       /\ jobs' = [jobs EXCEPT ![j] = r]
  BY <1>1, JobAged DEF Age
<1>3. jobs' \in [JobId -> Job \cup {Unused}]  BY <1>2 DEF RowsOK
<1>4. JobsKept  BY <1>2, UnusedIsNoJob DEF JobsKept, RowsOK, Created
<1>5. RowsOK'  BY <1>3 DEF RowsOK, Age
<1>6. UNCHANGED <<draft, lock, failing, worker>>  BY DEF Age
<1>7. LocksOK'  BY <1>4, <1>6, LocksStay
<1>8. WorkersOK'  BY <1>4, <1>6, WorkersStay
<1>. QED  BY <1>4, <1>5, <1>7, <1>8

LEMMA CallTyped ==
  ASSUME TypeOK, NEW w \in Workers,
         RunPending(w) \/ (\E j \in JobId : RunOne(w, j))
  PROVE  TypeOK' /\ JobsKept
<1>. USE NamesAssumption DEF TypeOK
<1>1. UNCHANGED <<jobs, current, draft, lock, failing, execs, crashes>>
  BY DEF RunPending, RunOne
<1>2. JobsKept  BY <1>1 DEF JobsKept, Created
<1>3. PICK r \in WorkerState :
        r.pc = "recover" /\ r.job = NoJob /\ worker' = [worker EXCEPT ![w] = r]
  <2>1. CASE RunPending(w)
    <3>. DEFINE r == [Idle EXCEPT !.pc = "recover", !.left = Limit]
    <3>1. Limit \in 0 .. Limit  OBVIOUS
    <3>2. r \in WorkerState /\ r.pc = "recover" /\ r.job = NoJob  BY <3>1, CalledTyped
    <3>3. worker' = [worker EXCEPT ![w] = r]  BY <2>1 DEF RunPending
    <3>. HIDE DEF r
    <3>. QED  BY <3>2, <3>3
  <2>2. CASE \E j \in JobId : RunOne(w, j)
    <3>1. PICK j \in JobId : RunOne(w, j)  BY <2>2
    <3>. DEFINE r == [Idle EXCEPT !.pc = "recover", !.left = 1, !.target = j]
    <3>2. 1 \in 0 .. Limit  OBVIOUS
    <3>3. r \in WorkerState /\ r.pc = "recover" /\ r.job = NoJob  BY <3>2, CalledTyped
    <3>4. worker' = [worker EXCEPT ![w] = r]  BY <3>1 DEF RunOne
    <3>. HIDE DEF r
    <3>. QED  BY <3>3, <3>4
  <2>. QED  BY <2>1, <2>2
<1>4. WorkersOK'  BY <1>2, <1>3, WorkerMoved DEF PlacedWorker
<1>5. ~worker[w].open  BY IdleTyped DEF RunPending, RunOne, At, WorkersOK
<1>6. LocksOK'  BY <1>1, <1>2, <1>3, <1>5, OpenKept, LocksStay
<1>7. RowsOK'  BY <1>1 DEF RowsOK
<1>. QED  BY <1>2, <1>4, <1>6, <1>7

LEMMA RecoverTyped ==
  ASSUME TypeOK, NEW w \in Workers, RecoverStaleJobs(w)
  PROVE  TypeOK' /\ JobsKept
<1>. USE NamesAssumption DEF TypeOK
<1>1. ASSUME NEW j \in JobId
      PROVE  /\ jobs'[j] \in Job \cup {Unused}
             /\ Created(j) => /\ jobs'[j] # Unused
                              /\ jobs'[j].mail = jobs[j].mail
                              /\ jobs'[j].kind = jobs[j].kind
  <2>1. CASE Recoverable(j)
    <3>1. jobs[j] \in Job  BY <2>1, CreatedTyped DEF Recoverable
    <3>2. jobs'[j] = WithStatus(jobs[j], "pending")
      BY <2>1 DEF RecoverStaleJobs
    <3>3. PICK r \in Job : r.mail = jobs[j].mail /\ r.kind = jobs[j].kind /\ jobs'[j] = r
      BY <3>1, <3>2, JobRewritten
    <3>. QED  BY <3>3, UnusedIsNoJob
  <2>2. CASE ~Recoverable(j)
    <3>1. jobs'[j] = jobs[j]  BY <2>2 DEF RecoverStaleJobs
    <3>. QED  BY <3>1 DEF RowsOK, Created
  <2>. QED  BY <2>1, <2>2
<1>2. JobsKept  BY <1>1 DEF JobsKept
<1>3. jobs' \in [JobId -> Job \cup {Unused}]  BY <1>1 DEF RecoverStaleJobs
<1>4. RowsOK'  BY <1>3 DEF RowsOK, RecoverStaleJobs
<1>5. worker[w] \in WorkerState  BY DEF WorkersOK
<1>6. worker[w].job = NoJob  BY DEF WorkersOK, At, RecoverStaleJobs
<1>7. PICK r \in WorkerState : /\ r.pc = "claim" /\ r.job = NoJob
                               /\ r.open = worker[w].open
                               /\ worker' = [worker EXCEPT ![w] = r]
  <2>1. PICK v \in WorkerState : v = worker[w]  BY <1>5
  <2>. DEFINE q == [v EXCEPT !.pc = "claim"]
  <2>2. q \in WorkerState /\ q.pc = "claim" /\ q.job = v.job /\ q.open = v.open
    BY <2>1 DEF WorkerState
  <2>3. worker' = [worker EXCEPT ![w] = q]  BY <2>1 DEF RecoverStaleJobs, Goto
  <2>. HIDE DEF q
  <2>. QED  BY <1>6, <2>1, <2>2, <2>3
<1>8. WorkersOK'  BY <1>2, <1>7, WorkerMoved DEF PlacedWorker
<1>9. LocksOK'  BY <1>2, <1>7, OpenKept, LocksStay DEF RecoverStaleJobs
<1>. QED  BY <1>2, <1>4, <1>8, <1>9

(* A step of a worker within its job changes neither the job nor, except   *)
(* to open it, the transaction.                                            *)
LEMMA WithinJob ==
  ASSUME TypeOK, NEW w \in Workers, JobsKept, worker[w].job # NoJob,
         NEW pc \in {"decide", "save", "succeed", "fail", "failjob"},
         \/ Goto(w, pc)
         \/ worker' = [worker EXCEPT ![w] = [@ EXCEPT !.open = TRUE, !.pc = pc]]
  PROVE  /\ WorkersOK'
         /\ \A v \in Workers : worker[v].open => worker'[v].open
         /\ worker'[w].pc = pc /\ worker'[w].job = worker[w].job
         /\ \A v \in Workers : v # w => worker'[v] = worker[v]
<1>. USE DEF TypeOK
<1>1. worker[w] \in WorkerState /\ worker[w].job \in JobId  BY DEF WorkersOK, WorkerState
<1>0. PICK s \in WorkerState : s = worker[w]  BY <1>1
<1>2. PICK r \in WorkerState : /\ r.pc = pc /\ r.job = worker[w].job
                               /\ worker[w].open => r.open
                               /\ worker' = [worker EXCEPT ![w] = r]
  <2>1. CASE Goto(w, pc)
    <3>. DEFINE q == [s EXCEPT !.pc = pc]
    <3>1. q \in WorkerState /\ q.pc = pc /\ q.job = s.job /\ q.open = s.open
      BY <1>0 DEF WorkerState
    <3>2. worker' = [worker EXCEPT ![w] = q]  BY <1>0, <2>1 DEF Goto
    <3>. HIDE DEF q
    <3>. QED  BY <1>0, <3>1, <3>2
  <2>2. CASE worker' = [worker EXCEPT ![w] = [@ EXCEPT !.open = TRUE, !.pc = pc]]
    <3>. DEFINE q == [s EXCEPT !.open = TRUE, !.pc = pc]
    <3>1. q \in WorkerState /\ q.pc = pc /\ q.job = s.job /\ q.open = TRUE
      BY <1>0 DEF WorkerState
    <3>2. worker' = [worker EXCEPT ![w] = q]  BY <1>0, <2>2
    <3>. HIDE DEF q
    <3>. QED  BY <1>0, <3>1, <3>2
  <2>. QED  BY <2>1, <2>2
<1>3. jobs'[r.job] # Unused  BY <1>1, <1>2 DEF WorkersOK, JobsKept
<1>4. r.pc # "idle" /\ PlacedWorker(r)  BY <1>2 DEF PlacedWorker
<1>5. WorkersOK'  BY <1>2, <1>3, <1>4, WorkerMoved
<1>6. \A v \in Workers : worker[v].open => worker'[v].open  BY <1>2, OpenKept
<1>. QED  BY <1>2, <1>5, <1>6 DEF WorkersOK

(* The update of a row, committed or held by the open transaction.         *)
LEMMA UpdateTyped ==
  ASSUME TypeOK, NEW w \in Workers, NEW j \in JobId, Created(j), NEW r \in Job,
         r.mail = jobs[j].mail, r.kind = jobs[j].kind, Update(w, j, r)
  PROVE  /\ JobsKept
         /\ jobs' \in [JobId -> Job \cup {Unused}]
         /\ draft' \in [JobId -> Job \cup {Unused}]
         /\ lock' \in [JobId -> Workers \cup {NoWorker}]
         /\ \A i \in JobId :
              IF lock'[i] = NoWorker THEN draft'[i] = Unused
              ELSE /\ worker[lock'[i]].open
                   /\ jobs'[i] # Unused /\ draft'[i] # Unused
                   /\ draft'[i].mail = jobs'[i].mail /\ draft'[i].kind = jobs'[i].kind
<1>. USE NamesAssumption, UnusedIsNoJob DEF TypeOK
<1>1. CASE worker[w].open
  <2>1. /\ draft' = [draft EXCEPT ![j] = r] /\ lock' = [lock EXCEPT ![j] = w]
        /\ UNCHANGED jobs
    BY <1>1 DEF Update
  <2>2. JobsKept  BY <2>1 DEF JobsKept, Created
  <2>3. ASSUME NEW i \in JobId
        PROVE  IF lock'[i] = NoWorker THEN draft'[i] = Unused
               ELSE /\ worker[lock'[i]].open
                    /\ jobs'[i] # Unused /\ draft'[i] # Unused
                    /\ draft'[i].mail = jobs'[i].mail /\ draft'[i].kind = jobs'[i].kind
    <3>1. CASE i = j
      BY <1>1, <2>1, <3>1 DEF LocksOK, Created
    <3>2. CASE i # j
      BY <2>1, <3>2 DEF LocksOK, Created
    <3>. QED  BY <3>1, <3>2
  <2>. QED  BY <2>1, <2>2, <2>3 DEF RowsOK, LocksOK
<1>2. CASE ~worker[w].open
  <2>1. jobs' = [jobs EXCEPT ![j] = r] /\ UNCHANGED <<draft, lock>>
    BY <1>2 DEF Update
  <2>2. JobsKept  BY <2>1 DEF JobsKept, Created, RowsOK
  <2>3. ASSUME NEW i \in JobId
        PROVE  IF lock'[i] = NoWorker THEN draft'[i] = Unused
               ELSE /\ worker[lock'[i]].open
                    /\ jobs'[i] # Unused /\ draft'[i] # Unused
                    /\ draft'[i].mail = jobs'[i].mail /\ draft'[i].kind = jobs'[i].kind
    <3>1. CASE i = j
      BY <2>1, <3>1 DEF LocksOK, RowsOK, Created
    <3>2. CASE i # j
      BY <2>1, <3>2 DEF LocksOK, RowsOK, Created
    <3>. QED  BY <3>1, <3>2
  <2>. QED  BY <2>1, <2>2, <2>3 DEF RowsOK, LocksOK
<1>. QED  BY <1>1, <1>2

LEMMA ClaimTyped ==
  ASSUME TypeOK, NEW w \in Workers, ClaimNextJob(w)
  PROVE  TypeOK' /\ JobsKept
<1>. USE NamesAssumption DEF TypeOK
<1>1. PICK j \in JobId :
        /\ Claimable(w, j)
        /\ Update(w, j, [jobs[j] EXCEPT !.status = "running", !.attempt = @ + 1])
        /\ worker' = [worker EXCEPT ![w] = Serving(@, j, FirstStep(jobs[j].kind))]
        /\ execs' = [execs EXCEPT ![j] = @ + 1]
  BY DEF ClaimNextJob
<1>2. Created(j) /\ jobs[j] \in Job  BY <1>1, CreatedTyped DEF Claimable, Pending
<1>3. PICK r \in Job : r.mail = jobs[j].mail /\ r.kind = jobs[j].kind /\ Update(w, j, r)
  BY <1>1, <1>2, JobClaimed
<1>4. /\ JobsKept
      /\ jobs' \in [JobId -> Job \cup {Unused}]
      /\ draft' \in [JobId -> Job \cup {Unused}]
      /\ lock' \in [JobId -> Workers \cup {NoWorker}]
      /\ \A i \in JobId :
           IF lock'[i] = NoWorker THEN draft'[i] = Unused
           ELSE /\ worker[lock'[i]].open
                /\ jobs'[i] # Unused /\ draft'[i] # Unused
                /\ draft'[i].mail = jobs'[i].mail /\ draft'[i].kind = jobs'[i].kind
  BY <1>2, <1>3, UpdateTyped
<1>5. worker[w] \in WorkerState /\ worker[w].left > 0  BY DEF WorkersOK, ClaimNextJob
<1>6. PICK s \in WorkerState : /\ s.pc \in {"lookup", "decide"} /\ s.job = j
                               /\ s.open = worker[w].open
                               /\ worker' = [worker EXCEPT ![w] = s]
  <2>1. FirstStep(jobs[j].kind) \in {"lookup", "decide"}  BY DEF FirstStep
  <2>. DEFINE q == Serving(worker[w], j, FirstStep(jobs[j].kind))
  <2>2. q \in WorkerState /\ q.pc \in {"lookup", "decide"} /\ q.job = j /\ q.open = worker[w].open
    BY <1>5, <2>1, ClaimedTyped
  <2>3. worker' = [worker EXCEPT ![w] = q]  BY <1>1
  <2>. HIDE DEF q
  <2>. QED  BY <2>2, <2>3
<1>7. j # NoJob  BY DEF JobId, NoJob
<1>8. WorkersOK'  BY <1>2, <1>4, <1>6, <1>7, WorkerMoved DEF PlacedWorker, JobsKept
<1>9. \A v \in Workers : worker[v].open => worker'[v].open  BY <1>6, OpenKept
<1>10. UNCHANGED <<current, failing, crashes>>  BY DEF ClaimNextJob
<1>11. execs' \in [JobId -> Nat]  BY <1>1 DEF RowsOK
<1>12. RowsOK'  BY <1>4, <1>10, <1>11 DEF RowsOK
<1>13. LocksOK'  BY <1>4, <1>9, <1>10 DEF LocksOK, Created
<1>. QED  BY <1>4, <1>8, <1>12, <1>13
(* The steps inside a job.                                                 *)
LEMMA InJob ==
  ASSUME TypeOK, NEW w \in Workers,
         worker[w].pc \in {"lookup", "decide", "save", "succeed", "fail", "failjob"}
  PROVE  /\ worker[w].job \in JobId
         /\ worker[w].job # NoJob
         /\ Created(worker[w].job)
         /\ Mine(w) \in Job
<1>1. worker[w].job # NoJob /\ Created(worker[w].job)  BY DEF TypeOK, WorkersOK
<1>2. worker[w].job \in JobId  BY <1>1 DEF TypeOK, WorkersOK, WorkerState
<1>. QED  BY <1>1, <1>2, CreatedTyped DEF Mine

LEMMA LookupTyped ==
  ASSUME TypeOK, NEW w \in Workers, CurrentAiResult(w)
  PROVE  TypeOK' /\ JobsKept
<1>. USE NamesAssumption DEF TypeOK
<1>1. worker[w].job # NoJob  BY InJob DEF CurrentAiResult, At
<1>2. UNCHANGED <<jobs, current, draft, lock, failing, execs, crashes>>  BY DEF CurrentAiResult
<1>3. JobsKept  BY <1>2 DEF JobsKept, Created
<1>4. PICK pc \in {"succeed", "decide"} :
        worker' = [worker EXCEPT ![w] = [@ EXCEPT !.open = TRUE, !.pc = pc]]
  BY DEF CurrentAiResult
<1>5. WorkersOK' /\ \A v \in Workers : worker[v].open => worker'[v].open
  BY <1>1, <1>3, <1>4, WithinJob
<1>6. LocksOK'  BY <1>2, <1>3, <1>5, LocksStay
<1>7. RowsOK'  BY <1>2 DEF RowsOK
<1>. QED  BY <1>3, <1>5, <1>6, <1>7

LEMMA DecideTyped ==
  ASSUME TypeOK, NEW w \in Workers, RunMailDecision(w)
  PROVE  TypeOK' /\ JobsKept
<1>. USE NamesAssumption DEF TypeOK
<1>1. worker[w].job # NoJob  BY InJob DEF RunMailDecision, At
<1>2. UNCHANGED <<jobs, current, draft, lock, failing, execs, crashes>>  BY DEF RunMailDecision
<1>3. JobsKept  BY <1>2 DEF JobsKept, Created
<1>4. PICK pc \in {"save", "succeed", "fail"} : Goto(w, pc)  BY DEF RunMailDecision
<1>5. WorkersOK' /\ \A v \in Workers : worker[v].open => worker'[v].open
  BY <1>1, <1>3, <1>4, WithinJob
<1>6. LocksOK'  BY <1>2, <1>3, <1>5, LocksStay
<1>7. RowsOK'  BY <1>2 DEF RowsOK
<1>. QED  BY <1>3, <1>5, <1>6, <1>7

LEMMA SaveTyped ==
  ASSUME TypeOK, NEW w \in Workers, SaveDecision(w)
  PROVE  TypeOK' /\ JobsKept
<1>. USE NamesAssumption DEF TypeOK
<1>1. worker[w].job # NoJob /\ Mine(w) \in Job  BY InJob DEF SaveDecision, At
<1>2. UNCHANGED <<jobs, draft, lock, failing, execs, crashes>>  BY DEF SaveDecision
<1>3. JobsKept  BY <1>2 DEF JobsKept, Created
<1>4. PICK pc \in {"succeed", "fail"} : Goto(w, pc)  BY DEF SaveDecision
<1>5. WorkersOK' /\ \A v \in Workers : worker[v].open => worker'[v].open
  BY <1>1, <1>3, <1>4, WithinJob
<1>6. LocksOK'  BY <1>2, <1>3, <1>5, LocksStay
<1>7. current' \in [Mails -> [Kinds -> {"none", "pending", "success", "failed"}]]
  BY DEF SaveDecision, SaveResults, RowsOK
<1>8. RowsOK'  BY <1>2, <1>7 DEF RowsOK
<1>. QED  BY <1>3, <1>5, <1>6, <1>8

LEMMA RequestTyped ==
  ASSUME TypeOK, NEW m \in Mails, DecideOnRequest(m)
  PROVE  TypeOK' /\ JobsKept
<1>. USE NamesAssumption DEF TypeOK
<1>1. UNCHANGED <<jobs, draft, lock, failing, worker, execs, crashes>>  BY DEF DecideOnRequest
<1>2. JobsKept  BY <1>1 DEF JobsKept, Created
<1>3. current' \in [Mails -> [Kinds -> {"none", "pending", "success", "failed"}]]
  BY DEF DecideOnRequest, SaveResults, RowsOK
<1>4. RowsOK'  BY <1>1, <1>3 DEF RowsOK
<1>5. LocksOK'  BY <1>1, <1>2, LocksStay
<1>6. WorkersOK'  BY <1>1, <1>2, WorkersStay
<1>. QED  BY <1>2, <1>4, <1>5, <1>6

LEMMA MarkAnalysisTyped ==
  ASSUME TypeOK, NEW w \in Workers, MarkAnalysisFailed(w)
  PROVE  TypeOK' /\ JobsKept
<1>. USE NamesAssumption DEF TypeOK
<1>1. worker[w].job # NoJob /\ Mine(w) \in Job  BY InJob DEF MarkAnalysisFailed, At
<1>2. UNCHANGED <<jobs, draft, lock, execs, crashes>>  BY DEF MarkAnalysisFailed
<1>3. JobsKept  BY <1>2 DEF JobsKept, Created
<1>4. Goto(w, "failjob")  BY DEF MarkAnalysisFailed
<1>5. WorkersOK' /\ \A v \in Workers : worker[v].open => worker'[v].open
  BY <1>1, <1>3, <1>4, WithinJob
<1>6. current' \in [Mails -> [Kinds -> {"none", "pending", "success", "failed"}]]
  BY DEF MarkAnalysisFailed, RowsOK
<1>7. RowsOK'  BY <1>2, <1>6 DEF RowsOK
<1>8. /\ failing' \in [Mails -> [Kinds -> Workers \cup {NoWorker}]]
      /\ \A m \in Mails, k \in Kinds : failing'[m][k] # NoWorker => worker[failing'[m][k]].open
  <2>1. Mine(w).mail \in Mails /\ Mine(w).kind \in Kinds  BY <1>1 DEF Job
  <2>2. CASE UNCHANGED failing
    BY <2>2 DEF LocksOK
  <2>3. CASE worker[w].open /\ failing' = [failing EXCEPT ![Mine(w).mail][Mine(w).kind] = w]
    BY <2>1, <2>3 DEF LocksOK
  <2>. QED  BY <2>2, <2>3 DEF MarkAnalysisFailed
<1>9. \A m \in Mails, k \in Kinds : failing'[m][k] \in Workers \cup {NoWorker}  BY <1>8
<1>10. \A m \in Mails, k \in Kinds : failing'[m][k] # NoWorker => worker'[failing'[m][k]].open
  BY <1>5, <1>8, <1>9
<1>11. \A j \in JobId : lock[j] # NoWorker => worker'[lock[j]].open
  BY <1>5 DEF LocksOK
<1>12. LocksOK'  BY <1>2, <1>8, <1>10, <1>11 DEF LocksOK, Created
<1>. QED  BY <1>3, <1>5, <1>7, <1>12

LEMMA ViewTyped ==
  ASSUME TypeOK, NEW w \in Workers, NEW j \in JobId, Created(j)
  PROVE  View(w, j) \in Job /\ View(w, j).mail = jobs[j].mail /\ View(w, j).kind = jobs[j].kind
BY NamesAssumption DEF TypeOK, RowsOK, LocksOK, View, Created

(* The row a worker writes when it finishes a job.                         *)
LEMMA MarkJobTyped ==
  ASSUME TypeOK, NEW w \in Workers, NEW status \in {"success", "failed"},
         worker[w].pc \in {"succeed", "failjob"}, MarkJob(w, status)
  PROVE  TypeOK' /\ JobsKept
<1>. USE NamesAssumption DEF TypeOK
<1>. DEFINE j == worker[w].job
<1>1. j \in JobId /\ j # NoJob /\ Created(j)  BY InJob
<1>2. View(w, j) \in Job /\ View(w, j).mail = jobs[j].mail /\ View(w, j).kind = jobs[j].kind
  BY <1>1, ViewTyped
<1>3. Update(w, j, WithStatus(View(w, j), status))  BY DEF MarkJob
<1>4. PICK r \in Job : r.mail = jobs[j].mail /\ r.kind = jobs[j].kind /\ Update(w, j, r)
  BY <1>2, <1>3, JobRewritten
<1>5. /\ JobsKept
      /\ jobs' \in [JobId -> Job \cup {Unused}]
      /\ draft' \in [JobId -> Job \cup {Unused}]
      /\ lock' \in [JobId -> Workers \cup {NoWorker}]
      /\ \A i \in JobId :
           IF lock'[i] = NoWorker THEN draft'[i] = Unused
           ELSE /\ worker[lock'[i]].open
                /\ jobs'[i] # Unused /\ draft'[i] # Unused
                /\ draft'[i].mail = jobs'[i].mail /\ draft'[i].kind = jobs'[i].kind
  BY <1>1, <1>4, UpdateTyped
<1>6. worker[w] \in WorkerState  BY DEF WorkersOK
<1>7. PICK s \in WorkerState :
        s.pc = "claim" /\ s.job = NoJob /\ s.open = worker[w].open /\ worker' = [worker EXCEPT ![w] = s]
  <2>1. PICK v \in WorkerState : v = worker[w]  BY <1>6
  <2>. DEFINE q == [v EXCEPT !.pc = "claim", !.job = NoJob]
  <2>2. q \in WorkerState /\ q.pc = "claim" /\ q.job = NoJob /\ q.open = v.open
    BY <2>1 DEF WorkerState, NoJob
  <2>3. worker' = [worker EXCEPT ![w] = q]  BY <2>1 DEF MarkJob, NextTurn
  <2>. HIDE DEF q
  <2>. QED  BY <2>1, <2>2, <2>3
<1>8. WorkersOK'  BY <1>5, <1>7, WorkerMoved DEF PlacedWorker
<1>9. \A v \in Workers : worker[v].open => worker'[v].open  BY <1>7, OpenKept
<1>10. UNCHANGED <<current, failing, execs, crashes>>  BY DEF MarkJob
<1>11. RowsOK'  BY <1>5, <1>10 DEF RowsOK
<1>12. LocksOK'  BY <1>5, <1>9, <1>10 DEF LocksOK, Created
<1>. QED  BY <1>5, <1>8, <1>11, <1>12
(* The end of the connection.                                              *)
LEMMA ReleaseTyped ==
  ASSUME TypeOK, NEW w \in Workers, Release(w), JobsKept
  PROVE  WorkersOK' /\ LocksOK'
<1>. USE NamesAssumption DEF TypeOK
<1>1. worker' = [worker EXCEPT ![w] = Idle]  BY DEF Release
<1>2. WorkersOK'  BY <1>1, IdleTyped, WorkerMoved DEF PlacedWorker
<1>3. \A v \in Workers : v # w => worker'[v] = worker[v]  BY <1>1 DEF WorkersOK
<1>4. /\ draft' \in [JobId -> Job \cup {Unused}]
      /\ lock' \in [JobId -> Workers \cup {NoWorker}]
      /\ failing' \in [Mails -> [Kinds -> Workers \cup {NoWorker}]]
  BY DEF Release, LocksOK
<1>5. ASSUME NEW j \in JobId
      PROVE  IF lock'[j] = NoWorker THEN draft'[j] = Unused
             ELSE /\ worker'[lock'[j]].open
                  /\ jobs'[j] # Unused /\ draft'[j] # Unused
                  /\ draft'[j].mail = jobs'[j].mail /\ draft'[j].kind = jobs'[j].kind
  <2>1. CASE lock[j] = w
    BY <2>1 DEF Release
  <2>2. CASE lock[j] # w
    <3>1. lock'[j] = lock[j] /\ draft'[j] = draft[j]  BY <2>2 DEF Release
    <3>. QED  BY <1>3, <2>2, <3>1 DEF LocksOK, JobsKept, Created
  <2>. QED  BY <2>1, <2>2
<1>6. ASSUME NEW m \in Mails, NEW k \in Kinds, failing'[m][k] # NoWorker
      PROVE  worker'[failing'[m][k]].open
  <2>1. failing'[m][k] = failing[m][k] /\ failing[m][k] # w  BY <1>6 DEF Release
  <2>. QED  BY <1>3, <1>6, <2>1 DEF LocksOK
<1>7. LocksOK'  BY <1>4, <1>5, <1>6 DEF LocksOK, Created
<1>. QED  BY <1>2, <1>7

LEMMA ReturnTyped ==
  ASSUME TypeOK, NEW w \in Workers, Return(w)
  PROVE  TypeOK' /\ JobsKept
<1>. USE NamesAssumption DEF TypeOK
<1>1. ASSUME NEW j \in JobId
      PROVE  /\ jobs'[j] \in Job \cup {Unused}
             /\ Created(j) => /\ jobs'[j] # Unused
                              /\ jobs'[j].mail = jobs[j].mail
                              /\ jobs'[j].kind = jobs[j].kind
  <2>1. jobs'[j] = View(w, j)  BY DEF Return
  <2>2. CASE Created(j)
    BY <2>1, <2>2, ViewTyped, UnusedIsNoJob
  <2>3. CASE ~Created(j)
    BY <2>1, <2>3 DEF View, RowsOK, LocksOK, Created
  <2>. QED  BY <2>2, <2>3
<1>2. JobsKept  BY <1>1 DEF JobsKept
<1>3. jobs' \in [JobId -> Job \cup {Unused}]  BY <1>1 DEF Return
<1>4. current' \in [Mails -> [Kinds -> {"none", "pending", "success", "failed"}]]
  BY DEF Return, RowsOK
<1>5. RowsOK'  BY <1>3, <1>4 DEF RowsOK, Return
<1>6. WorkersOK' /\ LocksOK'  BY <1>2, ReleaseTyped DEF Return
<1>. QED  BY <1>2, <1>5, <1>6

LEMMA CrashTyped ==
  ASSUME TypeOK, NEW w \in Workers, Crash(w)
  PROVE  TypeOK' /\ JobsKept
<1>. USE DEF TypeOK
<1>1. UNCHANGED <<jobs, current, execs>>  BY DEF Crash
<1>2. JobsKept  BY <1>1 DEF JobsKept, Created
<1>3. RowsOK'  BY <1>1 DEF RowsOK, Crash
<1>4. WorkersOK' /\ LocksOK'  BY <1>2, ReleaseTyped DEF Crash
<1>. QED  BY <1>2, <1>3, <1>4

LEMMA StepTyped ==
  ASSUME TypeOK, [Next]_vars
  PROVE  TypeOK' /\ JobsKept
<1>1. CASE \E m \in Mails, k \in Kinds : CreateEmailAnalysisJob(m, k)
  BY <1>1, CreateTyped
<1>2. CASE \E j \in JobId : Age(j)
  BY <1>2, AgeTyped
<1>3. ASSUME NEW w \in Workers,
             RunPending(w) \/ (\E j \in JobId : RunOne(w, j)) \/ Work(w) \/ Crash(w)
      PROVE  TypeOK' /\ JobsKept
  <2>1. CASE RunPending(w) \/ (\E j \in JobId : RunOne(w, j))  BY <2>1, CallTyped
  <2>2. CASE RecoverStaleJobs(w)  BY <2>2, RecoverTyped
  <2>3. CASE ClaimNextJob(w)  BY <2>3, ClaimTyped
  <2>4. CASE CurrentAiResult(w)  BY <2>4, LookupTyped
  <2>5. CASE RunMailDecision(w)  BY <2>5, DecideTyped
  <2>6. CASE SaveDecision(w)  BY <2>6, SaveTyped
  <2>7. CASE MarkJobSuccess(w)  BY <2>7, MarkJobTyped DEF MarkJobSuccess, At
  <2>8. CASE MarkAnalysisFailed(w)  BY <2>8, MarkAnalysisTyped
  <2>9. CASE MarkJobFailed(w)  BY <2>9, MarkJobTyped DEF MarkJobFailed, At
  <2>10. CASE Return(w)  BY <2>10, ReturnTyped
  <2>11. CASE Crash(w)  BY <2>11, CrashTyped
  <2>. QED
    BY <1>3, <2>1, <2>2, <2>3, <2>4, <2>5, <2>6, <2>7, <2>8, <2>9, <2>10, <2>11 DEF Work
<1>4. CASE UNCHANGED vars
  <2>1. UNCHANGED <<jobs, current, draft, lock, failing, worker, execs, crashes>>
    BY <1>4 DEF vars
  <2>2. JobsKept  BY <2>1 DEF JobsKept, Created
  <2>3. RowsOK'  BY <2>1 DEF TypeOK, RowsOK
  <2>4. LocksOK'  BY <2>1, <2>2, LocksStay, NamesAssumption DEF TypeOK
  <2>5. WorkersOK'  BY <2>1, <2>2, WorkersStay DEF TypeOK
  <2>. QED  BY <2>2, <2>3, <2>4, <2>5 DEF TypeOK
<1>5. CASE \E m \in Mails : DecideOnRequest(m)  BY <1>5, RequestTyped
<1>. QED  BY <1>1, <1>2, <1>3, <1>4, <1>5 DEF Next

LEMMA InitTyped == Init => TypeOK
<1>. SUFFICES ASSUME Init PROVE TypeOK
  OBVIOUS
<1>1. RowsOK  BY DEF Init, RowsOK
<1>2. LocksOK  BY NamesAssumption DEF Init, LocksOK
<1>3. WorkersOK  BY IdleTyped DEF Init, WorkersOK, At
<1>. QED  BY <1>1, <1>2, <1>3 DEF TypeOK

(* Every reachable state is well typed, and every lock on a job's row is   *)
(* held by a worker whose transaction is open, over a row of the same job. *)
THEOREM JobsTypeCorrect == Spec => []TypeOK
<1>1. Init => TypeOK  BY InitTyped
<1>2. TypeOK /\ [Next]_vars => TypeOK'  BY StepTyped
<1>. QED  BY <1>1, <1>2, PTL DEF Spec
-----------------------------------------------------------------------------
(* Attempts and the lifecycle of a job.                                    *)

(* The strengthening: a pending job has attempts left, and an uncommitted  *)
(* claim stands over a row that is still pending, because it keeps every   *)
(* other writer away.                                                      *)
RowSound(row) ==
  /\ row.attempt <= MaxAttempts
  /\ row.status = "pending" => row.attempt < MaxAttempts
DraftSound(row, over) ==
  /\ row.attempt <= MaxAttempts
  /\ row.status # "pending"
  /\ row.status = "running" => over.status = "pending"
QueueInv ==
  \A j \in JobId :
    /\ Created(j) => RowSound(jobs[j])
    /\ lock[j] # NoWorker => DraftSound(draft[j], jobs[j])

(* What a step may do to a job: finish it, but never revive it.            *)
JobsAdvance ==
  \A j \in JobId :
    /\ Finished(j) => jobs'[j] # Unused /\ jobs'[j].status \in {"success", "failed"}
    /\ jobs'[j] # Unused /\ jobs'[j].status \in {"pending", "running"} => Active(j) \/ ~Created(j)

LEMMA QueueStays ==
  ASSUME QueueInv, UNCHANGED <<jobs, draft, lock>>
  PROVE  QueueInv' /\ JobsAdvance
BY DEF QueueInv, JobsAdvance, Created, Finished, Active

LEMMA CreateQueue ==
  ASSUME TypeOK, QueueInv, NEW m \in Mails, NEW k \in Kinds, CreateEmailAnalysisJob(m, k)
  PROVE  QueueInv' /\ JobsAdvance
<1>1. PICK j \in JobId :
        /\ ~Created(j)
        /\ jobs' = [jobs EXCEPT ![j] = [mail |-> m, kind |-> k, status |-> "pending",
                                       attempt |-> 0, stale |-> FALSE]]
  BY DEF CreateEmailAnalysisJob
<1>2. UNCHANGED <<draft, lock>>  BY DEF CreateEmailAnalysisJob
<1>3. lock[j] = NoWorker  BY <1>1 DEF TypeOK, LocksOK
<1>4. jobs'[j].status = "pending" /\ jobs'[j].attempt = 0
  BY <1>1 DEF TypeOK, RowsOK
<1>5. \A i \in JobId : i # j => jobs'[i] = jobs[i]  BY <1>1 DEF TypeOK, RowsOK
<1>6. RowSound(jobs'[j])  BY <1>4 DEF RowSound
<1>7. QueueInv'  BY <1>2, <1>3, <1>5, <1>6 DEF QueueInv, Created
<1>8. JobsAdvance  BY <1>1, <1>5 DEF JobsAdvance, Created, Finished, Active
<1>. QED  BY <1>7, <1>8

LEMMA AgeQueue ==
  ASSUME TypeOK, QueueInv, NEW j \in JobId, Age(j)
  PROVE  QueueInv' /\ JobsAdvance
<1>1. jobs[j] \in Job  BY CreatedTyped DEF Age
<1>2. PICK r \in Job :
        r.status = jobs[j].status /\ r.attempt = jobs[j].attempt /\ jobs' = [jobs EXCEPT ![j] = r]
  BY <1>1, JobAged DEF Age
<1>3. UNCHANGED <<draft, lock>>  BY DEF Age
<1>4. jobs'[j] = r /\ \A i \in JobId : i # j => jobs'[i] = jobs[i]
  BY <1>2 DEF TypeOK, RowsOK
<1>5. QueueInv'  BY <1>2, <1>3, <1>4 DEF QueueInv, RowSound, DraftSound, Created, Age
<1>6. JobsAdvance  BY <1>2, <1>4 DEF JobsAdvance, Created, Finished, Active, Age
<1>. QED  BY <1>5, <1>6

LEMMA RecoverQueue ==
  ASSUME TypeOK, QueueInv, NEW w \in Workers, RecoverStaleJobs(w)
  PROVE  QueueInv' /\ JobsAdvance
<1>1. UNCHANGED <<draft, lock>>  BY DEF RecoverStaleJobs
<1>2. ASSUME NEW j \in JobId
      PROVE  \/ jobs'[j] = jobs[j]
             \/ /\ Recoverable(j) /\ lock[j] = NoWorker
                /\ jobs'[j].status = "pending" /\ jobs'[j].attempt = jobs[j].attempt
  <2>1. CASE Recoverable(j)
    <3>1. jobs[j] \in Job  BY <2>1, CreatedTyped DEF Recoverable
    <3>2. jobs'[j] = WithStatus(jobs[j], "pending")  BY <2>1 DEF RecoverStaleJobs
    <3>. QED  BY <2>1, <3>1, <3>2, JobRewritten DEF RecoverStaleJobs
  <2>2. CASE ~Recoverable(j)  BY <2>2 DEF RecoverStaleJobs
  <2>. QED  BY <2>1, <2>2
<1>3. QueueInv'
  BY <1>1, <1>2 DEF QueueInv, RowSound, DraftSound, Created, Recoverable
<1>4. JobsAdvance
  BY <1>2 DEF JobsAdvance, Created, Finished, Active, Recoverable
<1>. QED  BY <1>3, <1>4

(* Rewriting a row: a claim of a pending job, or the end of any job.       *)
LEMMA UpdateQueue ==
  ASSUME TypeOK, QueueInv, NEW w \in Workers, NEW j \in JobId, Created(j), NEW r \in Job,
         r.attempt <= MaxAttempts, Update(w, j, r),
         \/ r.status = "running" /\ jobs[j].status = "pending"
         \/ r.status \in {"success", "failed"}
  PROVE  QueueInv' /\ JobsAdvance
<1>. USE UnusedIsNoJob
<1>1. CASE worker[w].open
  <2>1. UNCHANGED jobs  BY <1>1 DEF Update
  <2>2. /\ draft'[j] = r
        /\ \A i \in JobId : i # j => draft'[i] = draft[i] /\ lock'[i] = lock[i]
    BY <1>1 DEF Update, TypeOK, LocksOK
  <2>3. DraftSound(r, jobs[j])  BY DEF DraftSound
  <2>4. QueueInv'  BY <2>1, <2>2, <2>3 DEF QueueInv, Created
  <2>5. JobsAdvance  BY <2>1 DEF JobsAdvance, Created, Finished, Active
  <2>. QED  BY <2>4, <2>5
<1>2. CASE ~worker[w].open
  <2>1. lock[j] = NoWorker  BY <1>2 DEF Update, TypeOK, LocksOK
  <2>2. UNCHANGED <<draft, lock>>  BY <1>2 DEF Update
  <2>3. jobs'[j] = r /\ \A i \in JobId : i # j => jobs'[i] = jobs[i]
    BY <1>2 DEF Update, TypeOK, RowsOK
  <2>4. RowSound(r)  BY DEF RowSound
  <2>5. QueueInv'  BY <2>1, <2>2, <2>3, <2>4 DEF QueueInv, Created
  <2>6. JobsAdvance  BY <2>3 DEF JobsAdvance, Created, Finished, Active
  <2>. QED  BY <2>5, <2>6
<1>. QED  BY <1>1, <1>2

LEMMA ClaimQueue ==
  ASSUME TypeOK, QueueInv, NEW w \in Workers, ClaimNextJob(w)
  PROVE  QueueInv' /\ JobsAdvance
<1>1. PICK j \in JobId :
        /\ Claimable(w, j)
        /\ Update(w, j, [jobs[j] EXCEPT !.status = "running", !.attempt = @ + 1])
  BY DEF ClaimNextJob
<1>2. Created(j) /\ jobs[j] \in Job /\ jobs[j].status = "pending"
  BY <1>1, CreatedTyped DEF Claimable, Pending
<1>3. PICK r \in Job :
        r.status = "running" /\ r.attempt = jobs[j].attempt + 1 /\ Update(w, j, r)
  BY <1>1, <1>2, JobClaimed
<1>4. jobs[j].attempt \in Nat /\ jobs[j].attempt < MaxAttempts
  BY <1>2 DEF QueueInv, RowSound, Job
<1>5. r.attempt <= MaxAttempts  BY <1>3, <1>4
<1>. QED  BY <1>2, <1>3, <1>5, UpdateQueue

LEMMA MarkJobQueue ==
  ASSUME TypeOK, QueueInv, NEW w \in Workers, NEW status \in {"success", "failed"},
         worker[w].pc \in {"succeed", "failjob"}, MarkJob(w, status)
  PROVE  QueueInv' /\ JobsAdvance
<1>. DEFINE j == worker[w].job
<1>1. j \in JobId /\ Created(j)  BY InJob
<1>2. View(w, j) \in Job  BY <1>1, ViewTyped
<1>3. View(w, j).attempt <= MaxAttempts
  BY <1>1, NamesAssumption DEF View, QueueInv, RowSound, DraftSound
<1>4. Update(w, j, WithStatus(View(w, j), status))  BY DEF MarkJob
<1>5. PICK r \in Job :
        r.status = status /\ r.attempt = View(w, j).attempt /\ Update(w, j, r)
  BY <1>2, <1>4, JobRewritten
<1>6. r.attempt <= MaxAttempts  BY <1>3, <1>5
<1>. QED  BY <1>1, <1>5, <1>6, UpdateQueue

LEMMA ReturnQueue ==
  ASSUME TypeOK, QueueInv, NEW w \in Workers, Return(w)
  PROVE  QueueInv' /\ JobsAdvance
<1>. USE NamesAssumption
<1>1. ASSUME NEW j \in JobId
      PROVE  /\ jobs'[j] # Unused => RowSound(jobs'[j])
             /\ lock'[j] # NoWorker => DraftSound(draft'[j], jobs'[j])
             /\ Finished(j) => jobs'[j] # Unused /\ jobs'[j].status \in {"success", "failed"}
             /\ jobs'[j] # Unused /\ jobs'[j].status \in {"pending", "running"} =>
                  Active(j) \/ ~Created(j)
  <2>1. CASE lock[j] = w
    <3>1. jobs'[j] = draft[j] /\ lock'[j] = NoWorker
      BY <2>1 DEF Return, Release, View
    <3>2. Created(j) /\ draft[j] # Unused /\ draft[j] \in Job /\ jobs[j] \in Job
      BY <2>1 DEF TypeOK, LocksOK, RowsOK, Created
    <3>3. DraftSound(draft[j], jobs[j])  BY <2>1 DEF QueueInv
    <3>. QED  BY <3>1, <3>2, <3>3 DEF DraftSound, RowSound, Finished, Active, Job
  <2>2. CASE lock[j] # w
    <3>1. jobs'[j] = jobs[j] /\ lock'[j] = lock[j] /\ draft'[j] = draft[j]
      BY <2>2 DEF Return, Release, View
    <3>. QED  BY <3>1 DEF QueueInv, Created, Finished, Active
  <2>. QED  BY <2>1, <2>2
<1>2. QueueInv'  BY <1>1 DEF QueueInv, Created
<1>3. JobsAdvance  BY <1>1 DEF JobsAdvance
<1>. QED  BY <1>2, <1>3

LEMMA CrashQueue ==
  ASSUME QueueInv, NEW w \in Workers, Crash(w)
  PROVE  QueueInv' /\ JobsAdvance
<1>1. UNCHANGED jobs  BY DEF Crash
<1>2. \A j \in JobId : lock'[j] # NoWorker => lock'[j] = lock[j] /\ draft'[j] = draft[j]
  BY DEF Crash, Release
<1>3. QueueInv'  BY <1>1, <1>2 DEF QueueInv, Created
<1>4. JobsAdvance  BY <1>1 DEF JobsAdvance, Created, Finished, Active
<1>. QED  BY <1>3, <1>4

LEMMA StepQueue ==
  ASSUME TypeOK, QueueInv, [Next]_vars
  PROVE  QueueInv' /\ JobsAdvance
<1>1. CASE \E m \in Mails, k \in Kinds : CreateEmailAnalysisJob(m, k)
  BY <1>1, CreateQueue
<1>2. CASE \E j \in JobId : Age(j)
  BY <1>2, AgeQueue
<1>3. ASSUME NEW w \in Workers,
             RunPending(w) \/ (\E j \in JobId : RunOne(w, j)) \/ Work(w) \/ Crash(w)
      PROVE  QueueInv' /\ JobsAdvance
  <2>1. CASE RunPending(w) \/ (\E j \in JobId : RunOne(w, j))
    BY <2>1, QueueStays DEF RunPending, RunOne
  <2>2. CASE RecoverStaleJobs(w)  BY <2>2, RecoverQueue
  <2>3. CASE ClaimNextJob(w)  BY <2>3, ClaimQueue
  <2>4. CASE CurrentAiResult(w)  BY <2>4, QueueStays DEF CurrentAiResult
  <2>5. CASE RunMailDecision(w)  BY <2>5, QueueStays DEF RunMailDecision
  <2>6. CASE SaveDecision(w)  BY <2>6, QueueStays DEF SaveDecision
  <2>7. CASE MarkJobSuccess(w)  BY <2>7, MarkJobQueue DEF MarkJobSuccess, At
  <2>8. CASE MarkAnalysisFailed(w)  BY <2>8, QueueStays DEF MarkAnalysisFailed
  <2>9. CASE MarkJobFailed(w)  BY <2>9, MarkJobQueue DEF MarkJobFailed, At
  <2>10. CASE Return(w)  BY <2>10, ReturnQueue
  <2>11. CASE Crash(w)  BY <2>11, CrashQueue
  <2>. QED
    BY <1>3, <2>1, <2>2, <2>3, <2>4, <2>5, <2>6, <2>7, <2>8, <2>9, <2>10, <2>11 DEF Work
<1>4. CASE UNCHANGED vars
  BY <1>4, QueueStays DEF vars
<1>5. CASE \E m \in Mails : DecideOnRequest(m)  BY <1>5, QueueStays DEF DecideOnRequest
<1>. QED  BY <1>1, <1>2, <1>3, <1>4, <1>5 DEF Next

LEMMA QueueInvariant == Spec => [](TypeOK /\ QueueInv)
<1>1. Init => TypeOK /\ QueueInv
  BY InitTyped DEF Init, QueueInv, Created
<1>2. TypeOK /\ QueueInv /\ [Next]_vars => (TypeOK /\ QueueInv)'
  BY StepTyped, StepQueue
<1>. QED  BY <1>1, <1>2, PTL DEF Spec

(* No job is ever attempted, by its own count, more often than max_attempts *)
(* allows, whatever crashes and recoveries do.                             *)
THEOREM AttemptsNeverExceeded == Spec => []AttemptsBounded
<1>1. TypeOK /\ QueueInv => AttemptsBounded
  BY DEF QueueInv, RowSound, DraftSound, AttemptsBounded
<1>. QED  BY <1>1, QueueInvariant, PTL

(* A job that has succeeded or failed is never pending or running again.   *)
THEOREM FinishedIsFinal == Spec => FinishedStaysFinished
<1>1. TypeOK /\ QueueInv /\ [Next]_vars => \A j \in JobId : Finished(j) => Finished(j)'
  BY StepQueue DEF JobsAdvance, Finished, Created
<1>2. TypeOK /\ QueueInv /\ [Next]_vars => [\A j \in JobId : Finished(j) => Finished(j)']_vars
  BY <1>1
<1>. QED  BY <1>2, QueueInvariant, PTL DEF Spec, FinishedStaysFinished
-----------------------------------------------------------------------------
(* One active job per mail and type.                                       *)

(* Only a registration uses a new row.                                     *)
NoNewJob == \A j \in JobId : ~Created(j) => jobs'[j] = Unused

LEMMA UpdateNothingNew ==
  ASSUME TypeOK, NEW w, NEW j \in JobId, Created(j), NEW r, Update(w, j, r)
  PROVE  NoNewJob
BY DEF Update, NoNewJob, Created, TypeOK, RowsOK

LEMMA OnlyRegistrationAdds ==
  ASSUME TypeOK, [Next]_vars
  PROVE  NoNewJob \/ (\E m \in Mails, k \in Kinds : CreateEmailAnalysisJob(m, k))
<1>. USE NamesAssumption
<1>1. ASSUME UNCHANGED jobs PROVE NoNewJob
  BY <1>1 DEF NoNewJob, Created
<1>2. CASE \E j \in JobId : Age(j)
  BY <1>2 DEF Age, NoNewJob, Created, TypeOK, RowsOK
<1>3. ASSUME NEW w \in Workers,
             RunPending(w) \/ (\E j \in JobId : RunOne(w, j)) \/ Work(w) \/ Crash(w)
      PROVE  NoNewJob
  <2>1. CASE RunPending(w) \/ (\E j \in JobId : RunOne(w, j))
    BY <1>1, <2>1 DEF RunPending, RunOne
  <2>2. CASE RecoverStaleJobs(w)
    BY <2>2 DEF RecoverStaleJobs, Recoverable, NoNewJob, Created
  <2>3. CASE ClaimNextJob(w)
    <3>1. PICK j \in JobId :
            /\ Claimable(w, j)
            /\ Update(w, j, [jobs[j] EXCEPT !.status = "running", !.attempt = @ + 1])
      BY <2>3 DEF ClaimNextJob
    <3>2. Created(j)  BY <3>1 DEF Claimable, Pending
    <3>. QED  BY <3>1, <3>2, UpdateNothingNew
  <2>4. CASE CurrentAiResult(w)  BY <1>1, <2>4 DEF CurrentAiResult
  <2>5. CASE RunMailDecision(w)  BY <1>1, <2>5 DEF RunMailDecision
  <2>6. CASE SaveDecision(w)  BY <1>1, <2>6 DEF SaveDecision
  <2>7. CASE MarkJobSuccess(w)
    BY <2>7, InJob, UpdateNothingNew DEF MarkJobSuccess, At, MarkJob
  <2>8. CASE MarkAnalysisFailed(w)  BY <1>1, <2>8 DEF MarkAnalysisFailed
  <2>9. CASE MarkJobFailed(w)
    BY <2>9, InJob, UpdateNothingNew DEF MarkJobFailed, At, MarkJob
  <2>10. CASE Return(w)
    BY <2>10 DEF Return, View, NoNewJob, Created, TypeOK, LocksOK
  <2>11. CASE Crash(w)  BY <1>1, <2>11 DEF Crash
  <2>. QED
    BY <1>3, <2>1, <2>2, <2>3, <2>4, <2>5, <2>6, <2>7, <2>8, <2>9, <2>10, <2>11 DEF Work
<1>4. CASE UNCHANGED vars
  BY <1>1, <1>4 DEF vars
<1>5. CASE \E m \in Mails : DecideOnRequest(m)  BY <1>1, <1>5 DEF DecideOnRequest
<1>. QED  BY <1>2, <1>3, <1>4, <1>5 DEF Next

LEMMA StepOneActive ==
  ASSUME TypeOK, QueueInv, OneActiveJob, [Next]_vars
  PROVE  OneActiveJob'
<1>1. JobsKept /\ JobsAdvance  BY StepTyped, StepQueue
<1>2. CASE NoNewJob
  <2>1. ASSUME NEW j \in JobId, Active(j)'
        PROVE  Active(j) /\ jobs'[j].mail = jobs[j].mail /\ jobs'[j].kind = jobs[j].kind
    BY <1>1, <1>2, <2>1 DEF NoNewJob, JobsAdvance, JobsKept, Active, Created
  <2>. QED  BY <2>1 DEF OneActiveJob
<1>3. CASE \E m \in Mails, k \in Kinds : CreateEmailAnalysisJob(m, k)
  <2>1. PICK m \in Mails, k \in Kinds : CreateEmailAnalysisJob(m, k)  BY <1>3
  <2>2. PICK n \in JobId :
          /\ ~Created(n)
          /\ jobs' = [jobs EXCEPT ![n] = [mail |-> m, kind |-> k, status |-> "pending",
                                         attempt |-> 0, stale |-> FALSE]]
    BY <2>1 DEF CreateEmailAnalysisJob
  <2>3. jobs'[n].mail = m /\ jobs'[n].kind = k
    BY <2>2 DEF TypeOK, RowsOK
  <2>4. \A j \in JobId : j # n => jobs'[j] = jobs[j]  BY <2>2 DEF TypeOK, RowsOK
  <2>5. \A j \in JobId : Active(j) => ~(jobs[j].mail = m /\ jobs[j].kind = k)
    BY <2>1 DEF CreateEmailAnalysisJob, ActiveEmailAnalysisJob
  <2>6. ASSUME NEW i \in JobId, NEW j \in JobId, Active(i)', Active(j)',
               jobs'[i].mail = jobs'[j].mail, jobs'[i].kind = jobs'[j].kind
        PROVE  i = j
    <3>1. CASE i = n \/ j = n
      BY <2>3, <2>4, <2>5, <2>6, <3>1 DEF Active, Created
    <3>2. CASE i # n /\ j # n
      BY <2>4, <2>6, <3>2 DEF OneActiveJob, Active, Created
    <3>. QED  BY <3>1, <3>2
  <2>. QED  BY <2>6 DEF OneActiveJob
<1>. QED  BY <1>2, <1>3, OnlyRegistrationAdds

(* However registrations, recoveries and late finishes interleave, a mail  *)
(* never has two active jobs of a type.                                    *)
THEOREM OneJobActive == Spec => []OneActiveJob
<1>1. Init => OneActiveJob  BY DEF Init, OneActiveJob, Active, Created
<1>2. TypeOK /\ QueueInv /\ OneActiveJob /\ [Next]_vars => OneActiveJob'
  BY StepOneActive
<1>. QED  BY <1>1, <1>2, QueueInvariant, PTL DEF Spec
-----------------------------------------------------------------------------
(* The queue its readers see.                                              *)

(* The strengthening: an uncommitted row is one move ahead of the row it   *)
(* will replace, so that a commit shows a single move however much its     *)
(* transaction has done.                                                   *)
Follows(r, s) == Queue!Taken(r, s) \/ Queue!Ended(r, s)
DraftFollows == \A j \in JobId : lock[j] # NoWorker => Follows(jobs[j], draft[j])

(* What a step may do to the row of a job.                                 *)
SameMove(r, s) == s.status = r.status /\ s.attempt = r.attempt
JobsMove ==
  \A j \in JobId : Created(j) =>
    \/ SameMove(jobs[j], jobs'[j])
    \/ Follows(jobs[j], jobs'[j])
    \/ Queue!Requeued(jobs[j], jobs'[j])

LEMMA MovesStay ==
  ASSUME DraftFollows, UNCHANGED <<jobs, draft, lock>>
  PROVE  DraftFollows' /\ JobsMove
BY DEF DraftFollows, JobsMove, SameMove

LEMMA CreateMoves ==
  ASSUME TypeOK, DraftFollows, NEW m \in Mails, NEW k \in Kinds, CreateEmailAnalysisJob(m, k)
  PROVE  DraftFollows' /\ JobsMove
<1>1. PICK j \in JobId :
        /\ ~Created(j)
        /\ jobs' = [jobs EXCEPT ![j] = [mail |-> m, kind |-> k, status |-> "pending",
                                       attempt |-> 0, stale |-> FALSE]]
  BY DEF CreateEmailAnalysisJob
<1>2. UNCHANGED <<draft, lock>>  BY DEF CreateEmailAnalysisJob
<1>3. lock[j] = NoWorker  BY <1>1 DEF TypeOK, LocksOK
<1>4. \A i \in JobId : i # j => jobs'[i] = jobs[i]  BY <1>1 DEF TypeOK, RowsOK
<1>5. DraftFollows'  BY <1>2, <1>3, <1>4 DEF DraftFollows
<1>6. JobsMove  BY <1>1, <1>4 DEF JobsMove, SameMove
<1>. QED  BY <1>5, <1>6

LEMMA AgeMoves ==
  ASSUME TypeOK, DraftFollows, NEW j \in JobId, Age(j)
  PROVE  DraftFollows' /\ JobsMove
<1>1. jobs[j] \in Job  BY CreatedTyped DEF Age
<1>2. PICK r \in Job :
        r.status = jobs[j].status /\ r.attempt = jobs[j].attempt /\ jobs' = [jobs EXCEPT ![j] = r]
  BY <1>1, JobAged DEF Age
<1>3. UNCHANGED <<draft, lock>>  BY DEF Age
<1>4. \A i \in JobId : jobs'[i].status = jobs[i].status /\ jobs'[i].attempt = jobs[i].attempt
  BY <1>2 DEF TypeOK, RowsOK
<1>5. DraftFollows'
  BY <1>3, <1>4 DEF DraftFollows, Follows, Queue!Taken, Queue!Ended
<1>6. JobsMove  BY <1>4 DEF JobsMove, SameMove
<1>. QED  BY <1>5, <1>6

LEMMA RecoverMoves ==
  ASSUME TypeOK, DraftFollows, NEW w \in Workers, RecoverStaleJobs(w)
  PROVE  DraftFollows' /\ JobsMove
<1>1. UNCHANGED <<draft, lock>>  BY DEF RecoverStaleJobs
<1>2. ASSUME NEW j \in JobId
      PROVE  \/ jobs'[j] = jobs[j]
             \/ lock[j] = NoWorker /\ Queue!Requeued(jobs[j], jobs'[j])
  <2>1. CASE Recoverable(j)
    <3>1. jobs[j] \in Job  BY <2>1, CreatedTyped DEF Recoverable
    <3>2. jobs'[j] = WithStatus(jobs[j], "pending")  BY <2>1 DEF RecoverStaleJobs
    <3>3. jobs'[j].status = "pending" /\ jobs'[j].attempt = jobs[j].attempt
      BY <3>1, <3>2, JobRewritten
    <3>4. lock[j] = NoWorker  BY <2>1 DEF RecoverStaleJobs
    <3>. QED  BY <2>1, <3>3, <3>4 DEF Recoverable, Queue!Requeued
  <2>2. CASE ~Recoverable(j)  BY <2>2 DEF RecoverStaleJobs
  <2>. QED  BY <2>1, <2>2
<1>3. DraftFollows'  BY <1>1, <1>2 DEF DraftFollows
<1>4. JobsMove  BY <1>2 DEF JobsMove, SameMove
<1>. QED  BY <1>3, <1>4

(* Rewriting a row, committed at once or held back.                        *)
LEMMA UpdateMoves ==
  ASSUME TypeOK, DraftFollows, NEW w \in Workers, NEW j \in JobId, Created(j), NEW r \in Job,
         Follows(jobs[j], r), Update(w, j, r)
  PROVE  DraftFollows' /\ JobsMove
<1>1. CASE worker[w].open
  <2>1. UNCHANGED jobs  BY <1>1 DEF Update
  <2>2. /\ draft'[j] = r
        /\ \A i \in JobId : i # j => draft'[i] = draft[i] /\ lock'[i] = lock[i]
    BY <1>1 DEF Update, TypeOK, LocksOK
  <2>3. DraftFollows'  BY <2>1, <2>2 DEF DraftFollows
  <2>4. JobsMove  BY <2>1 DEF JobsMove, SameMove
  <2>. QED  BY <2>3, <2>4
<1>2. CASE ~worker[w].open
  <2>1. lock[j] = NoWorker  BY <1>2 DEF Update, TypeOK, LocksOK
  <2>2. UNCHANGED <<draft, lock>>  BY <1>2 DEF Update
  <2>3. jobs'[j] = r /\ \A i \in JobId : i # j => jobs'[i] = jobs[i]
    BY <1>2 DEF Update, TypeOK, RowsOK
  <2>4. DraftFollows'  BY <2>1, <2>2, <2>3 DEF DraftFollows
  <2>5. JobsMove  BY <2>3 DEF JobsMove, SameMove
  <2>. QED  BY <2>4, <2>5
<1>. QED  BY <1>1, <1>2

LEMMA ClaimMoves ==
  ASSUME TypeOK, DraftFollows, NEW w \in Workers, ClaimNextJob(w)
  PROVE  DraftFollows' /\ JobsMove
<1>1. PICK j \in JobId :
        /\ Claimable(w, j)
        /\ Update(w, j, [jobs[j] EXCEPT !.status = "running", !.attempt = @ + 1])
  BY DEF ClaimNextJob
<1>2. Created(j) /\ jobs[j] \in Job /\ jobs[j].status = "pending"
  BY <1>1, CreatedTyped DEF Claimable, Pending
<1>3. PICK r \in Job :
        r.status = "running" /\ r.attempt = jobs[j].attempt + 1 /\ Update(w, j, r)
  BY <1>1, <1>2, JobClaimed
<1>4. Follows(jobs[j], r)  BY <1>2, <1>3 DEF Follows, Queue!Taken
<1>. QED  BY <1>2, <1>3, <1>4, UpdateMoves

(* A job ends over what its worker sees of it: the committed row, or the   *)
(* claim of this worker that is not committed yet.                         *)
LEMMA MarkJobMoves ==
  ASSUME TypeOK, DraftFollows, NEW w \in Workers, NEW status \in {"success", "failed"},
         worker[w].pc \in {"succeed", "failjob"}, MarkJob(w, status)
  PROVE  DraftFollows' /\ JobsMove
<1>. DEFINE j == worker[w].job
<1>1. j \in JobId /\ Created(j)  BY InJob
<1>2. View(w, j) \in Job  BY <1>1, ViewTyped
<1>3. Update(w, j, WithStatus(View(w, j), status))  BY DEF MarkJob
<1>4. PICK r \in Job :
        r.status = status /\ r.attempt = View(w, j).attempt /\ Update(w, j, r)
  BY <1>2, <1>3, JobRewritten
<1>5. View(w, j) = jobs[j] \/ Follows(jobs[j], View(w, j))
  BY <1>1, NamesAssumption DEF View, DraftFollows
<1>6. Follows(jobs[j], r)
  BY <1>4, <1>5 DEF Follows, Queue!Taken, Queue!Ended
<1>. QED  BY <1>1, <1>4, <1>6, UpdateMoves

LEMMA ReturnMoves ==
  ASSUME TypeOK, DraftFollows, NEW w \in Workers, Return(w)
  PROVE  DraftFollows' /\ JobsMove
<1>1. ASSUME NEW j \in JobId
      PROVE  \/ jobs'[j] = jobs[j] /\ lock'[j] = lock[j] /\ draft'[j] = draft[j]
             \/ lock'[j] = NoWorker /\ Follows(jobs[j], jobs'[j])
  <2>1. CASE lock[j] = w
    <3>1. jobs'[j] = draft[j] /\ lock'[j] = NoWorker
      BY <2>1 DEF Return, Release, View
    <3>. QED  BY <2>1, <3>1, NamesAssumption DEF DraftFollows
  <2>2. CASE lock[j] # w
    BY <2>2 DEF Return, Release, View
  <2>. QED  BY <2>1, <2>2
<1>2. DraftFollows'  BY <1>1 DEF DraftFollows
<1>3. JobsMove  BY <1>1 DEF JobsMove, SameMove
<1>. QED  BY <1>2, <1>3

LEMMA CrashMoves ==
  ASSUME DraftFollows, NEW w \in Workers, Crash(w)
  PROVE  DraftFollows' /\ JobsMove
<1>1. UNCHANGED jobs  BY DEF Crash
<1>2. \A j \in JobId : lock'[j] # NoWorker => lock'[j] = lock[j] /\ draft'[j] = draft[j]
  BY DEF Crash, Release
<1>3. DraftFollows'  BY <1>1, <1>2 DEF DraftFollows
<1>4. JobsMove  BY <1>1 DEF JobsMove, SameMove
<1>. QED  BY <1>3, <1>4

LEMMA StepMoves ==
  ASSUME TypeOK, DraftFollows, [Next]_vars
  PROVE  DraftFollows' /\ JobsMove
<1>1. CASE \E m \in Mails, k \in Kinds : CreateEmailAnalysisJob(m, k)
  BY <1>1, CreateMoves
<1>2. CASE \E j \in JobId : Age(j)
  BY <1>2, AgeMoves
<1>3. ASSUME NEW w \in Workers,
             RunPending(w) \/ (\E j \in JobId : RunOne(w, j)) \/ Work(w) \/ Crash(w)
      PROVE  DraftFollows' /\ JobsMove
  <2>1. CASE RunPending(w) \/ (\E j \in JobId : RunOne(w, j))
    BY <2>1, MovesStay DEF RunPending, RunOne
  <2>2. CASE RecoverStaleJobs(w)  BY <2>2, RecoverMoves
  <2>3. CASE ClaimNextJob(w)  BY <2>3, ClaimMoves
  <2>4. CASE CurrentAiResult(w)  BY <2>4, MovesStay DEF CurrentAiResult
  <2>5. CASE RunMailDecision(w)  BY <2>5, MovesStay DEF RunMailDecision
  <2>6. CASE SaveDecision(w)  BY <2>6, MovesStay DEF SaveDecision
  <2>7. CASE MarkJobSuccess(w)  BY <2>7, MarkJobMoves DEF MarkJobSuccess, At
  <2>8. CASE MarkAnalysisFailed(w)  BY <2>8, MovesStay DEF MarkAnalysisFailed
  <2>9. CASE MarkJobFailed(w)  BY <2>9, MarkJobMoves DEF MarkJobFailed, At
  <2>10. CASE Return(w)  BY <2>10, ReturnMoves
  <2>11. CASE Crash(w)  BY <2>11, CrashMoves
  <2>. QED
    BY <1>3, <2>1, <2>2, <2>3, <2>4, <2>5, <2>6, <2>7, <2>8, <2>9, <2>10, <2>11 DEF Work
<1>4. CASE UNCHANGED vars
  BY <1>4, MovesStay DEF vars
<1>5. CASE \E m \in Mails : DecideOnRequest(m)  BY <1>5, MovesStay DEF DecideOnRequest
<1>. QED  BY <1>1, <1>2, <1>3, <1>4, <1>5 DEF Next

(* The fields a reader finds.                                              *)
LEMMA ShownFields ==
  ASSUME NEW r \in Job, r.attempt <= MaxAttempts
  PROVE  /\ Shown(r) \in Queue!Row
         /\ Shown(r) # Unused
         /\ Shown(r).mail = r.mail /\ Shown(r).kind = r.kind
         /\ Shown(r).status = r.status /\ Shown(r).attempt = r.attempt
<1>1. r # Unused  BY UnusedIsNoJob
<1>2. Shown(r) = [mail |-> r.mail, kind |-> r.kind, status |-> r.status, attempt |-> r.attempt]
  BY <1>1, Zenon DEF Shown
<1>3. /\ r.mail \in Mails /\ r.kind \in Kinds /\ r.attempt \in 0 .. MaxAttempts
      /\ r.status \in {"pending", "running", "success", "failed"}
  BY DEF Job
<1>4. Shown(r) \in Queue!Row  BY <1>2, <1>3 DEF Queue!Row
<1>5. Shown(r).status # "unused"  BY <1>2, <1>3
<1>6. Shown(r) # Unused  BY <1>5 DEF Unused
<1>. QED  BY <1>2, <1>4, <1>6

LEMMA ShownUnused == Shown(Unused) = Unused /\ ~Queue!Active(Unused) /\ Queue!Unused = Unused
BY DEF Shown, Unused, Queue!Active, Queue!Unused

(* The table as a reader finds it.                                         *)
TableOf(q) == [j \in JobId |-> Shown(q[j])]
Sound(q) ==
  /\ q \in [JobId -> Job \cup {Unused}]
  /\ \A j \in JobId : q[j] # Unused => q[j].attempt <= MaxAttempts

LEMMA SoundJobs ==
  ASSUME TypeOK, QueueInv
  PROVE  Sound(jobs)
BY DEF TypeOK, RowsOK, QueueInv, RowSound, Created, Sound

LEMMA TableRows ==
  ASSUME NEW q, Sound(q)
  PROVE  /\ TableOf(q) \in [JobId -> Queue!Row \cup {Unused}]
         /\ \A j \in JobId :
              IF q[j] # Unused
              THEN /\ TableOf(q)[j] # Unused
                   /\ TableOf(q)[j].mail = q[j].mail /\ TableOf(q)[j].kind = q[j].kind
                   /\ TableOf(q)[j].status = q[j].status /\ TableOf(q)[j].attempt = q[j].attempt
              ELSE TableOf(q)[j] = Unused
<1>1. ASSUME NEW j \in JobId
      PROVE  /\ Shown(q[j]) \in Queue!Row \cup {Unused}
             /\ IF q[j] # Unused
                THEN /\ Shown(q[j]) # Unused
                     /\ Shown(q[j]).mail = q[j].mail /\ Shown(q[j]).kind = q[j].kind
                     /\ Shown(q[j]).status = q[j].status
                     /\ Shown(q[j]).attempt = q[j].attempt
                ELSE Shown(q[j]) = Unused
  <2>1. CASE q[j] # Unused
    <3>1. q[j] \in Job /\ q[j].attempt <= MaxAttempts  BY <2>1 DEF Sound
    <3>. QED  BY <2>1, <3>1, ShownFields
  <2>2. CASE q[j] = Unused
    BY <2>2, ShownUnused
  <2>. QED  BY <2>1, <2>2
<1>2. \A j \in JobId : TableOf(q)[j] = Shown(q[j])  BY DEF TableOf
<1>3. TableOf(q) \in [JobId -> Queue!Row \cup {Unused}]  BY <1>1 DEF TableOf
<1>. QED  BY <1>1, <1>2, <1>3

(* A registration is one of the queue: its guard is read off the table.    *)
LEMMA RegistrationShown ==
  ASSUME TypeOK, Sound(jobs),
         NEW m \in Mails, NEW k \in Kinds, CreateEmailAnalysisJob(m, k)
  PROVE  \E j \in JobId :
           /\ TableOf(jobs)[j] = Unused
           /\ \A i \in JobId : Queue!Active(TableOf(jobs)[i]) => TableOf(jobs)[i].mail # m \/ TableOf(jobs)[i].kind # k
           /\ TableOf(jobs)' = [TableOf(jobs) EXCEPT ![j] = [mail |-> m, kind |-> k, status |-> "pending",
                                            attempt |-> 0]]
<1>1. PICK j \in JobId :
        /\ ~Created(j)
        /\ jobs' = [jobs EXCEPT ![j] = [mail |-> m, kind |-> k, status |-> "pending",
                                       attempt |-> 0, stale |-> FALSE]]
  BY DEF CreateEmailAnalysisJob
<1>2. TableOf(jobs)[j] = Unused  BY <1>1, TableRows DEF Created
<1>3. ASSUME NEW i \in JobId, Queue!Active(TableOf(jobs)[i])
      PROVE  TableOf(jobs)[i].mail # m \/ TableOf(jobs)[i].kind # k
  <2>1. jobs[i] # Unused  BY <1>3, TableRows, ShownUnused
  <2>2. Active(i)  BY <1>3, <2>1, TableRows DEF Active, Created, Queue!Active
  <2>3. ~(jobs[i].mail = m /\ jobs[i].kind = k)
    BY <2>2 DEF CreateEmailAnalysisJob, ActiveEmailAnalysisJob
  <2>. QED  BY <2>1, <2>3, TableRows
<1>4. ASSUME NEW i \in JobId
      PROVE  Shown(jobs'[i]) = IF i = j THEN [mail |-> m, kind |-> k, status |-> "pending",
                                              attempt |-> 0]
                               ELSE Shown(jobs[i])
  <2>1. CASE i = j
    <3>. DEFINE r == [mail |-> m, kind |-> k, status |-> "pending", attempt |-> 0, stale |-> FALSE]
    <3>1. jobs'[i] = r  BY <1>1, <2>1 DEF TypeOK, RowsOK
    <3>2. r \in Job  BY DEF Job
    <3>3. r # Unused  BY <3>2, UnusedIsNoJob
    <3>4. r.mail = m /\ r.kind = k /\ r.status = "pending" /\ r.attempt = 0
      OBVIOUS
    <3>. HIDE DEF r
    <3>5. Shown(r) = [mail |-> m, kind |-> k, status |-> "pending", attempt |-> 0]
      BY <3>3, <3>4, Zenon DEF Shown
    <3>. QED  BY <2>1, <3>1, <3>5
  <2>2. CASE i # j
    BY <1>1, <2>2 DEF TypeOK, RowsOK
  <2>. QED  BY <2>1, <2>2
<1>5. TableOf(jobs)' = [TableOf(jobs) EXCEPT ![j] = [mail |-> m, kind |-> k, status |-> "pending", attempt |-> 0]]
  BY <1>4 DEF TableOf
<1>. QED  BY <1>2, <1>3, <1>5

(* Whatever else happens shows each job where it was or one move on.       *)
LEMMA CommitShown ==
  ASSUME Sound(jobs), Sound(jobs'), JobsKept, JobsMove, NoNewJob
  PROVE  /\ TableOf(jobs)' \in [JobId -> Queue!Row \cup {Unused}]
         /\ \A j \in JobId :
              TableOf(jobs)'[j] = TableOf(jobs)[j] \/ Queue!Moves(TableOf(jobs)[j], TableOf(jobs)'[j])
<1>1. TableOf(jobs)' = TableOf(jobs')  BY DEF TableOf
<1>2. TableOf(jobs)' \in [JobId -> Queue!Row \cup {Unused}]  BY <1>1, TableRows
<1>3. ASSUME NEW j \in JobId
      PROVE  TableOf(jobs)'[j] = TableOf(jobs)[j] \/ Queue!Moves(TableOf(jobs)[j], TableOf(jobs)'[j])
  <2>. DEFINE r == TableOf(jobs)[j]
              s == TableOf(jobs)'[j]
  <2>1. CASE ~Created(j)
    <3>1. jobs[j] = Unused /\ jobs'[j] = Unused  BY <2>1 DEF NoNewJob, Created
    <3>2. r = Unused /\ s = Unused  BY <1>1, <3>1, TableRows
    <3>. QED  BY <3>2
  <2>2. CASE Created(j)
    <3>1. /\ jobs[j] # Unused /\ jobs'[j] # Unused
          /\ jobs'[j].mail = jobs[j].mail /\ jobs'[j].kind = jobs[j].kind
      BY <2>2 DEF JobsKept, Created
    <3>2. /\ r # Unused /\ s # Unused
          /\ r.mail = jobs[j].mail /\ r.kind = jobs[j].kind
          /\ r.status = jobs[j].status /\ r.attempt = jobs[j].attempt
          /\ s.mail = jobs'[j].mail /\ s.kind = jobs'[j].kind
          /\ s.status = jobs'[j].status /\ s.attempt = jobs'[j].attempt
      BY <1>1, <3>1, TableRows
    <3>3. CASE SameMove(jobs[j], jobs'[j])
      <4>1. r \in Queue!Row /\ s \in Queue!Row  BY <1>1, <3>2, TableRows
      <4>2. r = s  BY <3>1, <3>2, <3>3, <4>1 DEF SameMove, Queue!Row
      <4>. QED  BY <4>2
    <3>4. CASE Follows(jobs[j], jobs'[j]) \/ Queue!Requeued(jobs[j], jobs'[j])
      <4>1. Queue!Taken(r, s) \/ Queue!Requeued(r, s) \/ Queue!Ended(r, s)
        BY <3>2, <3>4 DEF Follows, Queue!Taken, Queue!Requeued, Queue!Ended
      <4>2. s.mail = r.mail /\ s.kind = r.kind  BY <3>1, <3>2
      <4>. QED  BY <3>2, <4>1, <4>2, ShownUnused DEF Queue!Moves
    <3>. QED  BY <2>2, <3>3, <3>4 DEF JobsMove
  <2>. QED  BY <2>1, <2>2
<1>. QED  BY <1>2, <1>3

(* For readers of the table, any number of workers, with the transactions  *)
(* they leave open, their crashes and late finishes, are the queue of      *)
(* JobQueue: a job is registered only if none of its mail and type is      *)
(* active, is taken once for each attempt it counts, goes back to the      *)
(* queue only with attempts left, and never leaves its end.                *)
THEOREM JobsImplementQueue == Spec => ImplementsQueue
<1>1. Init => Queue!Init
  <2>. SUFFICES ASSUME Init PROVE TableOf(jobs) = [j \in JobId |-> Unused]
    BY ShownUnused DEF Queue!Init, Queue!JobId, JobId, TableOf
  <2>1. \A j \in JobId : Shown(jobs[j]) = Unused  BY ShownUnused DEF Init
  <2>. QED  BY <2>1 DEF TableOf
<1>2. ASSUME TypeOK, QueueInv, DraftFollows, [Next]_vars
      PROVE  [Queue!Next]_(TableOf(jobs))
  <2>1. TypeOK' /\ QueueInv' /\ JobsKept /\ JobsMove
    BY <1>2, StepTyped, StepQueue, StepMoves
  <2>2. Sound(jobs)  BY <1>2, SoundJobs
  <2>3. Sound(jobs')
    BY <2>1 DEF TypeOK, RowsOK, QueueInv, RowSound, Created, Sound
  <2>4. CASE NoNewJob
    BY <2>1, <2>2, <2>3, <2>4, CommitShown, ShownUnused
    DEF Queue!Next, Queue!Commit, Queue!JobId, JobId, TableOf
  <2>5. CASE \E m \in Mails, k \in Kinds : CreateEmailAnalysisJob(m, k)
    <3>1. PICK m \in Mails, k \in Kinds : CreateEmailAnalysisJob(m, k)  BY <2>5
    <3>2. PICK j \in JobId :
            /\ TableOf(jobs)[j] = Unused
            /\ \A i \in JobId : Queue!Active(TableOf(jobs)[i]) =>
                 TableOf(jobs)[i].mail # m \/ TableOf(jobs)[i].kind # k
            /\ TableOf(jobs)' = [TableOf(jobs) EXCEPT ![j] =
                                   [mail |-> m, kind |-> k, status |-> "pending", attempt |-> 0]]
      BY <1>2, <2>2, <3>1, RegistrationShown
    <3>3. Queue!Register(j, m, k)
      BY <3>2, ShownUnused, Zenon DEF Queue!Register, Queue!JobId, JobId, TableOf
    <3>. QED  BY <3>3, Zenon DEF Queue!Next, Queue!JobId, JobId
  <2>. QED  BY <1>2, <2>4, <2>5, OnlyRegistrationAdds
<1>3. Init => DraftFollows  BY DEF Init, DraftFollows
<1>4. TypeOK /\ QueueInv /\ DraftFollows /\ [Next]_vars => DraftFollows'
  BY StepMoves
<1>5. TypeOK /\ QueueInv /\ DraftFollows /\ [Next]_vars => [Queue!Next]_(TableOf(jobs))
  BY <1>2
<1>. QED  BY <1>1, <1>3, <1>4, <1>5, QueueInvariant, PTL DEF Spec, ImplementsQueue, Queue!Spec, TableOf
-----------------------------------------------------------------------------
(* No result waits for nobody.                                             *)

(* Worker w may finish job j: its result is not pending, or is about to be *)
(* failed by the commit of w, or is pending for a newer job.  Nothing is   *)
(* claimed of mails whose runs are resumed by hand.                        *)
Answered(j, w) ==
  jobs[j].mail \notin Resumed /\ jobs[j].kind \in SavedKinds
  /\ current[jobs[j].mail][jobs[j].kind] = "pending" =>
    Finished(j) \/ failing[jobs[j].mail][jobs[j].kind] = w

FinishersOK ==
  \A w \in Workers, j \in JobId :
    worker[w].job = j /\ worker[w].pc \in {"succeed", "failjob"} => Answered(j, w)
DraftsOK ==
  \A w \in Workers, j \in JobId :
    lock[j] = w /\ draft[j].status \in {"success", "failed"} => Answered(j, w)
FailingOK ==
  \A m \in Mails, k \in Kinds : failing[m][k] # NoWorker => current[m][k] = "pending"
ResultInv == PendingResultHasJob /\ FinishersOK /\ DraftsOK /\ FailingOK

ActiveKept ==
  \A j \in JobId : Active(j) => jobs'[j] # Unused /\ jobs'[j].status \in {"pending", "running"}

LEMMA PendingStays ==
  ASSUME PendingResultHasJob, JobsKept, ActiveKept,
         \A m \in Mails, k \in Kinds : current'[m][k] = "pending" => current[m][k] = "pending"
  PROVE  PendingResultHasJob'
<1>1. ASSUME NEW m \in Mails \ Resumed, NEW k \in SavedKinds, current'[m][k] = "pending"
      PROVE  ActiveEmailAnalysisJob(m, k)'
  <2>1. current[m][k] = "pending"  BY <1>1 DEF SavedKinds
  <2>2. PICK j \in JobId : Active(j) /\ jobs[j].mail = m /\ jobs[j].kind = k
    BY <2>1 DEF PendingResultHasJob, Awaited, ActiveEmailAnalysisJob
  <2>. QED  BY <2>2 DEF ActiveKept, JobsKept, Active, Created, ActiveEmailAnalysisJob
<1>. QED  BY <1>1 DEF PendingResultHasJob, Awaited, SavedKinds

LEMMA AnsweredStays ==
  ASSUME JobsKept, JobsAdvance, TypeOK, NEW j \in JobId, Created(j), NEW w \in Workers, Answered(j, w),
         \A m \in Mails, k \in Kinds : current'[m][k] = "pending" => current[m][k] = "pending",
         \A m \in Mails, k \in Kinds :
           failing[m][k] = w => failing'[m][k] = w \/ current'[m][k] # "pending"
  PROVE  Answered(j, w)'
<1>1. jobs[j] \in Job  BY CreatedTyped
<1>2. jobs[j].mail \in Mails /\ jobs[j].kind \in Kinds  BY <1>1 DEF Job
<1>3. jobs'[j].mail = jobs[j].mail /\ jobs'[j].kind = jobs[j].kind  BY DEF JobsKept
<1>4. Finished(j) => Finished(j)'  BY DEF JobsAdvance, Finished, Created
<1>. QED  BY <1>2, <1>3, <1>4 DEF Answered, SavedKinds

(* A step that changes no result, and finishes nothing.                    *)
LEMMA ResultStays ==
  ASSUME TypeOK, ResultInv, JobsKept, JobsAdvance, ActiveKept, UNCHANGED <<current, failing>>,
         \A w \in Workers, j \in JobId :
           worker'[w].job = j /\ worker'[w].pc \in {"succeed", "failjob"} =>
             Created(j) /\ Answered(j, w),
         \A w \in Workers, j \in JobId :
           lock'[j] = w /\ draft'[j].status \in {"success", "failed"} =>
             lock[j] = w /\ draft[j].status \in {"success", "failed"}
  PROVE  ResultInv'
<1>. USE NamesAssumption
<1>1. PendingResultHasJob'  BY PendingStays DEF ResultInv
<1>2. FailingOK'  BY DEF ResultInv, FailingOK
<1>3. ASSUME NEW w \in Workers, NEW j \in JobId, Created(j), Answered(j, w)
      PROVE  Answered(j, w)'
  BY <1>3, AnsweredStays
<1>4. FinishersOK'  BY <1>3 DEF FinishersOK
<1>5. \A w \in Workers, j \in JobId : lock[j] = w => Created(j)
  BY DEF TypeOK, LocksOK
<1>6. DraftsOK'  BY <1>3, <1>5 DEF ResultInv, DraftsOK
<1>. QED  BY <1>1, <1>2, <1>4, <1>6 DEF ResultInv

(* The finishers of the steps that leave the control of w outside them.    *)
LEMMA FinishersAsBefore ==
  ASSUME TypeOK, ResultInv,
         \A v \in Workers : worker'[v].pc \in {"succeed", "failjob"} => worker'[v] = worker[v]
  PROVE  \A v \in Workers, j \in JobId :
           worker'[v].job = j /\ worker'[v].pc \in {"succeed", "failjob"} =>
             Created(j) /\ Answered(j, v)
BY InJob DEF ResultInv, FinishersOK
LEMMA ClaimKeepsActive ==
  ASSUME TypeOK, QueueInv, NEW w \in Workers, ClaimNextJob(w)
  PROVE  /\ ActiveKept
         /\ \A j \in JobId : lock'[j] # NoWorker /\ draft'[j].status \in {"success", "failed"} =>
              lock[j] = lock'[j] /\ draft[j] = draft'[j]
<1>1. PICK j \in JobId :
        /\ Claimable(w, j)
        /\ Update(w, j, [jobs[j] EXCEPT !.status = "running", !.attempt = @ + 1])
  BY DEF ClaimNextJob
<1>2. Created(j) /\ jobs[j] \in Job /\ jobs[j].status = "pending"
  BY <1>1, CreatedTyped DEF Claimable, Pending
<1>3. PICK r \in Job : r.status = "running" /\ Update(w, j, r)
  BY <1>1, <1>2, JobClaimed
<1>4. CASE worker[w].open
  <2>1. UNCHANGED jobs  BY <1>3, <1>4 DEF Update
  <2>2. /\ draft'[j] = r
        /\ \A i \in JobId : i # j => draft'[i] = draft[i] /\ lock'[i] = lock[i]
    BY <1>3, <1>4 DEF Update, TypeOK, LocksOK
  <2>. QED  BY <1>3, <2>1, <2>2 DEF ActiveKept, Active, Created
<1>5. CASE ~worker[w].open
  <2>1. UNCHANGED <<draft, lock>>  BY <1>3, <1>5 DEF Update
  <2>2. jobs'[j] = r /\ \A i \in JobId : i # j => jobs'[i] = jobs[i]
    BY <1>3, <1>5 DEF Update, TypeOK, RowsOK
  <2>. QED  BY <1>3, <2>1, <2>2, UnusedIsNoJob DEF ActiveKept, Active, Created
<1>. QED  BY <1>4, <1>5

LEMMA ClaimResult ==
  ASSUME TypeOK, QueueInv, ResultInv, JobsKept, JobsAdvance, NEW w \in Workers, ClaimNextJob(w)
  PROVE  ResultInv'
<1>1. UNCHANGED <<current, failing>>  BY DEF ClaimNextJob
<1>2. worker[w] \in WorkerState /\ worker[w].left > 0  BY DEF ClaimNextJob, TypeOK, WorkersOK
<1>3. PICK j \in JobId : worker' = [worker EXCEPT ![w] = Serving(@, j, FirstStep(jobs[j].kind))]
  BY DEF ClaimNextJob
<1>4. FirstStep(jobs[j].kind) \in {"lookup", "decide"}  BY DEF FirstStep
<1>5. Serving(worker[w], j, FirstStep(jobs[j].kind)).pc \in {"lookup", "decide"}
  BY <1>2, <1>4, ClaimedTyped
<1>6. \A v \in Workers : worker'[v].pc \in {"succeed", "failjob"} => worker'[v] = worker[v]
  BY <1>3, <1>5 DEF TypeOK, WorkersOK
<1>7. \A v \in Workers, i \in JobId :
        worker'[v].job = i /\ worker'[v].pc \in {"succeed", "failjob"} =>
          Created(i) /\ Answered(i, v)
  BY <1>6, FinishersAsBefore
<1>8. /\ ActiveKept
      /\ \A v \in Workers, i \in JobId :
           lock'[i] = v /\ draft'[i].status \in {"success", "failed"} =>
             lock[i] = v /\ draft[i].status \in {"success", "failed"}
  BY ClaimKeepsActive, NamesAssumption
<1>. QED  BY <1>1, <1>7, <1>8, ResultStays

LEMMA AgeResult ==
  ASSUME TypeOK, ResultInv, JobsKept, JobsAdvance, NEW j \in JobId, Age(j)
  PROVE  ResultInv'
<1>1. UNCHANGED <<current, draft, lock, failing, worker>>  BY DEF Age
<1>2. jobs[j] \in Job  BY CreatedTyped DEF Age
<1>3. PICK r \in Job : r.status = jobs[j].status /\ jobs' = [jobs EXCEPT ![j] = r]
  BY <1>2, JobAged DEF Age
<1>4. ActiveKept  BY <1>3, UnusedIsNoJob DEF ActiveKept, Active, Created, TypeOK, RowsOK
<1>5. \A v \in Workers, i \in JobId :
        worker'[v].job = i /\ worker'[v].pc \in {"succeed", "failjob"} =>
          Created(i) /\ Answered(i, v)
  BY <1>1, FinishersAsBefore
<1>. QED  BY <1>1, <1>4, <1>5, ResultStays

LEMMA CallResult ==
  ASSUME TypeOK, ResultInv, JobsKept, JobsAdvance, NEW w \in Workers,
         RunPending(w) \/ (\E j \in JobId : RunOne(w, j))
  PROVE  ResultInv'
<1>1. UNCHANGED <<jobs, current, draft, lock, failing>>  BY DEF RunPending, RunOne
<1>2. ActiveKept  BY <1>1 DEF ActiveKept, Active, Created
<1>3. PICK r : r.pc = "recover" /\ worker' = [worker EXCEPT ![w] = r]
  <2>1. CASE RunPending(w)
    <3>. DEFINE r == [Idle EXCEPT !.pc = "recover", !.left = Limit]
    <3>1. r.pc = "recover"  BY DEF Idle
    <3>2. worker' = [worker EXCEPT ![w] = r]  BY <2>1 DEF RunPending
    <3>. HIDE DEF r
    <3>. QED  BY <3>1, <3>2
  <2>2. CASE \E j \in JobId : RunOne(w, j)
    <3>1. PICK j \in JobId : RunOne(w, j)  BY <2>2
    <3>. DEFINE r == [Idle EXCEPT !.pc = "recover", !.left = 1, !.target = j]
    <3>2. r.pc = "recover"  BY DEF Idle
    <3>3. worker' = [worker EXCEPT ![w] = r]  BY <3>1 DEF RunOne
    <3>. HIDE DEF r
    <3>. QED  BY <3>2, <3>3
  <2>. QED  BY <2>1, <2>2
<1>4. \A v \in Workers : worker'[v].pc \in {"succeed", "failjob"} => worker'[v] = worker[v]
  BY <1>3 DEF TypeOK, WorkersOK
<1>5. \A v \in Workers, j \in JobId :
        worker'[v].job = j /\ worker'[v].pc \in {"succeed", "failjob"} =>
          Created(j) /\ Answered(j, v)
  BY <1>4, FinishersAsBefore
<1>. QED  BY <1>1, <1>2, <1>5, ResultStays

(* A move of worker w to one of the steps of its job.                      *)
LEMMA MoveFacts ==
  ASSUME TypeOK, NEW w \in Workers, NEW pc \in {"claim", "decide", "save", "succeed", "fail", "failjob"},
         Goto(w, pc)
  PROVE  /\ worker'[w].pc = pc /\ worker'[w].job = worker[w].job
         /\ \A v \in Workers : v # w => worker'[v] = worker[v]
<1>1. PICK v \in WorkerState : v = worker[w]  BY DEF TypeOK, WorkersOK
<1>. DEFINE q == [v EXCEPT !.pc = pc]
<1>2. q.pc = pc /\ q.job = v.job  BY <1>1 DEF WorkerState
<1>3. worker' = [worker EXCEPT ![w] = q]  BY <1>1 DEF Goto
<1>. HIDE DEF q
<1>. QED  BY <1>1, <1>2, <1>3 DEF TypeOK, WorkersOK

LEMMA RecoverResult ==
  ASSUME TypeOK, ResultInv, JobsKept, JobsAdvance, NEW w \in Workers, RecoverStaleJobs(w)
  PROVE  ResultInv'
<1>1. UNCHANGED <<current, draft, lock, failing>>  BY DEF RecoverStaleJobs
<1>2. ASSUME NEW j \in JobId, Active(j)
      PROVE  jobs'[j] # Unused /\ jobs'[j].status \in {"pending", "running"}
  <2>1. CASE Recoverable(j)
    <3>1. jobs[j] \in Job  BY <2>1, CreatedTyped DEF Recoverable
    <3>2. jobs'[j] = WithStatus(jobs[j], "pending")  BY <2>1 DEF RecoverStaleJobs
    <3>. QED  BY <3>1, <3>2, JobRewritten, UnusedIsNoJob
  <2>2. CASE ~Recoverable(j)  BY <1>2, <2>2 DEF RecoverStaleJobs, Active, Created
  <2>. QED  BY <2>1, <2>2
<1>3. ActiveKept  BY <1>2 DEF ActiveKept
<1>4. \A v \in Workers : worker'[v].pc \in {"succeed", "failjob"} => worker'[v] = worker[v]
  BY MoveFacts DEF RecoverStaleJobs
<1>5. \A v \in Workers, j \in JobId :
        worker'[v].job = j /\ worker'[v].pc \in {"succeed", "failjob"} =>
          Created(j) /\ Answered(j, v)
  BY <1>4, FinishersAsBefore
<1>. QED  BY <1>1, <1>3, <1>5, ResultStays

LEMMA DecideResult ==
  ASSUME TypeOK, ResultInv, JobsKept, JobsAdvance, NEW w \in Workers, RunMailDecision(w)
  PROVE  ResultInv'
<1>1. UNCHANGED <<jobs, current, draft, lock, failing>>  BY DEF RunMailDecision
<1>2. ActiveKept  BY <1>1 DEF ActiveKept, Active, Created
<1>3. worker[w].job \in JobId /\ Created(worker[w].job)
  BY InJob DEF RunMailDecision, At
<1>4. PICK pc \in {"save", "succeed", "fail"} :
        Goto(w, pc) /\ (pc = "succeed" => Mine(w).mail \in Resumed)
  BY DEF RunMailDecision
<1>5. /\ worker'[w].pc = pc /\ worker'[w].job = worker[w].job
      /\ \A v \in Workers : v # w => worker'[v] = worker[v]
  BY <1>4, MoveFacts
<1>6. ASSUME NEW v \in Workers, NEW j \in JobId,
             worker'[v].job = j, worker'[v].pc \in {"succeed", "failjob"}
      PROVE  Created(j) /\ Answered(j, v)
  <2>1. CASE v = w
    BY <1>3, <1>4, <1>5, <1>6, <2>1 DEF Mine, Answered
  <2>2. CASE v # w
    BY <1>5, <1>6, <2>2, InJob DEF ResultInv, FinishersOK
  <2>. QED  BY <2>1, <2>2
<1>. QED  BY <1>1, <1>2, <1>6, ResultStays

LEMMA LookupResult ==
  ASSUME TypeOK, ResultInv, JobsKept, JobsAdvance, NEW w \in Workers, CurrentAiResult(w)
  PROVE  ResultInv'
<1>1. UNCHANGED <<jobs, current, draft, lock, failing>>  BY DEF CurrentAiResult
<1>2. ActiveKept  BY <1>1 DEF ActiveKept, Active, Created
<1>3. worker[w].job \in JobId /\ worker[w].job # NoJob /\ Created(worker[w].job)
  BY InJob DEF CurrentAiResult, At
<1>4. PICK pc \in {"succeed", "decide"} :
        /\ worker' = [worker EXCEPT ![w] = [@ EXCEPT !.open = TRUE, !.pc = pc]]
        /\ pc = "succeed" => current[Mine(w).mail][Mine(w).kind] = "success"
  BY DEF CurrentAiResult
<1>5. /\ worker'[w].pc = pc /\ worker'[w].job = worker[w].job
      /\ \A v \in Workers : v # w => worker'[v] = worker[v]
  BY <1>3, <1>4, WithinJob
<1>6. ASSUME NEW v \in Workers, NEW j \in JobId,
             worker'[v].job = j, worker'[v].pc \in {"succeed", "failjob"}
      PROVE  Created(j) /\ Answered(j, v)
  <2>1. CASE v = w
    <3>1. j = worker[w].job /\ current[jobs[j].mail][jobs[j].kind] = "success"
      BY <1>4, <1>5, <1>6, <2>1 DEF Mine
    <3>. QED  BY <1>3, <3>1 DEF Answered
  <2>2. CASE v # w
    BY <1>5, <1>6, <2>2, InJob DEF ResultInv, FinishersOK
  <2>. QED  BY <2>1, <2>2
<1>. QED  BY <1>1, <1>2, <1>6, ResultStays

(* What a save does, by a worker or by a request.                          *)
LEMMA SavedFacts ==
  ASSUME TypeOK, ResultInv, JobsKept, JobsAdvance, NEW n \in Mails, SaveResults(n),
         UNCHANGED <<jobs, draft, lock, failing>>
  PROVE  /\ PendingResultHasJob' /\ FailingOK' /\ DraftsOK'
         /\ \A k \in SavedKinds : current'[n][k] = "success"
         /\ \A v \in Workers, j \in JobId : Created(j) /\ Answered(j, v) => Answered(j, v)'
<1>. USE NamesAssumption
<1>1. ActiveKept  BY DEF ActiveKept, Active, Created
<1>2. \A m \in Mails, k \in Kinds :
        current'[m][k] = IF m = n /\ k \in SavedKinds THEN "success" ELSE current[m][k]
  BY DEF SaveResults, TypeOK, RowsOK
<1>3. PendingResultHasJob'  BY <1>1, <1>2, PendingStays DEF ResultInv
<1>4. FailingOK'  BY <1>2 DEF ResultInv, FailingOK, SaveResults
<1>5. ASSUME NEW v \in Workers, NEW j \in JobId, Created(j), Answered(j, v)
      PROVE  Answered(j, v)'
  BY <1>2, <1>5, AnsweredStays
<1>6. DraftsOK'
  <2>1. \A v \in Workers, j \in JobId : lock[j] = v => Created(j)  BY DEF TypeOK, LocksOK
  <2>. QED  BY <1>5, <2>1 DEF ResultInv, DraftsOK
<1>. QED  BY <1>2, <1>3, <1>4, <1>5, <1>6 DEF SavedKinds

LEMMA SaveResult ==
  ASSUME TypeOK, ResultInv, JobsKept, JobsAdvance, NEW w \in Workers, SaveDecision(w)
  PROVE  ResultInv'
<1>1. UNCHANGED <<jobs, draft, lock, failing>>  BY DEF SaveDecision
<1>2. /\ worker[w].job \in JobId /\ Created(worker[w].job)
      /\ Mine(w).mail \in Mails
  BY InJob DEF SaveDecision, At, Job
<1>3. /\ PendingResultHasJob' /\ FailingOK' /\ DraftsOK'
      /\ \A k \in SavedKinds : current'[Mine(w).mail][k] = "success"
      /\ \A v \in Workers, j \in JobId : Created(j) /\ Answered(j, v) => Answered(j, v)'
  BY <1>1, <1>2, SavedFacts DEF SaveDecision
<1>4. PICK pc \in {"succeed", "fail"} : Goto(w, pc)  BY DEF SaveDecision
<1>5. /\ worker'[w].pc = pc /\ worker'[w].job = worker[w].job
      /\ \A v \in Workers : v # w => worker'[v] = worker[v]
  BY <1>4, MoveFacts
<1>6. ASSUME NEW v \in Workers, NEW j \in JobId,
              worker'[v].job = j, worker'[v].pc \in {"succeed", "failjob"}
      PROVE  Answered(j, v)'
  <2>1. CASE v = w
    <3>1. j = worker[w].job  BY <1>5, <1>6, <2>1
    <3>2. jobs[j] = Mine(w)  BY <3>1 DEF Mine
    <3>3. jobs'[j].kind \in SavedKinds => current'[jobs'[j].mail][jobs'[j].kind] = "success"
      BY <1>1, <1>3, <3>2
    <3>. QED  BY <3>3 DEF Answered, SavedKinds
  <2>2. CASE v # w
    BY <1>3, <1>5, <1>6, <2>2, InJob DEF ResultInv, FinishersOK
  <2>. QED  BY <2>1, <2>2
<1>. QED  BY <1>3, <1>6 DEF ResultInv, FinishersOK

LEMMA RequestResult ==
  ASSUME TypeOK, ResultInv, JobsKept, JobsAdvance, NEW m \in Mails, DecideOnRequest(m)
  PROVE  ResultInv'
<1>1. UNCHANGED <<jobs, draft, lock, failing, worker>>  BY DEF DecideOnRequest
<1>2. /\ PendingResultHasJob' /\ FailingOK' /\ DraftsOK'
      /\ \A v \in Workers, j \in JobId : Created(j) /\ Answered(j, v) => Answered(j, v)'
  BY <1>1, SavedFacts DEF DecideOnRequest
<1>3. FinishersOK'  BY <1>1, <1>2, InJob DEF ResultInv, FinishersOK
<1>. QED  BY <1>2, <1>3 DEF ResultInv

LEMMA MarkAnalysisResult ==
  ASSUME TypeOK, ResultInv, JobsKept, JobsAdvance, NEW w \in Workers, MarkAnalysisFailed(w)
  PROVE  ResultInv'
<1>. USE NamesAssumption
<1>. DEFINE M == Mine(w).mail
<1>. DEFINE K == Mine(w).kind
<1>1. UNCHANGED <<jobs, draft, lock>>  BY DEF MarkAnalysisFailed
<1>2. ActiveKept  BY <1>1 DEF ActiveKept, Active, Created
<1>3. worker[w].job \in JobId /\ Created(worker[w].job) /\ M \in Mails /\ K \in Kinds
  BY InJob DEF MarkAnalysisFailed, At, Job
<1>4. \/ /\ UNCHANGED <<current, failing>>
         /\ current[M][K] # "pending" \/ failing[M][K] = w
      \/ /\ UNCHANGED current /\ current[M][K] = "pending"
         /\ failing' = [failing EXCEPT ![M][K] = w] /\ failing[M][K] = NoWorker
      \/ /\ UNCHANGED failing /\ failing[M][K] = NoWorker
         /\ current' = [current EXCEPT ![M][K] = "failed"]
  BY DEF MarkAnalysisFailed
<1>5. \A m \in Mails, k \in Kinds : current'[m][k] = "pending" => current[m][k] = "pending"
  BY <1>3, <1>4 DEF TypeOK, RowsOK
<1>6. \A m \in Mails, k \in Kinds : failing[m][k] # NoWorker => failing'[m][k] = failing[m][k]
  BY <1>3, <1>4 DEF TypeOK, LocksOK
<1>7. current'[M][K] # "pending" \/ failing'[M][K] = w
  BY <1>3, <1>4 DEF TypeOK, RowsOK, LocksOK
<1>8. PendingResultHasJob'  BY <1>2, <1>5, PendingStays DEF ResultInv
<1>9. FailingOK'
  <2>1. ASSUME NEW m \in Mails, NEW k \in Kinds, failing'[m][k] # NoWorker
        PROVE  current'[m][k] = "pending"
    <3>1. CASE m = M /\ k = K
      BY <1>3, <1>4, <2>1, <3>1 DEF ResultInv, FailingOK
    <3>2. CASE ~(m = M /\ k = K)
      <4>1. failing'[m][k] = failing[m][k] /\ current'[m][k] = current[m][k]
        BY <1>3, <1>4, <3>2 DEF TypeOK, RowsOK, LocksOK
      <4>. QED  BY <2>1, <4>1 DEF ResultInv, FailingOK
    <3>. QED  BY <3>1, <3>2
  <2>. QED  BY <2>1 DEF FailingOK
<1>10. ASSUME NEW v \in Workers, NEW j \in JobId, Created(j), Answered(j, v)
       PROVE  Answered(j, v)'
  BY <1>5, <1>6, <1>10, AnsweredStays
<1>11. DraftsOK'
  <2>1. \A v \in Workers, j \in JobId : lock[j] = v => Created(j)  BY DEF TypeOK, LocksOK
  <2>. QED  BY <1>1, <1>10, <2>1 DEF ResultInv, DraftsOK
<1>12. /\ worker'[w].job = worker[w].job
       /\ \A v \in Workers : v # w => worker'[v] = worker[v]
  BY MoveFacts DEF MarkAnalysisFailed
<1>13. ASSUME NEW v \in Workers, NEW j \in JobId,
              worker'[v].job = j, worker'[v].pc \in {"succeed", "failjob"}
       PROVE  Answered(j, v)'
  <2>1. CASE v = w
    <3>1. jobs'[j].mail = M /\ jobs'[j].kind = K
      BY <1>1, <1>12, <1>13, <2>1 DEF Mine
    <3>. QED  BY <1>7, <2>1, <3>1 DEF Answered
  <2>2. CASE v # w
    BY <1>10, <1>12, <1>13, <2>2, InJob DEF ResultInv, FinishersOK
  <2>. QED  BY <2>1, <2>2
<1>. QED  BY <1>8, <1>9, <1>11, <1>13 DEF ResultInv, FinishersOK
LEMMA MarkJobResult ==
  ASSUME TypeOK, QueueInv, ResultInv, JobsKept, JobsAdvance, NEW w \in Workers,
         NEW status \in {"success", "failed"},
         worker[w].pc \in {"succeed", "failjob"}, MarkJob(w, status)
  PROVE  ResultInv'
<1>. USE NamesAssumption, UnusedIsNoJob
<1>. DEFINE j == worker[w].job
<1>1. j \in JobId /\ Created(j)  BY InJob
<1>2. View(w, j) \in Job  BY <1>1, ViewTyped
<1>3. Update(w, j, WithStatus(View(w, j), status))  BY DEF MarkJob
<1>4. PICK r \in Job : r.status = status /\ Update(w, j, r)  BY <1>2, <1>3, JobRewritten
<1>5. Answered(j, w)  BY <1>1 DEF ResultInv, FinishersOK
<1>6. UNCHANGED <<current, failing>>  BY DEF MarkJob
<1>7. ASSUME NEW v \in Workers, NEW i \in JobId, Created(i), Answered(i, v)
      PROVE  Answered(i, v)'
  BY <1>6, <1>7, AnsweredStays
<1>8. worker' = [worker EXCEPT ![w] = [@ EXCEPT !.pc = "claim", !.job = NoJob]]
  BY DEF MarkJob, NextTurn
<1>9. worker'[w].pc = "claim"
  <2>1. PICK v \in WorkerState : v = worker[w]  BY DEF TypeOK, WorkersOK
  <2>. DEFINE q == [v EXCEPT !.pc = "claim", !.job = NoJob]
  <2>2. q.pc = "claim"  BY <2>1 DEF WorkerState
  <2>3. worker' = [worker EXCEPT ![w] = q]  BY <1>8, <2>1
  <2>. HIDE DEF q
  <2>. QED  BY <2>2, <2>3 DEF TypeOK, WorkersOK
<1>10. \A v \in Workers : v # w => worker'[v] = worker[v]
  BY <1>8 DEF TypeOK, WorkersOK
<1>11. FinishersOK'
  BY <1>7, <1>9, <1>10, InJob DEF ResultInv, FinishersOK
<1>12. FailingOK'  BY <1>6 DEF ResultInv, FailingOK
<1>13. CASE worker[w].open
  <2>1. UNCHANGED jobs  BY <1>4, <1>13 DEF Update
  <2>2. /\ lock'[j] = w
        /\ \A i \in JobId : i # j => draft'[i] = draft[i] /\ lock'[i] = lock[i]
    BY <1>4, <1>13, <1>1 DEF Update, TypeOK, LocksOK
  <2>3. ActiveKept  BY <2>1 DEF ActiveKept, Active, Created
  <2>4. PendingResultHasJob'  BY <1>6, <2>3, PendingStays DEF ResultInv
  <2>5. \A v \in Workers, i \in JobId : lock[i] = v => Created(i)  BY DEF TypeOK, LocksOK
  <2>6. DraftsOK'  BY <1>1, <1>5, <1>7, <2>2, <2>5 DEF ResultInv, DraftsOK
  <2>. QED  BY <1>11, <1>12, <2>4, <2>6 DEF ResultInv
<1>14. CASE ~worker[w].open
  <2>1. UNCHANGED <<draft, lock>>  BY <1>4, <1>14 DEF Update
  <2>2. \A i \in JobId : i # j => jobs'[i] = jobs[i]
    BY <1>4, <1>14 DEF Update, TypeOK, RowsOK
  <2>3. \A v \in Workers, i \in JobId : lock[i] = v => Created(i)  BY DEF TypeOK, LocksOK
  <2>4. DraftsOK'  BY <1>7, <2>1, <2>3 DEF ResultInv, DraftsOK
  <2>5. ASSUME NEW m \in Mails \ Resumed, NEW k \in SavedKinds, current[m][k] = "pending"
        PROVE  ActiveEmailAnalysisJob(m, k)'
    <3>1. PICK i \in JobId : Active(i) /\ jobs[i].mail = m /\ jobs[i].kind = k
      BY <2>5 DEF ResultInv, PendingResultHasJob, Awaited, ActiveEmailAnalysisJob
    <3>2. CASE i = j
      <4>1. failing[m][k] = w
        BY <1>5, <2>5, <3>1, <3>2 DEF Answered, Active, Finished
      <4>. QED  BY <1>14, <4>1 DEF TypeOK, LocksOK, SavedKinds
    <3>3. CASE i # j
      BY <2>2, <3>1, <3>3 DEF ActiveEmailAnalysisJob, Active, Created
    <3>. QED  BY <3>2, <3>3
  <2>6. PendingResultHasJob'  BY <1>6, <2>5 DEF PendingResultHasJob, Awaited, SavedKinds
  <2>. QED  BY <1>11, <1>12, <2>4, <2>6 DEF ResultInv
<1>. QED  BY <1>13, <1>14

(* Rows, locks and controls of the other workers when w's connection ends. *)
LEMMA ReleaseFacts ==
  ASSUME TypeOK, NEW w \in Workers, Release(w)
  PROVE  /\ \A j \in JobId : lock'[j] # NoWorker =>
              lock[j] = lock'[j] /\ lock[j] # w /\ draft'[j] = draft[j]
         /\ \A m \in Mails, k \in Kinds :
              /\ failing'[m][k] # NoWorker => failing[m][k] = failing'[m][k] /\ failing[m][k] # w
              /\ failing[m][k] # w => failing'[m][k] = failing[m][k]
         /\ \A v \in Workers : worker'[v].pc \in {"succeed", "failjob"} =>
              v # w /\ worker'[v] = worker[v]
<1>1. \A v \in Workers : worker'[v] = IF v = w THEN Idle ELSE worker[v]
  BY DEF Release, TypeOK, WorkersOK
<1>. QED  BY <1>1, IdleTyped DEF Release

LEMMA ReleaseResult ==
  ASSUME TypeOK, ResultInv, JobsKept, JobsAdvance, NEW w \in Workers, Release(w),
         \A m \in Mails, k \in Kinds : current'[m][k] = "pending" => current[m][k] = "pending",
         \A m \in Mails, k \in Kinds : failing[m][k] # w => current'[m][k] = current[m][k]
  PROVE  FailingOK' /\ FinishersOK' /\ DraftsOK'
<1>. USE NamesAssumption
<1>1. FailingOK'  BY ReleaseFacts DEF ResultInv, FailingOK
<1>2. ASSUME NEW v \in Workers, v # w, NEW j \in JobId, Created(j), Answered(j, v)
      PROVE  Answered(j, v)'
  BY <1>2, ReleaseFacts, AnsweredStays
<1>3. FinishersOK'  BY <1>2, ReleaseFacts, InJob DEF ResultInv, FinishersOK
<1>4. \A v \in Workers, j \in JobId : lock[j] = v => Created(j)  BY DEF TypeOK, LocksOK
<1>5. DraftsOK'  BY <1>2, <1>4, ReleaseFacts DEF ResultInv, DraftsOK
<1>. QED  BY <1>1, <1>3, <1>5

LEMMA ReturnResult ==
  ASSUME TypeOK, QueueInv, ResultInv, JobsKept, JobsAdvance, NEW w \in Workers, Return(w)
  PROVE  ResultInv'
<1>. USE NamesAssumption
<1>1. \A m \in Mails, k \in Kinds :
        current'[m][k] = IF failing[m][k] = w THEN "failed" ELSE current[m][k]
  BY DEF Return
<1>2. FailingOK' /\ FinishersOK' /\ DraftsOK'
  BY <1>1, ReleaseResult DEF Return
<1>3. ASSUME NEW m \in Mails \ Resumed, NEW k \in SavedKinds, current'[m][k] = "pending"
      PROVE  ActiveEmailAnalysisJob(m, k)'
  <2>1. current[m][k] = "pending" /\ failing[m][k] # w  BY <1>1, <1>3 DEF SavedKinds
  <2>2. PICK j \in JobId : Active(j) /\ jobs[j].mail = m /\ jobs[j].kind = k
    BY <2>1 DEF ResultInv, PendingResultHasJob, Awaited, ActiveEmailAnalysisJob
  <2>3. CASE lock[j] = w
    <3>1. jobs'[j] = draft[j]  BY <2>3 DEF Return, View
    <3>2. draft[j] \in Job /\ draft[j].mail = m /\ draft[j].kind = k
      BY <2>2, <2>3 DEF TypeOK, LocksOK
    <3>3. draft[j].status \notin {"success", "failed"}
      BY <2>1, <2>2, <2>3 DEF ResultInv, DraftsOK, Answered, Active, Finished
    <3>4. draft[j].status \in {"pending", "running"}  BY <3>2, <3>3 DEF Job
    <3>. QED  BY <3>1, <3>2, <3>4, UnusedIsNoJob DEF ActiveEmailAnalysisJob, Active, Created
  <2>4. CASE lock[j] # w
    <3>1. jobs'[j] = jobs[j]  BY <2>4 DEF Return, View
    <3>. QED  BY <2>2, <3>1 DEF ActiveEmailAnalysisJob, Active, Created
  <2>. QED  BY <2>3, <2>4
<1>4. PendingResultHasJob'  BY <1>3 DEF PendingResultHasJob, Awaited
<1>. QED  BY <1>2, <1>4 DEF ResultInv

LEMMA CrashResult ==
  ASSUME TypeOK, ResultInv, JobsKept, JobsAdvance, NEW w \in Workers, Crash(w)
  PROVE  ResultInv'
<1>1. UNCHANGED <<jobs, current>>  BY DEF Crash
<1>2. FailingOK' /\ FinishersOK' /\ DraftsOK'
  BY <1>1, ReleaseResult DEF Crash
<1>3. ActiveKept  BY <1>1 DEF ActiveKept, Active, Created
<1>4. PendingResultHasJob'  BY <1>1, <1>3, PendingStays DEF ResultInv
<1>. QED  BY <1>2, <1>4 DEF ResultInv

LEMMA CreateResult ==
  ASSUME TypeOK, ResultInv, JobsKept, JobsAdvance, NEW m \in Mails, NEW k \in Kinds,
         CreateEmailAnalysisJob(m, k)
  PROVE  ResultInv'
<1>. USE NamesAssumption
<1>1. PICK n \in JobId :
        /\ ~Created(n)
        /\ jobs' = [jobs EXCEPT ![n] = [mail |-> m, kind |-> k, status |-> "pending",
                                       attempt |-> 0, stale |-> FALSE]]
  BY DEF CreateEmailAnalysisJob
<1>2. /\ jobs'[n] = [mail |-> m, kind |-> k, status |-> "pending", attempt |-> 0, stale |-> FALSE]
      /\ \A j \in JobId : j # n => jobs'[j] = jobs[j]
  BY <1>1 DEF TypeOK, RowsOK
<1>3. UNCHANGED <<draft, lock, failing, worker>>  BY DEF CreateEmailAnalysisJob
<1>4. \A x \in Mails, y \in Kinds :
        current'[x][y] = IF x = m /\ y = k THEN "pending" ELSE current[x][y]
  BY DEF CreateEmailAnalysisJob, TypeOK, RowsOK
<1>5. Active(n)' /\ jobs'[n].mail = m /\ jobs'[n].kind = k
  BY <1>2 DEF Active, Created, Unused
<1>6. ASSUME NEW x \in Mails \ Resumed, NEW y \in SavedKinds, current'[x][y] = "pending"
      PROVE  ActiveEmailAnalysisJob(x, y)'
  <2>1. CASE x = m /\ y = k  BY <1>5, <2>1 DEF ActiveEmailAnalysisJob
  <2>2. CASE ~(x = m /\ y = k)
    <3>1. current[x][y] = "pending"  BY <1>4, <1>6, <2>2 DEF SavedKinds
    <3>2. PICK j \in JobId : Active(j) /\ jobs[j].mail = x /\ jobs[j].kind = y
      BY <3>1 DEF ResultInv, PendingResultHasJob, Awaited, ActiveEmailAnalysisJob
    <3>. QED  BY <1>1, <1>2, <3>2 DEF ActiveEmailAnalysisJob, Active, Created
  <2>. QED  BY <2>1, <2>2
<1>7. PendingResultHasJob'  BY <1>6 DEF PendingResultHasJob, Awaited
<1>8. FailingOK'
  BY <1>3, <1>4 DEF ResultInv, FailingOK, CreateEmailAnalysisJob
<1>9. ASSUME NEW w \in Workers, NEW j \in JobId, Created(j), Answered(j, w)
      PROVE  Answered(j, w)'
  <2>1. jobs[j] \in Job /\ jobs'[j] = jobs[j]  BY <1>1, <1>2, <1>9, CreatedTyped
  <2>2. jobs[j].mail \in Mails /\ jobs[j].kind \in Kinds  BY <2>1 DEF Job
  <2>3. Finished(j) => Finished(j)'  BY <2>1 DEF Finished, Created
  <2>4. CASE jobs[j].mail = m /\ jobs[j].kind = k
    <3>1. ~Active(j)
      BY <2>4 DEF CreateEmailAnalysisJob, ActiveEmailAnalysisJob
    <3>2. Finished(j)  BY <1>9, <2>1, <3>1 DEF Active, Finished, Job
    <3>. QED  BY <2>3, <3>2 DEF Answered
  <2>5. CASE ~(jobs[j].mail = m /\ jobs[j].kind = k)
    BY <1>3, <1>4, <1>9, <2>1, <2>2, <2>3, <2>5 DEF Answered, SavedKinds
  <2>. QED  BY <2>4, <2>5
<1>10. FinishersOK'
  BY <1>3, <1>9, InJob DEF ResultInv, FinishersOK
<1>11. \A w \in Workers, j \in JobId : lock[j] = w => Created(j)  BY DEF TypeOK, LocksOK
<1>12. DraftsOK'  BY <1>3, <1>9, <1>11 DEF ResultInv, DraftsOK
<1>. QED  BY <1>7, <1>8, <1>10, <1>12 DEF ResultInv
LEMMA StepResult ==
  ASSUME TypeOK, QueueInv, ResultInv, [Next]_vars
  PROVE  ResultInv'
<1>. USE StepTyped, StepQueue
<1>1. CASE \E m \in Mails, k \in Kinds : CreateEmailAnalysisJob(m, k)
  BY <1>1, CreateResult
<1>2. CASE \E j \in JobId : Age(j)
  BY <1>2, AgeResult
<1>3. ASSUME NEW w \in Workers,
             RunPending(w) \/ (\E j \in JobId : RunOne(w, j)) \/ Work(w) \/ Crash(w)
      PROVE  ResultInv'
  <2>1. CASE RunPending(w) \/ (\E j \in JobId : RunOne(w, j))  BY <2>1, CallResult
  <2>2. CASE RecoverStaleJobs(w)  BY <2>2, RecoverResult
  <2>3. CASE ClaimNextJob(w)  BY <2>3, ClaimResult
  <2>4. CASE CurrentAiResult(w)  BY <2>4, LookupResult
  <2>5. CASE RunMailDecision(w)  BY <2>5, DecideResult
  <2>6. CASE SaveDecision(w)  BY <2>6, SaveResult
  <2>7. CASE MarkJobSuccess(w)  BY <2>7, MarkJobResult DEF MarkJobSuccess, At
  <2>8. CASE MarkAnalysisFailed(w)  BY <2>8, MarkAnalysisResult
  <2>9. CASE MarkJobFailed(w)  BY <2>9, MarkJobResult DEF MarkJobFailed, At
  <2>10. CASE Return(w)  BY <2>10, ReturnResult
  <2>11. CASE Crash(w)  BY <2>11, CrashResult
  <2>. QED
    BY <1>3, <2>1, <2>2, <2>3, <2>4, <2>5, <2>6, <2>7, <2>8, <2>9, <2>10, <2>11 DEF Work
<1>4. CASE UNCHANGED vars
  <2>1. UNCHANGED <<jobs, current, draft, lock, failing, worker>>  BY <1>4 DEF vars
  <2>2. ActiveKept  BY <2>1 DEF ActiveKept, Active, Created
  <2>3. \A v \in Workers, j \in JobId :
          worker'[v].job = j /\ worker'[v].pc \in {"succeed", "failjob"} =>
            Created(j) /\ Answered(j, v)
    BY <2>1, FinishersAsBefore
  <2>. QED  BY <2>1, <2>2, <2>3, ResultStays
<1>5. CASE \E m \in Mails : DecideOnRequest(m)  BY <1>5, RequestResult
<1>. QED  BY <1>1, <1>2, <1>3, <1>4, <1>5 DEF Next

LEMMA ResultInvariant == Spec => [](TypeOK /\ QueueInv /\ ResultInv)
<1>1. Init => ResultInv
  <2>. SUFFICES ASSUME Init PROVE ResultInv
    OBVIOUS
  <2>2. \A m \in Mails, k \in Kinds : current[m][k] # "pending" /\ failing[m][k] = NoWorker
    BY DEF Init
  <2>3. PendingResultHasJob /\ FailingOK
    BY <2>2 DEF PendingResultHasJob, Awaited, FailingOK, SavedKinds
  <2>4. \A w \in Workers : worker[w].pc = "idle"  BY IdleTyped DEF Init
  <2>5. FinishersOK  BY <2>4 DEF FinishersOK
  <2>6. \A j \in JobId : lock[j] \notin Workers  BY NamesAssumption DEF Init
  <2>7. DraftsOK  BY <2>6 DEF DraftsOK
  <2>. QED  BY <2>3, <2>5, <2>7 DEF ResultInv
<1>2. TypeOK /\ QueueInv /\ ResultInv /\ [Next]_vars => ResultInv'
  BY StepResult
<1>. QED  BY <1>1, <1>2, QueueInvariant, PTL DEF Spec

(* A pending result always has an active job, whichever worker finishes    *)
(* it, crashes or comes too late, while nobody resumes a run of its mail.  *)
THEOREM NoPendingAbandoned == Spec => []PendingResultHasJob
<1>1. ResultInv => PendingResultHasJob  BY DEF ResultInv
<1>. QED  BY <1>1, ResultInvariant, PTL

(* Only a registration takes a good result from its mail.                  *)
THEOREM GoodResultKept == Spec => ResultKept
<1>. DEFINE Replaced(m, k) == current[m][k] = "success" /\ current'[m][k] # "success"
<1>. DEFINE Registered(m, k) == ActiveEmailAnalysisJob(m, k)' /\ ~ActiveEmailAnalysisJob(m, k)
<1>1. ASSUME TypeOK, ResultInv, Next, NEW m \in Mails, NEW k \in Kinds, Replaced(m, k)
      PROVE  Registered(m, k)
  <2>1. CASE \E x \in Mails, y \in Kinds : CreateEmailAnalysisJob(x, y)
    <3>1. PICK x \in Mails, y \in Kinds : CreateEmailAnalysisJob(x, y)  BY <2>1
    <3>2. x = m /\ y = k
      BY <1>1, <3>1 DEF CreateEmailAnalysisJob, TypeOK, RowsOK
    <3>3. PICK n \in JobId :
            jobs' = [jobs EXCEPT ![n] = [mail |-> x, kind |-> y, status |-> "pending",
                                         attempt |-> 0, stale |-> FALSE]]
      BY <3>1 DEF CreateEmailAnalysisJob
    <3>4. jobs'[n].mail = m /\ jobs'[n].kind = k /\ Active(n)'
      BY <1>1, <3>2, <3>3 DEF TypeOK, RowsOK, Active, Created, Unused
    <3>. QED  BY <3>1, <3>2, <3>4 DEF CreateEmailAnalysisJob, ActiveEmailAnalysisJob
  <2>2. CASE \E j \in JobId : Age(j)
    BY <1>1, <2>2 DEF Age
  <2>3. ASSUME NEW w \in Workers,
               RunPending(w) \/ (\E j \in JobId : RunOne(w, j)) \/ Work(w) \/ Crash(w)
        PROVE  FALSE
    <3>1. CASE SaveDecision(w)
      <4>1. Mine(w).mail \in Mails
        BY <1>1, <3>1, InJob DEF SaveDecision, At, Job
      <4>. QED  BY <1>1, <3>1, <4>1 DEF SaveDecision, SaveResults, TypeOK, RowsOK
    <3>2. CASE MarkAnalysisFailed(w)
      <4>1. Mine(w).mail \in Mails /\ Mine(w).kind \in Kinds
        BY <1>1, <3>2, InJob DEF MarkAnalysisFailed, At, Job
      <4>. QED  BY <1>1, <3>2, <4>1 DEF MarkAnalysisFailed, TypeOK, RowsOK
    <3>3. CASE Return(w)
      <4>1. failing[m][k] = w  BY <1>1, <3>3 DEF Return
      <4>. QED  BY <1>1, <4>1, NamesAssumption DEF ResultInv, FailingOK
    <3>4. CASE current' = current
      BY <1>1, <3>4
    <3>. QED
      BY <2>3, <3>1, <3>2, <3>3, <3>4
      DEF Work, RunPending, RunOne, RecoverStaleJobs, ClaimNextJob, CurrentAiResult,
          RunMailDecision, MarkJobSuccess, MarkJobFailed, MarkJob, Crash
  <2>4. CASE \E n \in Mails : DecideOnRequest(n)
    BY <1>1, <2>4 DEF DecideOnRequest, SaveResults, TypeOK, RowsOK
  <2>. QED  BY <1>1, <2>1, <2>2, <2>3, <2>4 DEF Next
<1>2. TypeOK /\ QueueInv /\ ResultInv /\ [Next]_vars =>
        [\A m \in Mails, k \in Kinds : Replaced(m, k) =>
           ActiveEmailAnalysisJob(m, k)' /\ ~ActiveEmailAnalysisJob(m, k)]_vars
  BY <1>1
<1>. QED  BY <1>2, ResultInvariant, PTL DEF Spec, ResultKept
-----------------------------------------------------------------------------
(* Executions.  A job is handed out once for every attempt of its newest   *)
(* row; a crash takes back at most one, because an open transaction holds  *)
(* no more than one claim of a job.                                        *)

CountOK(j) ==
  /\ Created(j) => execs[j] <= Newest(j).attempt + crashes
  /\ ~Created(j) => execs[j] = 0
  /\ lock[j] # NoWorker => draft[j].attempt <= jobs[j].attempt + 1
CountInv == \A j \in JobId : CountOK(j)

LEMMA CountTypes ==
  ASSUME TypeOK, NEW j \in JobId
  PROVE  /\ execs[j] \in Nat /\ crashes \in Nat
         /\ Created(j) => jobs[j].attempt \in Nat /\ Newest(j).attempt \in Nat
         /\ lock[j] # NoWorker => Created(j) /\ draft[j].attempt \in Nat
<1>1. execs[j] \in Nat /\ crashes \in Nat
  BY DEF TypeOK, RowsOK
<1>2. Created(j) => jobs[j] \in Job
  BY CreatedTyped
<1>3. lock[j] # NoWorker => Created(j) /\ draft[j] \in Job
  BY DEF TypeOK, LocksOK
<1>. QED  BY <1>1, <1>2, <1>3 DEF Newest, Job

(* A step that rewrites no attempt, but may register a job.                *)
LEMMA CountStays ==
  ASSUME TypeOK, CountInv, UNCHANGED <<draft, lock, execs, crashes>>,
         \A j \in JobId : Created(j) => jobs'[j] # Unused /\ jobs'[j].attempt = jobs[j].attempt,
         \A j \in JobId : ~Created(j) => jobs'[j] = Unused \/ jobs'[j].attempt = 0
  PROVE  CountInv'
<1>. SUFFICES ASSUME NEW j \in JobId  PROVE CountOK(j)'
  BY DEF CountInv
<1>1. CASE Created(j)
  BY <1>1 DEF CountInv, CountOK, Newest, Created
<1>2. CASE ~Created(j)
  <2>1. lock[j] = NoWorker /\ execs[j] = 0 /\ crashes \in Nat
    BY <1>2, CountTypes DEF CountInv, CountOK
  <2>. QED  BY <1>2, <2>1 DEF CountOK, Newest, Created
<1>. QED  BY <1>1, <1>2

(* A write to one row: n is 1 if it claims the job.                        *)
LEMMA CountUpdated ==
  ASSUME TypeOK, CountInv, NEW w \in Workers, NEW j \in JobId, Created(j), NEW r \in Job,
         Update(w, j, r), NEW n \in {0, 1}, n = 1 => lock[j] = NoWorker,
         r.attempt = View(w, j).attempt + n, execs' = [execs EXCEPT ![j] = @ + n],
         UNCHANGED crashes
  PROVE  CountInv'
<1>. USE NamesAssumption
<1>. SUFFICES ASSUME NEW i \in JobId  PROVE CountOK(i)'
  BY DEF CountInv
<1>0. /\ execs'[j] = execs[j] + n /\ (i # j => execs'[i] = execs[i])
      /\ execs[j] \in Nat /\ crashes \in Nat /\ jobs[j].attempt \in Nat
  BY CountTypes DEF TypeOK, RowsOK
<1>1. execs[j] <= Newest(j).attempt + crashes /\ Newest(j) = View(w, j)
  BY DEF CountInv, CountOK, Newest, View, Update
<1>2. /\ Newest(j).attempt \in Nat
      /\ lock[j] # NoWorker => draft[j].attempt <= jobs[j].attempt + 1
  BY CountTypes DEF CountInv, CountOK
<1>3. CASE worker[w].open
  <2>1. /\ draft'[j] = r /\ lock'[j] = w /\ jobs' = jobs
        /\ i # j => draft'[i] = draft[i] /\ lock'[i] = lock[i]
    BY <1>3 DEF Update, TypeOK, LocksOK
  <2>2. CASE i = j
    <3>1. r.attempt <= jobs[j].attempt + 1
      BY <1>0, <1>1, <1>2 DEF Newest
    <3>2. execs'[j] <= r.attempt + crashes
      BY <1>0, <1>1, <1>2
    <3>. QED  BY <2>1, <2>2, <3>1, <3>2 DEF CountOK, Newest, Created
  <2>3. CASE i # j
    BY <1>0, <2>1, <2>3 DEF CountInv, CountOK, Newest, Created
  <2>. QED  BY <2>2, <2>3
<1>4. CASE ~worker[w].open
  <2>1. /\ lock[j] = NoWorker /\ draft' = draft /\ lock' = lock
        /\ jobs'[j] = r /\ (i # j => jobs'[i] = jobs[i])
    BY <1>4 DEF Update, TypeOK, LocksOK, RowsOK
  <2>2. CASE i = j
    BY <1>0, <1>1, <1>2, <2>1, <2>2, UnusedIsNoJob DEF CountOK, Newest, Created
  <2>3. CASE i # j
    BY <1>0, <2>1, <2>3 DEF CountInv, CountOK, Newest, Created
  <2>. QED  BY <2>2, <2>3
<1>. QED  BY <1>3, <1>4

LEMMA ClaimCounted ==
  ASSUME TypeOK, CountInv, NEW w \in Workers, ClaimNextJob(w)
  PROVE  CountInv'
<1>. USE NamesAssumption
<1>1. PICK j \in JobId :
        /\ Claimable(w, j)
        /\ Update(w, j, [jobs[j] EXCEPT !.status = "running", !.attempt = @ + 1])
        /\ execs' = [execs EXCEPT ![j] = @ + 1]
  BY DEF ClaimNextJob
<1>2. Created(j) /\ jobs[j] \in Job /\ lock[j] = NoWorker /\ View(w, j) = jobs[j]
  BY <1>1, CreatedTyped DEF Claimable, Pending, View
<1>3. PICK r \in Job : r.attempt = jobs[j].attempt + 1 /\ Update(w, j, r)
  BY <1>1, <1>2, JobClaimed
<1>4. UNCHANGED crashes
  BY DEF ClaimNextJob
<1>. QED  BY <1>1, <1>2, <1>3, <1>4, CountUpdated

LEMMA MarkJobCounted ==
  ASSUME TypeOK, CountInv, NEW w \in Workers, NEW status \in {"success", "failed"},
         worker[w].pc \in {"succeed", "failjob"}, MarkJob(w, status)
  PROVE  CountInv'
<1>1. PICK j \in JobId : j = worker[w].job /\ Created(j)
  BY InJob
<1>2. View(w, j) \in Job /\ Update(w, j, WithStatus(View(w, j), status))
  BY <1>1, ViewTyped DEF MarkJob
<1>3. PICK r \in Job : r.attempt = View(w, j).attempt /\ Update(w, j, r)
  BY <1>2, JobRewritten
<1>4. r.attempt = View(w, j).attempt + 0 /\ UNCHANGED <<execs, crashes>>
  BY <1>3 DEF MarkJob, Job
<1>5. execs' = [execs EXCEPT ![j] = @ + 0]
  BY <1>4 DEF TypeOK, RowsOK
<1>6. PICK n \in {0, 1} :
        /\ n = 0 /\ r.attempt = View(w, j).attempt + n /\ execs' = [execs EXCEPT ![j] = @ + n]
  BY <1>4, <1>5
<1>7. (n = 1 => lock[j] = NoWorker) /\ UNCHANGED crashes
  BY <1>4, <1>6
<1>. QED  BY <1>1, <1>3, <1>6, <1>7, CountUpdated

LEMMA EndCounted ==
  ASSUME TypeOK, CountInv, NEW w \in Workers, Return(w) \/ Crash(w)
  PROVE  CountInv'
<1>. USE NamesAssumption
<1>. SUFFICES ASSUME NEW j \in JobId  PROVE CountOK(j)'
  BY DEF CountInv
<1>1. /\ draft'[j] = IF lock[j] = w THEN Unused ELSE draft[j]
      /\ lock'[j] = IF lock[j] = w THEN NoWorker ELSE lock[j]
  BY DEF Return, Crash, Release
<1>2. execs' = execs
  BY DEF Return, Crash
<1>3. CASE lock[j] # w
  <2>1. jobs'[j] = jobs[j] /\ crashes' \in Nat /\ crashes <= crashes'
    BY <1>3, CountTypes DEF Return, Crash, View
  <2>. QED  BY <1>1, <1>2, <1>3, <2>1, CountTypes DEF CountInv, CountOK, Newest, Created
<1>4. CASE lock[j] = w
  <2>1. /\ Created(j) /\ draft[j] # Unused /\ draft[j].attempt \in Nat /\ jobs[j].attempt \in Nat
        /\ draft[j].attempt <= jobs[j].attempt + 1 /\ execs[j] <= draft[j].attempt + crashes
        /\ execs[j] \in Nat /\ crashes \in Nat
    BY <1>4, CountTypes DEF CountInv, CountOK, Newest, TypeOK, LocksOK
  <2>2. CASE Return(w)
    <3>1. jobs'[j] = draft[j] /\ crashes' = crashes
      BY <1>4, <2>2 DEF Return, View
    <3>. QED  BY <1>1, <1>2, <1>4, <2>1, <3>1 DEF CountOK, Newest, Created
  <2>3. CASE Crash(w)
    <3>1. jobs'[j] = jobs[j] /\ crashes' = crashes + 1
      BY <2>3 DEF Crash
    <3>. QED  BY <1>1, <1>2, <1>4, <2>1, <3>1 DEF CountOK, Newest, Created
  <2>. QED  BY <2>2, <2>3
<1>. QED  BY <1>3, <1>4

LEMMA StepCounted ==
  ASSUME TypeOK, CountInv, [Next]_vars
  PROVE  CountInv'
<1>1. ASSUME NEW m \in Mails, NEW k \in Kinds, CreateEmailAnalysisJob(m, k)  PROVE CountInv'
  <2>1. PICK j \in JobId :
          /\ ~Created(j)
          /\ jobs' = [jobs EXCEPT ![j] = [mail |-> m, kind |-> k, status |-> "pending",
                                         attempt |-> 0, stale |-> FALSE]]
    BY <1>1 DEF CreateEmailAnalysisJob
  <2>2. jobs'[j].attempt = 0 /\ \A i \in JobId : i # j => jobs'[i] = jobs[i]
    BY <2>1 DEF TypeOK, RowsOK
  <2>. QED  BY <1>1, <2>1, <2>2, CountStays DEF CreateEmailAnalysisJob, Created
<1>2. ASSUME NEW j \in JobId, Age(j)  PROVE CountInv'
  <2>1. jobs[j] \in Job
    BY <1>2, CreatedTyped DEF Age
  <2>2. PICK r \in Job : r.attempt = jobs[j].attempt /\ jobs' = [jobs EXCEPT ![j] = r]
    BY <1>2, <2>1, JobAged DEF Age
  <2>3. jobs'[j] = r /\ \A i \in JobId : i # j => jobs'[i] = jobs[i]
    BY <2>2 DEF TypeOK, RowsOK
  <2>. QED  BY <1>2, <2>2, <2>3, UnusedIsNoJob, CountStays DEF Age, Created
<1>3. ASSUME NEW w \in Workers, RecoverStaleJobs(w)  PROVE CountInv'
  <2>1. ASSUME NEW j \in JobId, Recoverable(j)
        PROVE  jobs'[j] # Unused /\ jobs'[j].attempt = jobs[j].attempt
    BY <1>3, <2>1, CreatedTyped, JobRewritten, UnusedIsNoJob DEF RecoverStaleJobs, Recoverable
  <2>2. \A j \in JobId : ~Recoverable(j) => jobs'[j] = jobs[j]
    BY <1>3 DEF RecoverStaleJobs
  <2>. QED  BY <1>3, <2>1, <2>2, CountStays DEF RecoverStaleJobs, Created, Recoverable
<1>4. CASE UNCHANGED <<jobs, draft, lock, execs, crashes>>
  BY <1>4, CountStays DEF Created
<1>5. ASSUME NEW w \in Workers, Work(w) \/ Crash(w)  PROVE CountInv'
  <2>1. CASE ClaimNextJob(w)  BY <2>1, ClaimCounted
  <2>2. CASE MarkJobSuccess(w)  BY <2>2, MarkJobCounted DEF MarkJobSuccess, At
  <2>3. CASE MarkJobFailed(w)  BY <2>3, MarkJobCounted DEF MarkJobFailed, At
  <2>4. CASE Return(w) \/ Crash(w)  BY <2>4, EndCounted
  <2>5. CASE CurrentAiResult(w) \/ RunMailDecision(w) \/ SaveDecision(w) \/ MarkAnalysisFailed(w)
    BY <1>4, <2>5 DEF CurrentAiResult, RunMailDecision, SaveDecision, MarkAnalysisFailed
  <2>. QED  BY <1>3, <1>5, <2>1, <2>2, <2>3, <2>4, <2>5 DEF Work
<1>6. CASE \/ \E m \in Mails : DecideOnRequest(m)
           \/ \E w \in Workers : RunPending(w) \/ (\E j \in JobId : RunOne(w, j))
           \/ UNCHANGED vars
  BY <1>4, <1>6 DEF DecideOnRequest, RunPending, RunOne, vars
<1>. QED  BY <1>1, <1>2, <1>5, <1>6 DEF Next

(* A job is handed to a worker at most once for every attempt it has and   *)
(* once for every process that died.                                       *)
THEOREM ExecutionsAreBounded == Spec => []ExecutionsBounded
<1>1. Init => CountInv
  <2>1. Init => \A j \in JobId : jobs[j] = Unused /\ execs[j] = 0 /\ lock[j] = NoWorker
    BY DEF Init
  <2>. QED  BY <2>1 DEF CountInv, CountOK, Created
<1>2. TypeOK /\ CountInv /\ [Next]_vars => CountInv'
  BY StepCounted
<1>3. TypeOK /\ QueueInv /\ CountInv => ExecutionsBounded
  <2>. SUFFICES ASSUME TypeOK, QueueInv, CountInv, NEW j \in JobId
                PROVE  execs[j] <= MaxAttempts + crashes
    BY DEF ExecutionsBounded
  <2>1. Created(j) => Newest(j).attempt <= MaxAttempts
    BY DEF QueueInv, RowSound, DraftSound, Newest
  <2>2. CASE Created(j)
    <3>1. PICK n \in Nat : n = Newest(j).attempt /\ n <= MaxAttempts /\ execs[j] <= n + crashes
      BY <2>1, <2>2, CountTypes DEF CountInv, CountOK
    <3>2. execs[j] \in Nat /\ crashes \in Nat /\ MaxAttempts \in Nat
      BY CountTypes, LimitsAssumption
    <3>. QED  BY <3>1, <3>2
  <2>3. CASE ~Created(j)
    <3>1. execs[j] = 0 /\ crashes \in Nat /\ MaxAttempts \in Nat
      BY <2>3, CountTypes, LimitsAssumption DEF CountInv, CountOK
    <3>. QED  BY <3>1
  <2>. QED  BY <2>2, <2>3
<1>. QED  BY <1>1, <1>2, <1>3, QueueInvariant, PTL DEF Spec

-----------------------------------------------------------------------------
(* Locks of the calls for one job.  Such a call holds nothing while it     *)
(* waits for the results of its mail, and when it holds its job's row it   *)
(* has nothing left to do but return.                                      *)

HoldsRow(w) == \E j \in JobId : lock[j] = w
HoldsResult(w) == \E m \in Mails, k \in Kinds : failing[m][k] = w
OneJobOnly(w) ==
  LET r == worker[w]
  IN  r.target # NoJob =>
        /\ r.left <= 1
        /\ r.left > 0 => ~r.open /\ r.pc \in {"recover", "claim"}
        /\ HoldsRow(w) => r.pc = "claim" /\ r.left = 0
        /\ HoldsResult(w) => r.pc \in {"failjob", "claim"} /\ r.left = 0
CallInv == \A w \in Workers : OneJobOnly(w)
LEMMA CallFields ==
  ASSUME NEW r \in WorkerState
  PROVE  /\ r.left \in Nat /\ r.open \in BOOLEAN
         /\ \A pc : /\ [r EXCEPT !.pc = pc].pc = pc /\ [r EXCEPT !.pc = pc].left = r.left
                    /\ [r EXCEPT !.pc = pc].target = r.target /\ [r EXCEPT !.pc = pc].open = r.open
         /\ \A pc : /\ [r EXCEPT !.open = TRUE, !.pc = pc].pc = pc
                    /\ [r EXCEPT !.open = TRUE, !.pc = pc].left = r.left
                    /\ [r EXCEPT !.open = TRUE, !.pc = pc].target = r.target
  BY DEF WorkerState

LEMMA TurnFields ==
  ASSUME NEW r \in WorkerState
  PROVE  /\ [r EXCEPT !.pc = "claim", !.job = NoJob].pc = "claim"
         /\ [r EXCEPT !.pc = "claim", !.job = NoJob].left = r.left
         /\ [r EXCEPT !.pc = "claim", !.job = NoJob].target = r.target
  BY DEF WorkerState

LEMMA ServingFields ==
  ASSUME NEW r \in WorkerState, NEW j, NEW pc
  PROVE  /\ Serving(r, j, pc).left = r.left - 1 /\ Serving(r, j, pc).open = r.open
         /\ Serving(r, j, pc).target = r.target
<1>1. PICK n : n = r.left - 1
  BY DEF WorkerState
<1>2. LET s == [r EXCEPT !.job = j, !.left = n, !.pc = pc]
      IN  s.left = n /\ s.open = r.open /\ s.target = r.target
  BY DEF WorkerState
<1>. QED  BY <1>1, <1>2, Zenon DEF Serving

(* A worker outside a transaction holds nothing.                           *)
LEMMA ClosedHoldsNothing ==
  ASSUME TypeOK, NEW w \in Workers, ~worker[w].open
  PROVE  ~HoldsRow(w) /\ ~HoldsResult(w)
  BY NamesAssumption DEF TypeOK, LocksOK, HoldsRow, HoldsResult

LEMMA CallStays ==
  ASSUME TypeOK, CallInv, NEW w \in Workers, NEW s, worker' = [worker EXCEPT ![w] = s],
         \A v \in Workers \ {w} : HoldsRow(v)' => HoldsRow(v),
         \A v \in Workers \ {w} : HoldsResult(v)' => HoldsResult(v),
         s.target # NoJob =>
           /\ s.left <= 1
           /\ s.left > 0 => ~s.open /\ s.pc \in {"recover", "claim"}
           /\ HoldsRow(w)' => s.pc = "claim" /\ s.left = 0
           /\ HoldsResult(w)' => s.pc \in {"failjob", "claim"} /\ s.left = 0
  PROVE  CallInv'
<1>1. worker'[w] = s /\ \A v \in Workers \ {w} : worker'[v] = worker[v]
  BY DEF TypeOK, WorkersOK
<1>2. ASSUME NEW v \in Workers  PROVE OneJobOnly(v)'
  <2>1. CASE v = w
    BY <1>1, <2>1 DEF OneJobOnly
  <2>2. CASE v # w
    BY <1>1, <2>2 DEF CallInv, OneJobOnly
  <2>. QED  BY <2>1, <2>2
<1>. QED  BY <1>2 DEF CallInv

(* A step within a job: nothing is locked but, at its end, results.        *)
LEMMA WithinCall ==
  ASSUME TypeOK, CallInv, NEW w \in Workers, lock' = lock,
         worker[w].pc \notin {"recover", "claim"},
         NEW pc \in {"decide", "save", "succeed", "fail", "failjob"},
         \/ Goto(w, pc)
         \/ worker' = [worker EXCEPT ![w] = [@ EXCEPT !.open = TRUE, !.pc = pc]],
         worker[w].pc \notin {"failjob", "claim"},
         \/ failing' = failing
         \/ /\ pc = "failjob"
            /\ \A v \in Workers \ {w} : HoldsResult(v)' => HoldsResult(v)
  PROVE  CallInv'
<1>1. worker[w] \in WorkerState
  BY DEF TypeOK, WorkersOK
<1>2. PICK s : /\ s.pc = pc /\ s.left = worker[w].left /\ s.target = worker[w].target
               /\ worker' = [worker EXCEPT ![w] = s]
  BY <1>1, CallFields DEF Goto
<1>3. \A v \in Workers : HoldsRow(v)' => HoldsRow(v)
  BY DEF HoldsRow
<1>4. \A v \in Workers \ {w} : HoldsResult(v)' => HoldsResult(v)
  BY DEF HoldsResult
<1>5. HoldsResult(w)' => pc = "failjob" \/ HoldsResult(w)
  BY DEF HoldsResult
<1>6. worker[w].left \in Nat /\ OneJobOnly(w)
  BY <1>1, CallFields DEF CallInv
<1>7. s.target # NoJob =>
           /\ s.left <= 1
           /\ s.left > 0 => ~s.open /\ s.pc \in {"recover", "claim"}
           /\ HoldsRow(w)' => s.pc = "claim" /\ s.left = 0
           /\ HoldsResult(w)' => s.pc \in {"failjob", "claim"} /\ s.left = 0
  BY <1>2, <1>3, <1>5, <1>6 DEF OneJobOnly
<1>. QED  BY <1>2, <1>3, <1>4, <1>7, CallStays

LEMMA CalledCall ==
  ASSUME TypeOK, CallInv, NEW w \in Workers, RunPending(w) \/ (\E j \in JobId : RunOne(w, j))
  PROVE  CallInv'
<1>1. UNCHANGED <<lock, failing>> /\ worker[w] = Idle
  BY DEF RunPending, RunOne, TypeOK, WorkersOK
<1>2. ~HoldsRow(w)' /\ ~HoldsResult(w)'
  BY <1>1, IdleTyped, ClosedHoldsNothing DEF HoldsRow, HoldsResult
<1>3. \A v \in Workers : (HoldsRow(v)' => HoldsRow(v)) /\ (HoldsResult(v)' => HoldsResult(v))
  BY <1>1 DEF HoldsRow, HoldsResult
<1>4. CASE RunPending(w)
  <2>. DEFINE s == [Idle EXCEPT !.pc = "recover", !.left = Limit]
  <2>1. s.target = NoJob
    BY DEF Idle
  <2>2. worker' = [worker EXCEPT ![w] = s]
    BY <1>4 DEF RunPending
  <2>. HIDE DEF s
  <2>. QED  BY <1>3, <2>1, <2>2, CallStays
<1>5. CASE \E j \in JobId : RunOne(w, j)
  <2>1. PICK j \in JobId : RunOne(w, j)
    BY <1>5
  <2>. DEFINE s == [Idle EXCEPT !.pc = "recover", !.left = 1, !.target = j]
  <2>2. s.pc = "recover" /\ s.left = 1 /\ ~s.open
    BY DEF Idle
  <2>3. worker' = [worker EXCEPT ![w] = s]
    BY <2>1 DEF RunOne
  <2>. HIDE DEF s
  <2>4. s.target # NoJob =>
        /\ s.left <= 1
        /\ s.left > 0 => ~s.open /\ s.pc \in {"recover", "claim"}
        /\ HoldsRow(w)' => s.pc = "claim" /\ s.left = 0
        /\ HoldsResult(w)' => s.pc \in {"failjob", "claim"} /\ s.left = 0
    BY <1>2, <2>2
  <2>. QED  BY <1>3, <2>3, <2>4, CallStays
<1>. QED  BY <1>4, <1>5

LEMMA RecoverCall ==
  ASSUME TypeOK, CallInv, NEW w \in Workers, RecoverStaleJobs(w)
  PROVE  CallInv'
<1>1. worker[w] \in WorkerState /\ worker[w].pc = "recover"
  BY DEF TypeOK, WorkersOK, RecoverStaleJobs, At
<1>2. PICK s : /\ s.pc = "claim" /\ s.left = worker[w].left /\ s.target = worker[w].target
               /\ s.open = worker[w].open /\ worker' = [worker EXCEPT ![w] = s]
  <2>. DEFINE q == [worker[w] EXCEPT !.pc = "claim"]
  <2>1. /\ q.pc = "claim" /\ q.left = worker[w].left /\ q.target = worker[w].target
        /\ q.open = worker[w].open
    BY <1>1, CallFields
  <2>2. worker' = [worker EXCEPT ![w] = q]
    BY DEF RecoverStaleJobs, Goto
  <2>. HIDE DEF q
  <2>. QED  BY <2>1, <2>2
<1>3. \A v \in Workers : (HoldsRow(v)' => HoldsRow(v)) /\ (HoldsResult(v)' => HoldsResult(v))
  BY DEF HoldsRow, HoldsResult, RecoverStaleJobs
<1>4. OneJobOnly(w)
  BY DEF CallInv
<1>. QED  BY <1>1, <1>2, <1>3, <1>4, CallStays DEF OneJobOnly

LEMMA ClaimCall ==
  ASSUME TypeOK, CallInv, NEW w \in Workers, ClaimNextJob(w)
  PROVE  CallInv'
<1>1. PICK j \in JobId : \E r, pc :
        /\ Update(w, j, r) /\ worker' = [worker EXCEPT ![w] = Serving(@, j, pc)]
        /\ worker[w].left > 0 /\ failing' = failing
  BY DEF ClaimNextJob
<1>0. PICK r, pc :
        /\ Update(w, j, r) /\ worker' = [worker EXCEPT ![w] = Serving(@, j, pc)]
        /\ worker[w].left > 0 /\ failing' = failing
  BY <1>1
<1>2. worker[w] \in WorkerState /\ worker[w].left \in Nat /\ OneJobOnly(w)
  BY CallFields DEF CallInv, TypeOK, WorkersOK
<1>3. PICK s : /\ s.left = worker[w].left - 1 /\ s.open = worker[w].open
               /\ s.target = worker[w].target /\ worker' = [worker EXCEPT ![w] = s]
  <2>. DEFINE q == Serving(worker[w], j, pc)
  <2>1. q.left = worker[w].left - 1 /\ q.open = worker[w].open /\ q.target = worker[w].target
    BY <1>2, ServingFields
  <2>2. worker' = [worker EXCEPT ![w] = q]
    BY <1>0
  <2>. HIDE DEF q
  <2>. QED  BY <2>1, <2>2
<1>4. \A v \in Workers \ {w} : HoldsRow(v)' => HoldsRow(v)
  BY <1>0 DEF Update, HoldsRow, TypeOK, LocksOK
<1>5. \A v \in Workers : HoldsResult(v)' => HoldsResult(v)
  BY <1>0 DEF HoldsResult
<1>6. ~worker[w].open => ~HoldsRow(w)' /\ ~HoldsResult(w)'
  BY <1>0, ClosedHoldsNothing DEF Update, HoldsRow, HoldsResult
<1>7. s.target # NoJob => s.left = 0 /\ ~worker[w].open
  BY <1>0, <1>2, <1>3 DEF OneJobOnly
<1>8. s.target # NoJob =>
      /\ s.left <= 1
      /\ s.left > 0 => ~s.open /\ s.pc \in {"recover", "claim"}
      /\ HoldsRow(w)' => s.pc = "claim" /\ s.left = 0
      /\ HoldsResult(w)' => s.pc \in {"failjob", "claim"} /\ s.left = 0
  BY <1>6, <1>7
<1>. QED  BY <1>3, <1>4, <1>5, <1>8, CallStays

LEMMA MarkAnalysisCall ==
  ASSUME TypeOK, CallInv, NEW w \in Workers, MarkAnalysisFailed(w)
  PROVE  CallInv'
<1>1. Mine(w).mail \in Mails /\ Mine(w).kind \in Kinds
  BY InJob DEF MarkAnalysisFailed, At, Job
<1>2. \A v \in Workers \ {w} : HoldsResult(v)' => HoldsResult(v)
  BY <1>1 DEF MarkAnalysisFailed, HoldsResult, TypeOK, LocksOK
<1>3. worker[w].pc = "fail" /\ lock' = lock /\ Goto(w, "failjob")
  BY DEF MarkAnalysisFailed, At
<1>. QED  BY <1>2, <1>3, WithinCall

LEMMA MarkJobCall ==
  ASSUME TypeOK, CallInv, NEW w \in Workers, NEW status, MarkJob(w, status),
         worker[w].pc \in {"succeed", "failjob"}
  PROVE  CallInv'
<1>1. PICK j \in JobId : \E r : Update(w, j, r)
  BY InJob DEF MarkJob
<1>2. worker[w] \in WorkerState /\ worker[w].left \in Nat /\ OneJobOnly(w)
  BY CallFields DEF CallInv, TypeOK, WorkersOK
<1>3. PICK s : /\ s.left = worker[w].left /\ s.target = worker[w].target /\ s.pc = "claim"
               /\ worker' = [worker EXCEPT ![w] = s]
  BY <1>2, TurnFields DEF MarkJob, NextTurn
<1>4. \A v \in Workers \ {w} : HoldsRow(v)' => HoldsRow(v)
  BY <1>1 DEF Update, HoldsRow, TypeOK, LocksOK
<1>5. \A v \in Workers : HoldsResult(v)' => HoldsResult(v)
  BY DEF HoldsResult, MarkJob
<1>6. s.target # NoJob => s.left = 0
  BY <1>2, <1>3 DEF OneJobOnly
<1>7. s.target # NoJob =>
      /\ s.left <= 1
      /\ s.left > 0 => ~s.open /\ s.pc \in {"recover", "claim"}
      /\ HoldsRow(w)' => s.pc = "claim" /\ s.left = 0
      /\ HoldsResult(w)' => s.pc \in {"failjob", "claim"} /\ s.left = 0
  BY <1>3, <1>6
<1>. QED  BY <1>3, <1>4, <1>5, <1>7, CallStays

LEMMA EndCall ==
  ASSUME TypeOK, CallInv, NEW w \in Workers, Return(w) \/ Crash(w)
  PROVE  CallInv'
<1>1. Release(w)
  BY DEF Return, Crash
<1>2. worker' = [worker EXCEPT ![w] = Idle] /\ Idle.target = NoJob
  BY <1>1 DEF Release, Idle
<1>3. \A v \in Workers \ {w} : (HoldsRow(v)' => HoldsRow(v)) /\ (HoldsResult(v)' => HoldsResult(v))
  BY <1>1, ReleaseFacts, NamesAssumption DEF HoldsRow, HoldsResult
<1>. QED  BY <1>2, <1>3, CallStays

LEMMA StepCall ==
  ASSUME TypeOK, CallInv, [Next]_vars
  PROVE  CallInv'
<1>1. CASE UNCHANGED <<lock, failing, worker>>
  BY <1>1 DEF CallInv, OneJobOnly, HoldsRow, HoldsResult
<1>2. ASSUME NEW w \in Workers, Work(w) \/ Crash(w)  PROVE CallInv'
  <2>1. CASE RecoverStaleJobs(w)  BY <2>1, RecoverCall
  <2>2. CASE ClaimNextJob(w)  BY <2>2, ClaimCall
  <2>3. CASE CurrentAiResult(w)
    <3>1. PICK pc \in {"succeed", "decide"} :
            worker' = [worker EXCEPT ![w] = [@ EXCEPT !.open = TRUE, !.pc = pc]]
      BY <2>3 DEF CurrentAiResult
    <3>2. worker[w].pc = "lookup" /\ lock' = lock /\ failing' = failing
      BY <2>3 DEF CurrentAiResult, At
    <3>. QED  BY <3>1, <3>2, WithinCall
  <2>4. CASE RunMailDecision(w)
    <3>1. PICK pc \in {"save", "fail", "succeed"} : Goto(w, pc)
      BY <2>4 DEF RunMailDecision
    <3>2. worker[w].pc = "decide" /\ lock' = lock /\ failing' = failing
      BY <2>4 DEF RunMailDecision, At
    <3>. QED  BY <3>1, <3>2, WithinCall
  <2>5. CASE SaveDecision(w)
    <3>1. PICK pc \in {"fail", "succeed"} : Goto(w, pc)
      BY <2>5 DEF SaveDecision
    <3>2. worker[w].pc = "save" /\ lock' = lock /\ failing' = failing
      BY <2>5 DEF SaveDecision, At
    <3>. QED  BY <3>1, <3>2, WithinCall
  <2>6. CASE MarkAnalysisFailed(w)  BY <2>6, MarkAnalysisCall
  <2>7. CASE MarkJobSuccess(w)  BY <2>7, MarkJobCall DEF MarkJobSuccess, At
  <2>8. CASE MarkJobFailed(w)  BY <2>8, MarkJobCall DEF MarkJobFailed, At
  <2>9. CASE Return(w) \/ Crash(w)  BY <2>9, EndCall
  <2>. QED  BY <1>2, <2>1, <2>2, <2>3, <2>4, <2>5, <2>6, <2>7, <2>8, <2>9 DEF Work
<1>3. ASSUME NEW w \in Workers, RunPending(w) \/ (\E j \in JobId : RunOne(w, j))
      PROVE  CallInv'
  BY <1>3, CalledCall
<1>4. CASE \/ \E m \in Mails, k \in Kinds : CreateEmailAnalysisJob(m, k)
           \/ \E m \in Mails : DecideOnRequest(m)
           \/ \E j \in JobId : Age(j)
           \/ UNCHANGED vars
  BY <1>1, <1>4 DEF CreateEmailAnalysisJob, DecideOnRequest, Age, vars
<1>. QED  BY <1>2, <1>3, <1>4 DEF Next

LEMMA NoCircleFollows == TypeOK /\ CallInv => NoLockCircle
<1>. SUFFICES ASSUME TypeOK, CallInv, NEW w \in Workers, NEW v \in Workers,
                     CalledForOne(w), CalledForOne(v), v \in Blockers(w), w \in Blockers(v)
              PROVE  FALSE
  BY DEF NoLockCircle
<1>1. OneJobOnly(w) /\ OneJobOnly(v) /\ worker[w].target # NoJob /\ worker[v].target # NoJob
  BY DEF CallInv, CalledForOne
<1>2. ASSUME NEW a \in Workers, NEW b \in Workers, b \in Blockers(a)
      PROVE  /\ worker[a].pc \in {"recover", "save", "fail", "succeed", "failjob"}
             /\ worker[a].pc \in {"recover", "succeed", "failjob"} => HoldsRow(b)
             /\ HoldsRow(b) \/ HoldsResult(b)
  <2>1. CASE worker[a].pc = "recover"
    BY <1>2, <2>1 DEF Blockers, At, HoldsRow
  <2>2. CASE worker[a].pc = "save"
    <3>1. Mine(a).mail \in Mails
      BY <2>2, InJob DEF Job
    <3>. QED  BY <1>2, <2>2, <3>1 DEF Blockers, At, HoldsResult, SavedKinds
  <2>3. CASE worker[a].pc = "fail"
    <3>1. Mine(a).mail \in Mails /\ Mine(a).kind \in Kinds
      BY <2>3, InJob DEF Job
    <3>. QED  BY <1>2, <2>3, <3>1 DEF Blockers, At, HoldsResult
  <2>4. CASE worker[a].pc \in {"succeed", "failjob"}
    <3>1. worker[a].job \in JobId
      BY <2>4, InJob
    <3>. QED  BY <1>2, <2>4, <3>1 DEF Blockers, At, HoldsRow
  <2>. QED  BY <1>2, <2>1, <2>2, <2>3, <2>4 DEF Blockers, At
<1>3. worker[v].pc # "claim" /\ worker[w].pc # "claim"
  BY <1>2
<1>4. ~HoldsRow(v) /\ ~HoldsRow(w)
  BY <1>1, <1>3 DEF OneJobOnly
<1>5. worker[w].pc \in {"save", "fail"} /\ HoldsResult(w)
  BY <1>2, <1>4
<1>. QED  BY <1>1, <1>5 DEF OneJobOnly

(* Calls for one job never wait for each other in a circle.                *)
THEOREM CallsNeverCircle == Spec => []NoLockCircle
<1>1. Init => CallInv
  BY DEF Init, CallInv, OneJobOnly, Idle
<1>2. TypeOK /\ CallInv /\ [Next]_vars => CallInv'
  BY StepCall
<1>. QED  BY <1>1, <1>2, NoCircleFollows, JobsTypeCorrect, PTL DEF Spec
=============================================================================
