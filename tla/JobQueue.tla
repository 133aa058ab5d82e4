------------------------------ MODULE JobQueue ------------------------------
(***************************************************************************)
(* What the queue of analysis jobs promises to the pages and pollers that  *)
(* register jobs and read their rows, with no worker, connection or        *)
(* transaction in sight: AnalysisJobs implements it.                       *)
(***************************************************************************)
EXTENDS Naturals

CONSTANTS
  Mails,        \* rows of email_messages
  Kinds,        \* the analysis types requested
  MaxAttempts,  \* max_attempts of a job
  MaxJobs       \* bound: jobs ever registered

VARIABLE rows   \* the row of each job as a reader finds it

JobId == 1 .. MaxJobs
Row == [mail: Mails, kind: Kinds,
        status: {"pending", "running", "success", "failed"},
        attempt: 0 .. MaxAttempts]
Unused == [status |-> "unused"]

Active(r) == r.status \in {"pending", "running"}

Init == rows = [j \in JobId |-> Unused]

(* A job is added only if none of its mail and type is active.             *)
Register(j, m, k) ==
  /\ rows[j] = Unused
  /\ \A i \in JobId : Active(rows[i]) => rows[i].mail # m \/ rows[i].kind # k
  /\ rows' = [rows EXCEPT ![j] = [mail |-> m, kind |-> k, status |-> "pending", attempt |-> 0]]

(* A pending job is taken for one attempt more, and may have ended by the  *)
(* time that is seen.                                                      *)
Taken(r, s) ==
  /\ r.status = "pending"
  /\ s.status # "pending" /\ s.attempt = r.attempt + 1

(* A running job goes back to the queue while it has attempts left.        *)
Requeued(r, s) ==
  /\ r.status = "running"
  /\ s.status = "pending" /\ s.attempt = r.attempt /\ s.attempt < MaxAttempts

(* A job ends, on time, after it was given to another worker, or again.    *)
Ended(r, s) ==
  s.status \in {"success", "failed"} /\ s.attempt = r.attempt

Moves(r, s) ==
  /\ r # Unused /\ s # Unused
  /\ s.mail = r.mail /\ s.kind = r.kind
  /\ Taken(r, s) \/ Requeued(r, s) \/ Ended(r, s)

(* One commit may show the moves of several jobs.                          *)
Commit ==
  /\ rows' \in [JobId -> Row \cup {Unused}]
  /\ \A j \in JobId : rows'[j] = rows[j] \/ Moves(rows[j], rows'[j])

Next ==
  \/ \E j \in JobId, m \in Mails, k \in Kinds : Register(j, m, k)
  \/ Commit

Spec == Init /\ [][Next]_rows
=============================================================================
