------------------------------ MODULE CaseIndex ------------------------------
(***************************************************************************)
(* The assignment of a mail and what follows it: its work item and its     *)
(* point in the index of similar cases                                     *)
(* (app/repositories/postgres_routing_repository.py,                       *)
(* app/retrieval/qdrant_indexing.py, app/tools/qdrant_similar_case_index). *)
(*                                                                         *)
(* Whoever changes the assignment commits it first; the server, which      *)
(* assigns by hand, then writes the work item; then the row is read again, *)
(* embedded, and written as a point and the record of the point:           *)
(* transactions and requests of their own, with no lock over them.  The    *)
(* repository of the decisions has no work items, that of the mail lists   *)
(* no index.  A failing index is swallowed, a failing work item is not.    *)
(* Of a point, what retrieval asks for is kept: whether the assignment is  *)
(* confirmed, and whose it is.                                             *)
(***************************************************************************)
EXTENDS WorkTracking, Sequences, SequencesExt

CONSTANTS
  Writers,    \* threads and processes that change assignments or index cases
  MaxFaults   \* bound: failing calls, and deaths of a writer

ASSUME MaxFaultsAssumption == MaxFaults \in Nat

VARIABLES
  assignment, \* routing_assignments: the row of each mail
  review,     \* mails whose latest run has status review_required
  trashed,    \* mails with deleted_at set
  autoForwarded, \* mails with the notification auto-route:<mail>
  point,      \* the point of each mail in Qdrant
  record,     \* qdrant_index_records: the point it describes
  writer,     \* control state of each writer
  aside,      \* history: mails whose follower met another writer or a fault
  faults

caseVars == <<assignment, review, trashed, autoForwarded, point, record, writer, aside, faults>>
routingVars == <<vars, caseVars>>

Row == [user : Users \cup {NoUser}, status : {"none", "review_required", "assigned", "forwarded"},
        source : {"none", "user", "mail_decision_policy"}]
NoRow == [user |-> NoUser, status |-> "none", source |-> "none"]
Point == [indexed : BOOLEAN, confirmed : BOOLEAN, user : Users \cup {NoUser}]
NoPoint == [indexed |-> FALSE, confirmed |-> FALSE, user |-> NoUser]
IdleWriter == [mail |-> "none", todo |-> <<>>, user |-> NoUser, read |-> NoPoint]

Busy(w) == writer[w].todo # <<>>
OthersAt(w, m) == \E v \in Writers \ {w} : Busy(v) /\ writer[v].mail = m

(* CONFIRMED_ASSIGNMENT_STATUSES; nothing sets an assignment to completed. *)
Confirmed(row) == row.user # NoUser /\ row.status \in {"assigned", "forwarded"}

(* build_production_similar_case_point                                     *)
PointOf(row) ==
  [indexed |-> TRUE, confirmed |-> Confirmed(row),
   user |-> IF Confirmed(row) THEN row.user ELSE NoUser]

-----------------------------------------------------------------------------
(* Writers.  A change of the assignment is committed at once; todo lists   *)
(* what its function does afterwards.                                      *)

IndexSteps == <<"read", "upsert", "record">>
(* Mutant: a mail that goes back into review is not indexed again.         *)
ReviewStepsUnindexed == <<>>
(* apply_decision                                                          *)
ReviewSteps == IndexSteps
(* apply_decision, then mark_auto_forwarded                                *)
AutoSteps == <<"read", "upsert", "record", "auto_forward", "read", "upsert", "record">>
(* Mutant: the work item is left to the first assignment.                  *)
HandStepsUntracked == IndexSteps
(* assign_review_required_mail                                             *)
HandSteps == <<"work_item", "read", "upsert", "record">>
(* mark_manual_forward_sent                                                *)
ForwardSteps == <<"forward", "read", "upsert", "record">>

Start(w, m, todo, user) ==
  /\ ~Busy(w)
  /\ writer' = [writer EXCEPT ![w] = [mail |-> m, todo |-> todo, user |-> user, read |-> NoPoint]]

(* What follows the assignment of m starts anew here, undisturbed if no    *)
(* other writer is at work on the mail; otherwise both followers are.      *)
Disturb(w, m, anew) ==
  aside' = [f \in {"work", "index"} |->
              IF OthersAt(w, m) THEN aside[f] \cup {m}
              ELSE IF f \in anew THEN aside[f] \ {m} ELSE aside[f]]
PutAside(m, followers) ==
  aside' = [f \in {"work", "index"} |-> IF f \in followers THEN aside[f] \cup {m} ELSE aside[f]]

ApplyDecision(w, m, user) ==
  /\ Start(w, m, IF user = NoUser THEN ReviewSteps ELSE AutoSteps, NoUser)
  /\ assignment' = [assignment EXCEPT ![m] =
       [user |-> user, status |-> IF user = NoUser THEN "review_required" ELSE "assigned",
        source |-> "mail_decision_policy"]]
  /\ Disturb(w, m, {})
  /\ UNCHANGED <<vars, review, trashed, autoForwarded, point, record, faults>>

(* assign_review_required_mail: the run in review is completed with it.    *)
AssignByHand(w, m, user) ==
  /\ assignment[m].status = "review_required" \/ m \in review
  /\ Start(w, m, HandSteps, user)
  /\ assignment' = [assignment EXCEPT ![m] = [user |-> user, status |-> "assigned", source |-> "user"]]
  /\ review' = review \ {m}
  /\ Disturb(w, m, {"work"})
  /\ UNCHANGED <<vars, trashed, autoForwarded, point, record, faults>>

(* A run is saved in review, or a new run begins.                          *)
SaveRun(m) ==
  /\ review' = IF m \in review THEN review \ {m} ELSE review \cup {m}
  /\ UNCHANGED <<vars, assignment, trashed, autoForwarded, point, record, writer, aside, faults>>

(* The thread that forwards by hand is done.                               *)
Forward(w, m) ==
  /\ Start(w, m, ForwardSteps, NoUser)
  /\ UNCHANGED <<vars, assignment, review, trashed, autoForwarded, point, record, aside, faults>>
(* The sweep of a mail list (forward_auto_assigned_without_notification).  *)
Sweep(w, m) ==
  /\ assignment[m].status = "assigned"
  /\ Start(w, m, <<"auto_forward">>, NoUser)
  /\ UNCHANGED <<vars, assignment, review, trashed, autoForwarded, point, record, aside, faults>>

(* index-email and reindex-production of the command line, maybe only of   *)
(* confirmed assignments.                                                  *)
Reindex(w, m) ==
  /\ m \notin trashed
  /\ Start(w, m, IndexSteps, NoUser)
  /\ UNCHANGED <<vars, assignment, review, trashed, autoForwarded, point, record, aside, faults>>

-----------------------------------------------------------------------------
AtStep(w, step) == Busy(w) /\ Head(writer[w].todo) = step
Advance(w) == writer' = [writer EXCEPT ![w] =
  IF Len(@.todo) = 1 THEN IdleWriter ELSE [@ EXCEPT !.todo = Tail(writer[w].todo)]]
(* index_email ends here: the steps of this pass that are left are dropped. *)
EndPass(w) == writer' = [writer EXCEPT ![w] =
  IF "auto_forward" \in ToSet(@.todo)
  THEN [@ EXCEPT !.todo = <<"auto_forward", "read", "upsert", "record">>, !.read = NoPoint]
  ELSE IdleWriter]

EnsureWorkItem(w) ==
  LET m == writer[w].mail IN
  /\ AtStep(w, "work_item")
  /\ IF Has(m) /\ item[m].assignee = writer[w].user THEN UNCHANGED vars
     ELSE EnsureForAssignment(m, writer[w].user)
  /\ writer' = [writer EXCEPT ![w] = [@ EXCEPT !.todo = Tail(writer[w].todo), !.user = NoUser]]
  /\ UNCHANGED <<assignment, review, trashed, autoForwarded, point, record, aside, faults>>

(* mark_manual_forward_sent, mark_auto_forwarded: a mail without a row has *)
(* none to update.                                                         *)
SetForwarded(w, m) ==
  /\ assignment' = [assignment EXCEPT ![m] = IF @ = NoRow THEN @ ELSE [@ EXCEPT !.status = "forwarded"]]
  /\ Disturb(w, m, {})
  /\ Advance(w)
MarkForwarded(w) ==
  /\ AtStep(w, "forward")
  /\ SetForwarded(w, writer[w].mail)
  /\ UNCHANGED <<vars, review, trashed, autoForwarded, point, record, faults>>
MarkAutoForwarded(w) ==
  LET m == writer[w].mail IN
  /\ AtStep(w, "auto_forward")
  /\ m \notin autoForwarded
  /\ SetForwarded(w, m)
  /\ autoForwarded' = autoForwarded \cup {m}
  /\ UNCHANGED <<vars, review, trashed, point, record, faults>>
(* The key of the notification is taken: the function raises.              *)
AutoForwardRefused(w) ==
  /\ AtStep(w, "auto_forward")
  /\ writer[w].mail \in autoForwarded
  /\ writer' = [writer EXCEPT ![w] = IdleWriter]
  /\ UNCHANGED <<vars, assignment, review, trashed, autoForwarded, point, record, aside, faults>>

(* _load_email_case                                                        *)
LoadCase(w) ==
  LET m == writer[w].mail IN
  /\ AtStep(w, "read")
  /\ m \notin trashed
  /\ writer' = [writer EXCEPT ![w] = [@ EXCEPT !.todo = Tail(writer[w].todo), !.read = PointOf(assignment[m])]]
  /\ Disturb(w, m, {"index"})
  /\ UNCHANGED <<vars, assignment, review, trashed, autoForwarded, point, record, faults>>
SkipTrashed(w) ==
  /\ AtStep(w, "read")
  /\ writer[w].mail \in trashed
  /\ EndPass(w)
  /\ PutAside(writer[w].mail, {"index"})
  /\ UNCHANGED <<vars, assignment, review, trashed, autoForwarded, point, record, faults>>

UpsertPoint(w) ==
  /\ AtStep(w, "upsert")
  /\ point' = [point EXCEPT ![writer[w].mail] = writer[w].read]
  /\ Advance(w)
  /\ UNCHANGED <<vars, assignment, review, trashed, autoForwarded, record, aside, faults>>

(* _save_index_record                                                      *)
SaveIndexRecord(w) ==
  /\ AtStep(w, "record")
  /\ record' = [record EXCEPT ![writer[w].mail] = writer[w].read]
  /\ writer' = [writer EXCEPT ![w] =
       IF Len(@.todo) = 1 THEN IdleWriter ELSE [@ EXCEPT !.todo = Tail(writer[w].todo), !.read = NoPoint]]
  /\ UNCHANGED <<vars, assignment, review, trashed, autoForwarded, point, aside, faults>>

Fault == faults < MaxFaults /\ faults' = faults + 1
(* sync_assignment_index swallows what index_email raises.                 *)
IndexFails(w) ==
  /\ Fault
  /\ AtStep(w, "read") \/ AtStep(w, "upsert") \/ AtStep(w, "record")
  /\ EndPass(w)
  /\ PutAside(writer[w].mail, {"index"})
  /\ UNCHANGED <<vars, assignment, review, trashed, autoForwarded, point, record>>
(* The work item or the forward raises, or the writer dies.                *)
WriterEnds(w) ==
  /\ Fault /\ Busy(w)
  /\ writer' = [writer EXCEPT ![w] = IdleWriter]
  /\ PutAside(writer[w].mail, {"work", "index"})
  /\ UNCHANGED <<vars, assignment, review, trashed, autoForwarded, point, record>>

(* mark_trashed and the sync that finds the mail again: neither touches    *)
(* the index.                                                              *)
TrashOrRestore(m) ==
  /\ trashed' = IF m \in trashed THEN trashed \ {m} ELSE trashed \cup {m}
  /\ UNCHANGED <<vars, assignment, review, autoForwarded, point, record, writer, aside, faults>>

RoutingInit ==
  /\ Init
  /\ assignment = [m \in Mails |-> NoRow]
  /\ review = {} /\ trashed = {} /\ autoForwarded = {}
  /\ point = [m \in Mails |-> NoPoint] /\ record = [m \in Mails |-> NoPoint]
  /\ writer = [w \in Writers |-> IdleWriter]
  /\ aside = [f \in {"work", "index"} |-> {}]
  /\ faults = 0

RoutingNext ==
  \/ \E w \in Writers, m \in Mails :
       \/ \E user \in Users \cup {NoUser} : ApplyDecision(w, m, user)
       \/ \E user \in Users : AssignByHand(w, m, user)
       \/ Forward(w, m) \/ Sweep(w, m) \/ Reindex(w, m)
  \/ \E w \in Writers :
       \/ EnsureWorkItem(w) \/ MarkForwarded(w) \/ MarkAutoForwarded(w) \/ AutoForwardRefused(w)
       \/ LoadCase(w) \/ SkipTrashed(w)
       \/ UpsertPoint(w) \/ SaveIndexRecord(w) \/ IndexFails(w) \/ WriterEnds(w)
  \/ \E m \in Mails : SaveRun(m) \/ TrashOrRestore(m)

RoutingSpec == RoutingInit /\ [][RoutingNext]_routingVars

-----------------------------------------------------------------------------
AtRest(m) == \A w \in Writers : ~(Busy(w) /\ writer[w].mail = m)

(* At rest the operator to whom a person gave the mail has the work item   *)
(* of it, however the mail was decided, taken back into review, assigned   *)
(* to others, forwarded and trashed before; unless that assignment         *)
(* overlapped another writer or failed halfway (ensure_for_assignment runs *)
(* in a transaction after the one of assign_review_required_mail).         *)
WorkItemFollows ==
  \A m \in Mails :
    AtRest(m) /\ m \notin aside.work /\ assignment[m].source = "user" =>
      Has(m) /\ item[m].assignee = assignment[m].user

(* At rest the case that retrieval offers as evidence, and the record of   *)
(* it, are those of the present assignment, whatever failed before: an     *)
(* index pass that nothing overlaps repairs what earlier ones left         *)
(* (index_email, at the end of every change of an assignment and of every  *)
(* reindex; the sweep, which has no index, changes nothing retrieval sees).*)
IndexFollows ==
  \A m \in Mails :
    AtRest(m) /\ m \notin aside.index /\ assignment[m] # NoRow =>
      point[m] = PointOf(assignment[m]) /\ record[m] = point[m]
=============================================================================
