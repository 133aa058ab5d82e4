------------------------------- MODULE OpsStages -------------------------------
(***************************************************************************)
(* What the pages show of a mail, from the columns the mail list selects   *)
(* (app/services/postgres_mail_service.py) and the stages of the ops       *)
(* console and of the decision panel (app/server.py): pure functions.      *)
(*                                                                         *)
(* A message is a record of those columns: routing is the status of its    *)
(* assignment, assigned whether it names a user, forwardedAt whether its   *)
(* time of forwarding is set, run the status of the latest run, manual     *)
(* that of the latest forward, execution that of the work item, job that   *)
(* of the latest analysis job; classified and classification, summarised   *)
(* and summary tell of those results.  "" is a column without a value.     *)
(***************************************************************************)
EXTENDS Naturals, Sequences

(* _has_confirmed_assignee: nobody else's name is shown.                   *)
HasConfirmedAssignee(m) == m.assigned /\ m.routing \in {"assigned", "forwarded", "completed"}

Progress(status) ==
  CASE status = "pending" -> "queued"
    [] status \in {"processing", "running"} -> "running"
    [] status = "failed" -> "failed"
    [] OTHER -> ""
(* A result that is there, else the state of the result, else of the job.  *)
ResultState(there, result, job, none) ==
  CASE there -> "completed"
    [] Progress(result) # "" -> Progress(result)
    [] Progress(job) # "" -> Progress(job)
    [] OTHER -> none
ClassificationState(m) == ResultState(m.classified, m.classification, m.job, "unclassified")
SummaryState(m) == ResultState(m.summarised, m.summary, m.job, "not_started")

(* _work_status, which gives way to the status of the work item.           *)
AnalysisStatus(m) ==
  LET results == {m.classification, m.summary}
      states == {m.run, m.job, ClassificationState(m)}
  IN  CASE "failed" \in states \cup results -> "failed"
        [] "running" \in states \/ "processing" \in results -> "running"
        [] m.routing = "forwarded" \/ m.manual = "sent" -> "forwarded"
        [] m.run = "auto_assigned" -> "auto_assigned"
        [] HasConfirmedAssignee(m) -> "assigned"
        [] "review_required" \in {m.run, m.routing} -> "review_required"
        [] "queued" \in states \/ "pending" \in {m.job} \cup results -> "queued"
        [] ClassificationState(m) = "completed" -> "completed"
        [] OTHER -> "unclassified"
WorkStatus(m) == IF m.execution # "" THEN m.execution ELSE AnalysisStatus(m)

(* _manual_route_state                                                     *)
ManualRoute(m) ==
  CASE m.manual = "pending" -> "pending"
    [] m.manual = "sent" \/ m.routing = "forwarded" -> "sent"
    [] m.manual = "failed" -> "failed"
    [] OTHER -> ""
(* The button of the mail list.                                            *)
CanForward(m) == HasConfirmedAssignee(m) /\ ManualRoute(m) # "pending"

-----------------------------------------------------------------------------
(* The dashboard and the ops console.                                      *)

(* _is_forwarded_row, _has_confirmed_or_forwarded_routing                  *)
IsForwarded(m) ==
  "forwarded" \in {WorkStatus(m), m.routing} \/ m.forwardedAt \/ ManualRoute(m) = "sent"
IsSettled(m) ==
  IsForwarded(m) \/ m.routing \in {"assigned", "completed", "auto_assigned"} \/ HasConfirmedAssignee(m)

(* ops_attachment_stage, of the status and the label of each attachment.   *)
AttachmentStage(attachments) ==
  LET statuses == {a.status : a \in attachments}
      Some(wanted) == statuses \cap wanted # {}
  IN  CASE attachments = {} -> "skipped"
        [] Some({"failed", "error"}) -> "failed"
        [] Some({"pending", "queued"}) -> "queued"
        [] Some({"running", "processing"}) -> "running"
        [] Some({"", "unknown", "downloaded", "received"}) -> "not_started"
        [] \A a \in attachments : a.label = "" -> "not_started"
        [] \E a \in attachments : a.label = "unresolved" -> "not_started"
        [] ~statuses \subseteq {"completed", "partial_success", "success"} -> "not_started"
        [] OTHER -> "completed"

ClassificationStage(m) ==
  IF ClassificationState(m) = "unclassified" THEN "not_started" ELSE ClassificationState(m)
DecisionStage(m) ==
  CASE m.run = "" -> "not_started"
    [] m.run = "review_required" /\ IsSettled(m) -> "completed"
    [] OTHER -> m.run
RoutingStage(m) ==
  CASE HasConfirmedAssignee(m) -> "completed"
    [] "review_required" \in {WorkStatus(m), m.routing} -> "review_required"
    [] OTHER -> "not_started"
(* Mutant: a forward that is under way counts as done.                     *)
ForwardingStageEarly(m) ==
  CASE ManualRoute(m) \in {"sent", "pending"} \/ IsForwarded(m) -> "completed"
    [] ManualRoute(m) = "failed" -> "failed"
    [] HasConfirmedAssignee(m) -> "not_started"
    [] OTHER -> "skipped"
ForwardingStage(m) ==
  CASE ManualRoute(m) = "sent" \/ IsForwarded(m) -> "completed"
    [] ManualRoute(m) = "pending" -> "running"
    [] ManualRoute(m) = "failed" -> "failed"
    [] HasConfirmedAssignee(m) -> "not_started"
    [] OTHER -> "skipped"

Stages(m, attachments) ==
  <<AttachmentStage(attachments), SummaryState(m), ClassificationStage(m), DecisionStage(m),
    RoutingStage(m), ForwardingStage(m)>>

(* ops_pipeline_status                                                     *)
Done == {"completed", "skipped", "auto_assigned", "assigned", "forwarded"}
PipelineStatus(m, attachments) ==
  LET stages == Stages(m, attachments)
      analysed == \A i \in 1 .. 5 : stages[i] \in Done
  IN  CASE analysed /\ stages[6] = "completed" -> "completed"
        [] analysed /\ stages[6] \in {"not_started", "queued", "running", "skipped"} -> "delivery_pending"
        [] OTHER -> "incomplete"
(* ops_row_ready, the rows the console counts as ready.                    *)
RowReady(m, attachments) ==
  LET stages == Stages(m, attachments)
  IN  /\ stages[1] \in {"completed", "skipped"}
      /\ \A i \in {2, 3, 4, 6} : stages[i] = "completed"
      /\ stages[5] \in {"completed", "assigned", "auto_assigned", "forwarded"}

(* Mutant: either of the two stages is enough.                             *)
CanConfirmEither(m) == RoutingStage(m) = "review_required" \/ DecisionStage(m) = "review_required"
(* can_confirm_review_candidate: the button that assigns the top candidate. *)
CanConfirm(m) == RoutingStage(m) = "review_required" /\ DecisionStage(m) = "review_required"

-----------------------------------------------------------------------------
(* The decision panel of one mail.                                         *)

PanelStatus(m) ==
  CASE m.routing = "forwarded" -> "forwarded"
    [] m.routing \in {"assigned", "completed"} -> "assigned"
    [] OTHER -> m.run
(* can_manual_assign, where there are active users to choose from.         *)
CanAssign(m) == PanelStatus(m) = "review_required"
=============================================================================
