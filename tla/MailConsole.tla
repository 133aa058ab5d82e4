------------------------------ MODULE MailConsole ------------------------------
(***************************************************************************)
(* The pages of one mail while it is decided, assigned and forwarded       *)
(* (ManualForward): what the ops console, the dashboard and the decision   *)
(* panel say of it and which buttons they offer (OpsStages).               *)
(***************************************************************************)
EXTENDS ManualForward, OpsStages

CONSTANT Executions   \* statuses its work item may have, "" if there is none

ASSUME ExecutionsAssumption ==
  Executions \subseteq {"", "assigned", "acknowledged", "in_progress", "responded", "completed"}

(* The columns of its row of list_messages that ManualForward holds; the   *)
(* rest, a work item, an analysis and attachments, may be anywhere.        *)
Held == [routing : {"", "review_required", "assigned", "forwarded"}, assigned : BOOLEAN,
         forwardedAt : BOOLEAN, manual : {"", "pending", "sent", "failed"},
         run : {"", "running", "auto_assigned", "review_required", "completed", "failed"}]
(* One attachment that is understood, and perhaps another one: its analysis *)
(* waits, has failed, or told nothing of it.                               *)
Understood == [status |-> "completed", label |-> "rfq"]
Other == [status : {"pending", "failed", "completed", "downloaded"}, label : {"", "unresolved"}]
Attached == {{}, {Understood}} \cup {{Understood, a} : a \in Other}
Rest == [execution : Executions, analysis : {"success", "running", "failed"}, files : Attached]

Message(held, rest) ==
  [routing |-> held.routing, assigned |-> held.assigned, forwardedAt |-> held.forwardedAt,
   run |-> held.run, manual |-> held.manual, execution |-> rest.execution,
   classified |-> rest.analysis = "success", classification |-> "",
   summarised |-> rest.analysis = "success", summary |-> "", job |-> rest.analysis]

(* What its pages show of a message.                                       *)
View == [confirm : BOOLEAN, assign : BOOLEAN, forwarded : BOOLEAN, complete : BOOLEAN,
         analysed : BOOLEAN]
Page(m, files) ==
  [confirm |-> CanConfirm(m), assign |-> CanAssign(m), forwarded |-> IsForwarded(m),
   complete |-> PipelineStatus(m, files) = "completed" \/ RowReady(m, files),
   analysed |-> \A a \in files : a.status = "completed" /\ a.label # "unresolved"]
Shown == [held \in Held |-> {Page(Message(held, rest), rest.files) : rest \in Rest}]

(* A run that has chosen is still running, and a time of forwarding is     *)
(* never taken back.                                                       *)
Columns ==
  [routing |-> IF assignment.status = "none" THEN "" ELSE assignment.status,
   assigned |-> assignment.user # NoUser,
   forwardedAt |-> \E n \in NoteId : note[n].status = "sent",
   manual |-> IF LatestStatus = "none" THEN "" ELSE LatestStatus,
   run |-> CASE run = "none" -> ""
             [] run \in {"auto", "review"} -> "running"
             [] run = "auto_failed" -> "failed"
             [] OTHER -> run]
Pages == Shown[Columns]

Sent == {n \in NoteId : note[n].status = "sent"}

-----------------------------------------------------------------------------
(* The buttons that assign a mail are those of a mail that waits for a     *)
(* person: the console confirms only what the panel assigns too, each only *)
(* what assign_review_required_mail accepts, and the console only with a   *)
(* run in review, the one whose first candidate it assigns.  The panel     *)
(* offers every mail whose run and assignment are both in review, the      *)
(* console every such mail that was never forwarded, whatever runs,        *)
(* forwards and operators have done to it.                                 *)
ReviewOffered ==
  \A page \in Pages :
    /\ page.confirm => page.assign /\ run = "review_required"
    /\ page.assign => AcceptsAssignment
    /\ assignment.status = "review_required" /\ run = "review_required" =>
         page.assign /\ (Sent = {} => page.confirm)

(* A mail is shown as forwarded only if it was sent to somebody, and as    *)
(* completely processed only if it has an assignee besides, each of its    *)
(* attachments is analysed and none of an unresolved type, no run of it is *)
(* under way or has failed, and a forwarded one was sent to that assignee, *)
(* unless the assignee changed during a forward.                           *)
ShownDelivered ==
  \A page \in Pages :
    /\ page.forwarded => Sent # {}
    /\ page.complete =>
         /\ assignment.user # NoUser /\ Sent # {} /\ page.analysed
         /\ run \in {"auto_assigned", "review_required", "completed"}
         /\ assignment.status = "forwarded" /\ ~moved =>
              \E n \in Sent : note[n].user = assignment.user
=============================================================================
