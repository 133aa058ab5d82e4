---------------------------- MODULE WorkTracking ----------------------------
(***************************************************************************)
(* The work items of routed mails: the state of an operator's work on a    *)
(* mail (table work_items), its record of events (work_events), and the    *)
(* synchronisation of sent mail that is to detect replies                  *)
(* (app/repositories/postgres_work_tracking_repository.py).                *)
(*                                                                         *)
(* Every operation locks the item's row, tests the actor and the status    *)
(* under the lock, and commits the row with its event: one action each.    *)
(* Of the timestamps, only whether they are set is kept.                   *)
(***************************************************************************)
EXTENDS Naturals, FiniteSets

CONSTANTS
  Mails,     \* rows of email_messages
  Threaded,  \* those with a Gmail thread id (a mail of another provider has none)
  Users,     \* operators
  NoUser     \* no operator: assignee_user_id is None

ASSUME ThreadedAssumption == Threaded \subseteq Mails
ASSUME NoUserAssumption == NoUser \notin Users

VARIABLES
  item,       \* the work item of each mail
  events,     \* work_events: type, mail and actor of each kind of event recorded
  sent,       \* the newest mail sent in each mail's thread, see SentMail
  lastError   \* the Gmail service shows a synchronisation error

vars == <<item, events, sent, lastError>>

Statuses == {"assigned", "acknowledged", "in_progress", "responded", "completed"}

(* The flags stand for acknowledged_at, reply_initiated_at and             *)
(* completed_at; nothing ever sets responded_at (see SyncOutbound).        *)
Item == [assignee: Users, status: Statuses, acknowledged: BOOLEAN,
         replyInitiated: BOOLEAN, completed: BOOLEAN]
NoItem == [status |-> "none"]

(* Nothing sent, or sent before the item's reply_initiated_at, or after it. *)
SentMail == {"none", "earlier", "reply"}

NewItem(u) == [assignee |-> u, status |-> "assigned", acknowledged |-> FALSE,
               replyInitiated |-> FALSE, completed |-> FALSE]

EventTypes == {"acknowledged", "in_progress_on", "in_progress_off",
               "reply_initiated", "completed"}
Event(type, m, u) == [type |-> type, mail |-> m, actor |-> u]

Has(m) == item[m] # NoItem

(* A new or cleared reply_initiated_at leaves what was sent behind.        *)
Overtaken(m) == [sent EXCEPT ![m] = IF @ = "reply" THEN "earlier" ELSE @]

Init ==
  /\ item = [m \in Mails |-> NoItem]
  /\ events = {}
  /\ sent = [m \in Mails |-> "none"]
  /\ lastError = FALSE

-----------------------------------------------------------------------------
(* ensure_for_assignment: the upsert.  Another assignee starts afresh; for *)
(* the same one only the dates change.  (Its event names no operator.)     *)
StatusOnlyReset(m, u) ==            \* mutation: progress survives
  [item[m] EXCEPT !.assignee = u, !.status = "assigned"]

Reassigned(m, u) == NewItem(u)

AssigneeGiven(u) == u # NoUser

EnsureForAssignment(m, u) ==
  /\ AssigneeGiven(u)
  /\ Has(m) => item[m].assignee # u
  /\ item' = [item EXCEPT ![m] = IF Has(m) THEN Reassigned(m, u) ELSE NewItem(u)]
  /\ sent' = Overtaken(m)
  /\ UNCHANGED <<events, lastError>>

(* _lock_assignee_work: anyone else, or a mail without item, is refused.   *)
AnyWork(m, u) == Has(m)             \* mutation: whoever asks

AssigneeWork(m, u) == Has(m) /\ item[m].assignee = u

Record(type, m, u, row) ==
  /\ item' = [item EXCEPT ![m] = row]
  /\ events' = events \cup {Event(type, m, u)}
  /\ UNCHANGED lastError

(* acknowledge_if_assignee, at every opening of the mail's page; nothing   *)
(* happens when somebody else opens it.                                    *)
AcknowledgeIfAssignee(m, u) ==
  /\ AssigneeWork(m, u)
  /\ item[m].status = "assigned" \/ ~item[m].acknowledged
  /\ Record("acknowledged", m, u,
            [item[m] EXCEPT !.status = IF @ = "assigned" THEN "acknowledged" ELSE @,
                            !.acknowledged = TRUE])
  /\ UNCHANGED sent

(* set_in_progress: refused once the work is answered or completed.        *)
ToggleableLate == {"assigned", "acknowledged", "in_progress", "completed"}  \* mutation

Toggleable == {"assigned", "acknowledged", "in_progress"}

NextStatus(status, active) ==
  IF active THEN "in_progress"
  ELSE IF status = "in_progress" THEN "acknowledged" ELSE status

SetInProgress(m, u, active) ==
  LET next == NextStatus(item[m].status, active)
  IN  /\ AssigneeWork(m, u)
      /\ item[m].status \in Toggleable
      /\ item[m].status # next
      /\ Record(IF active THEN "in_progress_on" ELSE "in_progress_off", m, u,
                [item[m] EXCEPT !.status = next, !.acknowledged = TRUE])
      /\ UNCHANGED sent

(* initiate_reply: allowed in every status; it moves the early ones on.    *)
InitiateReply(m, u) ==
  /\ AssigneeWork(m, u)
  /\ m \in Threaded
  /\ Record("reply_initiated", m, u,
            [item[m] EXCEPT
               !.status = IF @ \in {"assigned", "acknowledged"} THEN "in_progress" ELSE @,
               !.acknowledged = TRUE, !.replyInitiated = TRUE])
  /\ sent' = Overtaken(m)

(* complete: from every status.                                            *)
Complete(m, u) ==
  /\ AssigneeWork(m, u)
  /\ Record("completed", m, u, [item[m] EXCEPT !.status = "completed", !.completed = TRUE])
  /\ UNCHANGED sent

(* Somebody sends a mail in the thread with Gmail's own pages.             *)
SendInThread(m) ==
  /\ m \in Threaded
  /\ sent' = [sent EXCEPT ![m] =
                IF Has(m) /\ item[m].replyInitiated THEN "reply" ELSE "earlier"]
  /\ UNCHANGED <<item, events, lastError>>

(* sync_outbound_activity: with nothing sent there is nothing to do.       *)
(* Otherwise write_outbound_and_link first asks for the account's row, by  *)
(* a call of an instance method on its class, with one argument too few.   *)
(* That raises, the transaction is rolled back, and the failure recorded;  *)
(* the code that links a sent mail to a work item is never reached.        *)
AnythingSent == \E m \in Mails : sent[m] # "none"

SyncOutbound ==
  /\ AnythingSent
  /\ lastError' = TRUE
  /\ UNCHANGED <<item, events, sent>>

(* A successful synchronisation of the inbox clears the error.             *)
SyncInbox ==
  /\ lastError' = FALSE
  /\ UNCHANGED <<item, events, sent>>

-----------------------------------------------------------------------------
Work(m, u) ==
  \/ AcknowledgeIfAssignee(m, u)
  \/ \E active \in BOOLEAN : SetInProgress(m, u, active)
  \/ InitiateReply(m, u)
  \/ Complete(m, u)

Next ==
  \/ \E m \in Mails, u \in Users \cup {NoUser} : EnsureForAssignment(m, u)
  \/ \E m \in Mails, u \in Users : Work(m, u)
  \/ \E m \in Mails : SendInThread(m)
  \/ SyncOutbound
  \/ SyncInbox

Spec == Init /\ [][Next]_vars

(* Operators press the dashboard's synchronisation button again and again, *)
(* which synchronises the inbox and then the sent mail (auto_sync_run).    *)
(* Nothing in the code does so by itself; without it no reply could ever   *)
(* be found, whatever the code did.                                        *)
FairSpec == Spec /\ WF_vars(SyncInbox) /\ WF_vars(SyncOutbound)

-----------------------------------------------------------------------------
TypeOK ==
  /\ item \in [Mails -> Item \cup {NoItem}]
  /\ events \subseteq [type: EventTypes, mail: Mails, actor: Users]
  /\ sent \in [Mails -> SentMail]
  /\ lastError \in BOOLEAN

(* What an item shows of its assignee's work was done by that operator,    *)
(* and is on record: neither another operator's clicks nor the progress of *)
(* an earlier assignee ever count for the present one.                     *)
By(m, types) == \E t \in types : Event(t, m, item[m].assignee) \in events

ProgressOnRecord ==
  \A m \in Mails : Has(m) =>
    /\ item[m].acknowledged => By(m, EventTypes \ {"completed"})
    /\ item[m].replyInitiated => By(m, {"reply_initiated"})
    /\ item[m].completed => By(m, {"completed"})
    /\ item[m].status = "in_progress" => By(m, {"in_progress_on", "reply_initiated"})

(* The status and the times of an item tell the same story whatever order  *)
(* the pages' buttons are pressed in: the dashboards count by status, the  *)
(* reply tracking goes by the times.                                       *)
StatusMatchesTimes ==
  \A m \in Mails : Has(m) =>
    /\ item[m].completed <=> item[m].status = "completed"
    /\ item[m].status \in {"acknowledged", "in_progress", "responded"} => item[m].acknowledged
    /\ item[m].status = "assigned" => ~item[m].acknowledged /\ ~item[m].replyInitiated

(* Completed work is only taken up again by giving it to somebody else.    *)
CompletedStays ==
  [][\A m \in Mails :
       Has(m) /\ item[m].status = "completed" /\ item'[m].status # "completed"
         => item'[m].assignee # item[m].assignee]_vars

(* docs/features/notifications-work-status.md: a mail sent in the thread   *)
(* after the reply was initiated makes the item responded.                 *)
AwaitsDetection(m) ==
  Has(m) /\ item[m].replyInitiated /\ sent[m] = "reply" /\ item[m].status = "in_progress"
RepliesDetected == \A m \in Mails : AwaitsDetection(m) ~> ~AwaitsDetection(m)
=============================================================================
