---------------------------- MODULE ManualForward ----------------------------
(***************************************************************************)
(* Forwarding one mail to its assignee: by hand from the dashboard         *)
(* (start_manual_route_delivery and its thread), by hand in demo mode, by  *)
(* the decision that assigns the mail and by the sweep every mail list     *)
(* runs (app/services/gmail_mail_service.py, app/server.py and             *)
(* app/repositories/postgres_routing_repository.py).                       *)
(*                                                                         *)
(* All of them add rows of type manual_route_forward to notifications and  *)
(* set the one assignment of the mail to forwarded; each is a read, then   *)
(* transactions of their own, with Gmail in between.                       *)
(***************************************************************************)
EXTENDS Naturals, FiniteSets

CONSTANTS
  Users,       \* users a mail is assigned to
  NoUser,
  Clicks,      \* server threads that serve the forward button
  Sweepers,    \* server threads that serve a mail list
  MaxNotes,    \* bound: notifications of the mail
  MaxRuns,     \* bound: runs that decide the mail
  MaxFaults    \* bound: failing calls, and deaths of the server

ASSUME NoUserAssumption == NoUser \notin Users
ASSUME BoundsAssumption == MaxNotes \in Nat /\ MaxRuns \in Nat /\ MaxFaults \in Nat

VARIABLES
  assignment,  \* the row of routing_assignments
  note,        \* the rows of notifications, in order of created_at
  click,       \* control state of each press of the button
  sender,      \* control state of the thread manual-route of each notification
  sweep,       \* control state of each list, with the assignee its SELECT saw
  decided,     \* the assignee a decision has assigned and not yet forwarded
  run,         \* the latest run of the mail
  delivered,   \* history: how often Gmail has sent the mail of a notification
  raced,       \* history: a press that found nothing pending while another had
  moved,       \* history: the assignee has changed during a forward
  lost,        \* history: notifications whose thread or request ended early
  runs, faults

vars == <<assignment, note, click, sender, sweep, decided, run, delivered,
          raced, moved, lost, runs, faults>>

NoteId == 1 .. MaxNotes
Unused == [kind |-> "none", user |-> NoUser, status |-> "none"]
Note == [kind: {"none", "manual", "demo", "auto"}, user: Users \cup {NoUser},
         status: {"none", "pending", "sent", "failed"}]
(* The status of the run; auto and review are running, with that routing   *)
(* decision in state_json, and auto_failed has failed with it.             *)
RunPhase == {"none", "running", "auto", "review", "auto_assigned", "review_required",
             "completed", "failed", "auto_failed"}
Assignment == [user: Users \cup {NoUser},
               status: {"none", "review_required", "assigned", "forwarded"}]
Handler == [pc: {"idle", "latest", "create", "demo sent", "forward"},
            user: Users \cup {NoUser}, note: NoteId \cup {0}]
Idle == [pc |-> "idle", user |-> NoUser, note |-> 0]

Created(n) == note[n] # Unused
Pending(n) == note[n].status = "pending"

(* latest_manual_forward_notification                                      *)
LatestStatus ==
  IF \A n \in NoteId : ~Created(n) THEN "none"
  ELSE LET last == CHOOSE n \in NoteId : Created(n) /\ \A i \in NoteId : Created(i) => i <= n
       IN note[last].status

Init ==
  /\ assignment = [user |-> NoUser, status |-> "none"]
  /\ note = [n \in NoteId |-> Unused]
  /\ click = [c \in Clicks |-> Idle]
  /\ sender = [n \in NoteId |-> "none"]
  /\ sweep = [s \in Sweepers |-> Idle]
  /\ decided = NoUser
  /\ run = "none"
  /\ delivered = [n \in NoteId |-> 0]
  /\ raced = FALSE /\ moved = FALSE /\ lost = {}
  /\ runs = 0 /\ faults = 0

Fault == faults < MaxFaults /\ faults' = faults + 1

(* A new row, the latest one.                                              *)
Insert(n, kind, user, status) ==
  /\ ~Created(n) /\ \A i \in NoteId : i < n => Created(i)
  /\ note' = [note EXCEPT ![n] = [kind |-> kind, user |-> user, status |-> status]]

(* The row of the mail, whoever holds it by now, becomes forwarded.        *)
MarkAssignment ==
  assignment' = IF assignment.status = "none" THEN assignment
                ELSE [assignment EXCEPT !.status = "forwarded"]

-----------------------------------------------------------------------------
(* The assignment.                                                         *)

(* A forward to somebody is under way.                                     *)
UnderWay == \/ \E n \in NoteId : Pending(n)
            \/ \E c \in Clicks : click[c].pc # "idle"
            \/ \E s \in Sweepers : sweep[s].pc # "idle"
            \/ decided # NoUser

Reassign(user, status) ==
  /\ assignment' = [user |-> user, status |-> status]
  /\ moved' = (moved \/ (UnderWay /\ user # assignment.user))

(* A new run, or the one in review again (create_or_get_active_run).       *)
StartRun ==
  /\ run \notin {"running", "auto", "review"}
  /\ runs < MaxRuns /\ runs' = runs + 1
  /\ run' = "running"
  /\ UNCHANGED <<assignment, note, click, sender, sweep, decided, delivered, raced, moved, lost,
                 faults>>

(* generate_routing_candidates saves an automatic assignment.              *)
ChooseAuto ==
  /\ run = "running" /\ run' = "auto"
  /\ UNCHANGED <<assignment, note, click, sender, sweep, decided, delivered, raced, moved, lost,
                 runs, faults>>

(* apply_decision: it overwrites whatever assignment there is, and names   *)
(* nobody if the mail goes into review.                                    *)
ApplyReview ==
  /\ run = "running" /\ run' = "review"
  /\ Reassign(NoUser, "review_required")
  /\ UNCHANGED <<note, click, sender, sweep, decided, delivered, raced, lost, runs, faults>>
ApplyAuto(user) ==
  /\ run = "auto" /\ decided = NoUser
  /\ Reassign(user, "assigned")
  /\ decided' = user
  /\ UNCHANGED <<note, click, sender, sweep, run, delivered, raced, lost, runs, faults>>

(* A run that cannot go on waits for review too, without a decision.       *)
EndRun ==
  /\ \/ run \in {"running", "review"} /\ run' = "review_required"
     \/ run \in {"running", "review"} /\ run' = "failed"
     \/ run = "auto" /\ decided = NoUser /\ run' = "auto_failed"
  /\ UNCHANGED <<assignment, note, click, sender, sweep, decided, delivered, raced, moved, lost,
                 runs, faults>>

(* assign_review_required_mail                                             *)
AcceptsAssignment == assignment.status = "review_required" \/ run = "review_required"
AssignByHand(user) ==
  /\ AcceptsAssignment
  /\ Reassign(user, "assigned")
  /\ run' = IF run = "review_required" THEN "completed" ELSE run
  /\ UNCHANGED <<note, click, sender, sweep, decided, delivered, raced, lost, runs, faults>>

-----------------------------------------------------------------------------
(* mark_auto_forwarded: one transaction, which the unique idempotency key  *)
(* auto-route:<mail> makes fail for all but the first.                     *)

AutoForwarded == \E n \in NoteId : note[n].kind = "auto"

MarkAutoForwarded(user) ==
  IF AutoForwarded
  THEN UNCHANGED <<note, assignment>>
  ELSE MarkAssignment /\ \E n \in NoteId : Insert(n, "auto", user, "sent")

ForwardDecision ==
  /\ decided # NoUser
  /\ MarkAutoForwarded(decided)
  /\ run' = IF AutoForwarded THEN "auto_failed" ELSE "auto_assigned"
  /\ decided' = NoUser
  /\ UNCHANGED <<click, sender, sweep, delivered, raced, moved, lost, runs, faults>>

(* forward_auto_assigned_without_notification: the SELECT, then the mail.  *)
Forwardable ==
  /\ assignment.status = "assigned" /\ assignment.user # NoUser
  /\ LatestStatus \notin {"pending", "sent"}
  /\ run \in {"auto", "auto_assigned", "auto_failed"}

SweepSelect(s) ==
  /\ sweep[s].pc = "idle"
  /\ Forwardable
  /\ sweep' = [sweep EXCEPT ![s] = [Idle EXCEPT !.pc = "forward", !.user = assignment.user]]
  /\ UNCHANGED <<assignment, note, click, sender, decided, run, delivered, raced, moved,
                 lost, runs, faults>>

SweepForward(s) ==
  /\ sweep[s].pc = "forward"
  /\ MarkAutoForwarded(sweep[s].user)
  /\ sweep' = [sweep EXCEPT ![s] = Idle]
  /\ UNCHANGED <<click, sender, decided, run, delivered, raced, moved, lost, runs, faults>>

-----------------------------------------------------------------------------
(* The button.  The assignee, the latest notification and the new one are  *)
(* read and written on three connections.                                  *)

Press(c) ==
  /\ click[c].pc = "idle"
  /\ assignment.user # NoUser
  /\ click' = [click EXCEPT ![c] = [Idle EXCEPT !.pc = "latest", !.user = assignment.user]]
  /\ UNCHANGED <<assignment, note, sender, sweep, decided, run, delivered, raced, moved,
                 lost, runs, faults>>

(* Mutant: only a notification that was sent stops the press.              *)
CheckLatestSent(c) ==
  /\ click[c].pc = "latest"
  /\ click' = [click EXCEPT ![c] = IF LatestStatus = "sent" THEN Idle
                                   ELSE [click[c] EXCEPT !.pc = "create"]]
  /\ raced' = (raced \/ (LatestStatus # "pending" /\ \E d \in Clicks : click[d].pc = "create"))
  /\ UNCHANGED <<assignment, note, sender, sweep, decided, run, delivered, moved, lost,
                 runs, faults>>
(* A pending notification is reported and nothing else done.               *)
CheckLatest(c) ==
  /\ click[c].pc = "latest"
  /\ click' = [click EXCEPT ![c] = IF LatestStatus = "pending" THEN Idle
                                   ELSE [click[c] EXCEPT !.pc = "create"]]
  /\ raced' = (raced \/ (LatestStatus # "pending" /\ \E d \in Clicks : click[d].pc = "create"))
  /\ UNCHANGED <<assignment, note, sender, sweep, decided, run, delivered, moved, lost,
                 runs, faults>>

(* The idempotency key holds the time in microseconds, so it is new.       *)
CreateAndStart(c) ==
  /\ click[c].pc = "create"
  /\ \E n \in NoteId :
       /\ Insert(n, "manual", click[c].user, "pending")
       /\ sender' = [sender EXCEPT ![n] = "send"]
  /\ click' = [click EXCEPT ![c] = Idle]
  /\ UNCHANGED <<assignment, sweep, decided, run, delivered, raced, moved, lost, runs,
                 faults>>

(* In demo mode the request marks the notification sent itself.            *)
DemoCreate(c) ==
  /\ click[c].pc = "create"
  /\ \E n \in NoteId :
       /\ Insert(n, "demo", click[c].user, "pending")
       /\ click' = [click EXCEPT ![c] = [click[c] EXCEPT !.pc = "demo sent", !.note = n]]
  /\ UNCHANGED <<assignment, sender, sweep, decided, run, delivered, raced, moved, lost,
                 runs, faults>>

(* Mutant: only the assignment is updated.                                 *)
MarkSentAssignmentOnly(n) == note' = note /\ MarkAssignment

(* mark_manual_forward_sent                                                *)
MarkSent(n) ==
  /\ note' = [note EXCEPT ![n] = [note[n] EXCEPT !.status = "sent"]]
  /\ MarkAssignment

DemoSent(c) ==
  /\ click[c].pc = "demo sent"
  /\ MarkSent(click[c].note)
  /\ click' = [click EXCEPT ![c] = Idle]
  /\ UNCHANGED <<sender, sweep, decided, run, delivered, raced, moved, lost, runs, faults>>

DemoFails(c) ==
  /\ click[c].pc = "demo sent"
  /\ Fault
  /\ lost' = lost \cup {click[c].note}
  /\ click' = [click EXCEPT ![c] = Idle]
  /\ UNCHANGED <<assignment, note, sender, sweep, decided, run, delivered, raced, moved,
                 runs>>

-----------------------------------------------------------------------------
(* The thread (_manual_route_worker).                                      *)

SendGmail(n) ==
  /\ sender[n] = "send"
  /\ delivered' = [delivered EXCEPT ![n] = @ + 1]
  /\ sender' = [sender EXCEPT ![n] = "mark"]
  /\ UNCHANGED <<assignment, note, click, sweep, decided, run, raced, moved, lost, runs,
                 faults>>

MarkManualForwardSent(n) ==
  /\ sender[n] = "mark"
  /\ MarkSent(n)
  /\ sender' = [sender EXCEPT ![n] = "none"]
  /\ UNCHANGED <<click, sweep, decided, run, delivered, raced, moved, lost, runs, faults>>

(* Mutant: the thread tries again after any exception.                     *)
SendRetried(n) ==
  /\ sender[n] \in {"send", "mark"}
  /\ Fault
  /\ \E sent \in IF sender[n] = "send" THEN {0, 1} ELSE {0} :
       delivered' = [delivered EXCEPT ![n] = @ + sent]
  /\ sender' = [sender EXCEPT ![n] = "send"]
  /\ UNCHANGED <<assignment, note, click, sweep, decided, run, raced, moved, lost, runs>>

(* Gmail refuses, or accepts and its answer is lost, or the update of the  *)
(* database raises: all are one except clause.                             *)
SendFails(n) ==
  /\ sender[n] \in {"send", "mark"}
  /\ Fault
  /\ \E sent \in IF sender[n] = "send" THEN {0, 1} ELSE {0} :
       delivered' = [delivered EXCEPT ![n] = @ + sent]
  /\ sender' = [sender EXCEPT ![n] = "fail"]
  /\ UNCHANGED <<assignment, note, click, sweep, decided, run, raced, moved, lost, runs>>

(* Mutant: the except clause only logs.                                    *)
LogFailureOnly(n) ==
  /\ sender[n] = "fail"
  /\ sender' = [sender EXCEPT ![n] = "none"]
  /\ UNCHANGED <<assignment, note, click, sweep, decided, run, delivered, raced, moved, lost,
                 runs, faults>>

(* Mutant: the except clause ends as a success does.                       *)
ForwardFailed(n) ==
  /\ sender[n] = "fail"
  /\ note' = [note EXCEPT ![n] = [note[n] EXCEPT !.status = "failed"]]
  /\ MarkAssignment
  /\ sender' = [sender EXCEPT ![n] = "none"]
  /\ UNCHANGED <<click, sweep, decided, run, delivered, raced, moved, lost, runs, faults>>

MarkManualForwardFailed(n) ==
  /\ sender[n] = "fail"
  /\ note' = [note EXCEPT ![n] = [note[n] EXCEPT !.status = "failed"]]
  /\ sender' = [sender EXCEPT ![n] = "none"]
  /\ UNCHANGED <<assignment, click, sweep, decided, run, delivered, raced, moved, lost,
                 runs, faults>>

(* The update of the except clause may raise too, as the failure that led  *)
(* there may last, and ends the thread.                                    *)
MarkFailedFails(n) ==
  /\ sender[n] = "fail"
  /\ lost' = lost \cup {n}
  /\ sender' = [sender EXCEPT ![n] = "none"]
  /\ UNCHANGED <<assignment, note, click, sweep, decided, run, delivered, raced, moved,
                 runs, faults>>

(* The server dies with its daemon threads; nothing at its start looks for *)
(* notifications left pending.                                             *)
Restart ==
  /\ Fault
  /\ lost' = lost \cup {n \in NoteId : Pending(n)}
  /\ click' = [c \in Clicks |-> Idle]
  /\ sender' = [n \in NoteId |-> "none"]
  /\ sweep' = [s \in Sweepers |-> Idle]
  /\ decided' = NoUser
  /\ UNCHANGED <<assignment, note, run, delivered, raced, moved, runs>>

ClickStep(c) == CheckLatest(c) \/ CreateAndStart(c) \/ DemoCreate(c) \/ DemoSent(c)
SenderStep(n) == SendGmail(n) \/ MarkManualForwardSent(n) \/ MarkManualForwardFailed(n)

Next ==
  \/ StartRun \/ ChooseAuto \/ ApplyReview \/ EndRun
  \/ \E u \in Users : ApplyAuto(u) \/ AssignByHand(u)
  \/ ForwardDecision
  \/ \E s \in Sweepers : SweepSelect(s) \/ SweepForward(s)
  \/ \E c \in Clicks : Press(c) \/ ClickStep(c) \/ DemoFails(c)
  \/ \E n \in NoteId : SenderStep(n) \/ SendFails(n) \/ MarkFailedFails(n)
  \/ Restart

(* Requests and threads that have begun go on.                             *)
Fairness ==
  /\ \A c \in Clicks : WF_vars(ClickStep(c))
  /\ \A n \in NoteId : WF_vars(SenderStep(n))
Spec == Init /\ [][Next]_vars /\ Fairness

-----------------------------------------------------------------------------
(* The assignment, the notifications and the control states are well       *)
(* typed.                                                                  *)
TypeOK ==
  /\ assignment \in Assignment
  /\ note \in [NoteId -> Note]
  /\ click \in [Clicks -> Handler]
  /\ sender \in [NoteId -> {"none", "send", "mark", "fail"}]
  /\ sweep \in [Sweepers -> Handler]
  /\ decided \in Users \cup {NoUser}
  /\ run \in RunPhase
  /\ raced \in BOOLEAN /\ moved \in BOOLEAN
  /\ delivered \in [NoteId -> Nat]
  /\ lost \subseteq NoteId
  /\ runs \in 0 .. MaxRuns /\ faults \in 0 .. MaxFaults

(* What a notification of the button says of Gmail: sent means that the    *)
(* mail went out exactly once, and none goes out twice, whatever fails in  *)
(* between.  (failed does not mean it did not: see SendFails.)             *)
SentOnce ==
  \A n \in NoteId :
    /\ delivered[n] <= 1
    /\ note[n].kind = "manual" /\ note[n].status = "sent" => delivered[n] = 1
    /\ delivered[n] > 0 => note[n].kind = "manual"

(* Nobody forwards by hand while a forward is under way: two pending       *)
(* notifications are of presses that passed the check together, or an      *)
(* automatic forward between them hid the first (the check reads only the  *)
(* latest row).                                                            *)
OnePending ==
  ~raced =>
    \A n, k \in NoteId :
      Pending(n) /\ Pending(k) /\ n < k =>
        \E i \in n + 1 .. k - 1 : note[i].kind = "auto"

(* A pending notification is somebody's task: its thread is alive, or the  *)
(* demo request that made it, unless one of them ended before its time.    *)
PendingHasSender ==
  \A n \in NoteId \ lost :
    Pending(n) => \/ sender[n] # "none"
                  \/ \E c \in Clicks : click[c].pc = "demo sent" /\ click[c].note = n

(* The assignment of a mail is forwarded only if its assignee has been     *)
(* sent it, unless the assignee changed while a forward was under way.     *)
ForwardedToAssignee ==
  assignment.status = "forwarded" =>
    \E n \in NoteId : /\ note[n].status = "sent"
                      /\ note[n].user = assignment.user \/ moved

(* A press that finds nothing pending ends in a verdict: no notification   *)
(* stays pending for good, unless its thread was lost.                     *)
ForwardSettles == \A n \in NoteId : Pending(n) ~> (~Pending(n) \/ n \in lost)
=============================================================================
