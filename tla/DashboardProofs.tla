--------------------------- MODULE DashboardProofs ---------------------------
(***************************************************************************)
(* Proofs about the dashboard.  ManualForward: a notification tells what   *)
(* Gmail did, every pending one is somebody's task, two of them mean that  *)
(* two presses raced, and a mail is forwarded to its assignee.             *)
(* MailConsole: the pages show and offer what that state justifies.        *)
(* AssigneeAdmin: the settings page keeps the operators and their order.   *)
(***************************************************************************)
EXTENDS MailConsole, AssigneeAdmin, FiniteSetTheorems, TLAPS

-----------------------------------------------------------------------------
(* ManualForward                                                           *)

(* The rows of notifications fill the ids from the first on, and no row    *)
(* without a kind is anything but unused.                                  *)
Prefix ==
  /\ \A n \in NoteId : note[n].kind = "none" => note[n] = Unused
  /\ \A n, k \in NoteId : k < n /\ Created(n) => Created(k)

(* An automatic forward is sent at once.                                   *)
AutoIsSent == \A n \in NoteId : note[n].kind = "auto" => note[n].status = "sent"

(* The thread of a notification is alive only while its row is pending, and*)
(* knows whether Gmail has taken the mail.                                 *)
SenderKnows ==
  \A n \in NoteId :
    /\ sender[n] # "none" => note[n].kind = "manual" /\ Pending(n)
    /\ sender[n] = "send" => delivered[n] = 0
    /\ sender[n] = "mark" => delivered[n] = 1

(* A demo request that is to mark a notification has made it.              *)
DemoOwns ==
  \A c \in Clicks : click[c].pc = "demo sent" =>
    /\ click[c].note \in NoteId
    /\ note[click[c].note].kind = "demo" /\ note[click[c].note].user = click[c].user

(* A press that is about to insert is alone in that, and there is a later  *)
(* row than any pending one.                                               *)
Checked ==
  ~raced =>
    /\ \A c, d \in Clicks : click[c].pc = "create" /\ click[d].pc = "create" => c = d
    /\ \A c \in Clicks, n \in NoteId : click[c].pc = "create" /\ Pending(n) =>
         \E k \in NoteId : n < k /\ Created(k)

(* Whatever follows a pending row follows an automatic forward too.        *)
AutoBetween ==
  ~raced =>
    \A n, k \in NoteId : Pending(n) /\ n < k /\ Created(k) =>
      \E i \in NoteId : n < i /\ i <= k /\ note[i].kind = "auto"

(* Unless the assignee changed meanwhile, whoever forwards does it to him. *)
SameAssignee ==
  ~moved =>
    /\ \A n \in NoteId : Pending(n) => note[n].user = assignment.user
    /\ \A c \in Clicks : click[c].pc # "idle" => click[c].user = assignment.user
    /\ \A s \in Sweepers : sweep[s].pc # "idle" => sweep[s].user = assignment.user
    /\ decided # NoUser => decided = assignment.user

ForwardInv ==
  /\ TypeOK
  /\ Prefix /\ AutoIsSent /\ SenderKnows /\ DemoOwns /\ Checked /\ AutoBetween /\ SameAssignee
  /\ SentOnce /\ PendingHasSender /\ ForwardedToAssignee

-----------------------------------------------------------------------------
LEMMA RowTypes ==
  ASSUME NEW kind \in {"manual", "demo", "auto"}, NEW user \in Users \cup {NoUser},
         NEW status \in {"pending", "sent", "failed"}
  PROVE  [kind |-> kind, user |-> user, status |-> status] \in Note
  BY DEF Note

LEMMA TypesInitially == Init => TypeOK
<1>1. Unused \in Note /\ Idle \in Handler
  BY DEF Unused, Note, Idle, Handler
<1>2. 0 \in 0 .. MaxRuns /\ 0 \in 0 .. MaxFaults
  BY BoundsAssumption
<1>3. (raced = FALSE /\ moved = FALSE) => (raced \in BOOLEAN /\ moved \in BOOLEAN)
  OBVIOUS
<1>. QED
  BY <1>1, <1>2, <1>3 DEF Init, TypeOK, Assignment, RunPhase

(* A step that counts no fault and begins no run keeps both counts, the    *)
(* others keep within the bounds.                                          *)
LEMMA FaultTypes ==
  ASSUME TypeOK, Fault
  PROVE  faults' \in 0 .. MaxFaults
  BY BoundsAssumption DEF TypeOK, Fault

LEMMA InsertTypes ==
  ASSUME TypeOK, NEW n \in NoteId, NEW kind \in {"manual", "demo", "auto"},
         NEW user \in Users \cup {NoUser}, NEW status \in {"pending", "sent"},
         Insert(n, kind, user, status)
  PROVE  note' \in [NoteId -> Note]
  BY RowTypes DEF Insert, TypeOK

LEMMA MarkTypes ==
  ASSUME TypeOK, MarkAssignment
  PROVE  assignment' \in Assignment
  BY DEF TypeOK, MarkAssignment, Assignment

LEMMA MarkAutoTypes ==
  ASSUME TypeOK, NEW user \in Users \cup {NoUser}, MarkAutoForwarded(user)
  PROVE  note' \in [NoteId -> Note] /\ assignment' \in Assignment
  BY InsertTypes, MarkTypes DEF MarkAutoForwarded, TypeOK

LEMMA StatusTypes ==
  ASSUME TypeOK, NEW n \in NoteId, NEW status \in {"sent", "failed"},
         note' = [note EXCEPT ![n] = [note[n] EXCEPT !.status = status]]
  PROVE  note' \in [NoteId -> Note]
<1>1. note[n] \in Note
  BY DEF TypeOK
<1>2. [note[n] EXCEPT !.status = status] \in Note
  BY <1>1 DEF Note
<1>. QED
  BY <1>2 DEF TypeOK

LEMMA ReassignTypes ==
  ASSUME TypeOK, NEW user \in Users \cup {NoUser},
         NEW status \in {"review_required", "assigned"}, Reassign(user, status)
  PROVE  assignment' \in Assignment /\ moved' \in BOOLEAN
  BY DEF TypeOK, Reassign, Assignment, UnderWay, Pending

LEMMA ClickTypes ==
  ASSUME TypeOK, NEW c \in Clicks, click[c].pc = "create"
  PROVE  \A n \in NoteId : [click[c] EXCEPT !.pc = "demo sent", !.note = n] \in Handler
<1>1. click[c] \in Handler
  BY DEF TypeOK
<1>. QED
  BY <1>1 DEF Handler

LEMMA TypesKept == TypeOK /\ DemoOwns /\ [Next]_vars => TypeOK'
<1>. SUFFICES ASSUME TypeOK, DemoOwns, [Next]_vars PROVE TypeOK'
  OBVIOUS
<1>0. Idle \in Handler
  BY DEF Idle, Handler
<1>1. CASE StartRun
  BY <1>1, BoundsAssumption DEF StartRun, TypeOK, RunPhase
<1>2. CASE ChooseAuto \/ EndRun
  BY <1>2 DEF ChooseAuto, EndRun, TypeOK, RunPhase
<1>3. CASE ApplyReview
  BY <1>3, ReassignTypes DEF ApplyReview, TypeOK, RunPhase
<1>4. ASSUME NEW u \in Users, ApplyAuto(u) PROVE TypeOK'
  BY <1>4, ReassignTypes DEF ApplyAuto, TypeOK
<1>5. ASSUME NEW u \in Users, AssignByHand(u) PROVE TypeOK'
  BY <1>5, ReassignTypes DEF AssignByHand, TypeOK, RunPhase
<1>6. CASE ForwardDecision
  <2>1. decided \in Users \cup {NoUser}
    BY DEF TypeOK
  <2>. QED
    BY <1>6, <2>1, MarkAutoTypes DEF ForwardDecision, TypeOK, RunPhase
<1>7. ASSUME NEW s \in Sweepers, SweepSelect(s) PROVE TypeOK'
  <2>1. [Idle EXCEPT !.pc = "forward", !.user = assignment.user] \in Handler
    BY DEF TypeOK, Assignment, Idle, Handler
  <2>. QED
    BY <1>7, <2>1 DEF SweepSelect, TypeOK
<1>8. ASSUME NEW s \in Sweepers, SweepForward(s) PROVE TypeOK'
  <2>1. sweep[s].user \in Users \cup {NoUser}
    BY DEF TypeOK, Handler
  <2>. QED
    BY <1>0, <1>8, <2>1, MarkAutoTypes DEF SweepForward, TypeOK
<1>9. ASSUME NEW c \in Clicks, Press(c) PROVE TypeOK'
  <2>1. [Idle EXCEPT !.pc = "latest", !.user = assignment.user] \in Handler
    BY DEF TypeOK, Assignment, Idle, Handler
  <2>. QED
    BY <1>9, <2>1 DEF Press, TypeOK
<1>10. ASSUME NEW c \in Clicks, CheckLatest(c) PROVE TypeOK'
  <2>1. [click[c] EXCEPT !.pc = "create"] \in Handler
    <3>1. click[c] \in Handler
      BY DEF TypeOK
    <3>. QED
      BY <3>1 DEF Handler
  <2>2. click' \in [Clicks -> Handler]
    BY <1>0, <1>10, <2>1 DEF CheckLatest, TypeOK
  <2>. DEFINE raceSeen == LatestStatus # "pending" /\ \E d \in Clicks : click[d].pc = "create"
  <2>3. raced' = (raced \/ raceSeen)
    BY <1>10 DEF CheckLatest
  <2>. HIDE DEF raceSeen
  <2>4. raced' \in BOOLEAN
    BY <2>3, Zenon
  <2>. QED
    BY <1>10, <2>2, <2>4 DEF CheckLatest, TypeOK
<1>11. ASSUME NEW c \in Clicks, CreateAndStart(c) PROVE TypeOK'
  <2>1. click[c].user \in Users \cup {NoUser}
    BY DEF TypeOK, Handler
  <2>2. note' \in [NoteId -> Note]
    BY <1>11, <2>1, InsertTypes DEF CreateAndStart
  <2>3. sender' \in [NoteId -> {"none", "send", "mark", "fail"}]
    BY <1>11 DEF CreateAndStart, TypeOK
  <2>. QED
    BY <1>0, <1>11, <2>2, <2>3 DEF CreateAndStart, TypeOK
<1>12. ASSUME NEW c \in Clicks, DemoCreate(c) PROVE TypeOK'
  <2>1. click[c].user \in Users \cup {NoUser}
    BY DEF TypeOK, Handler
  <2>2. PICK n \in NoteId :
          /\ Insert(n, "demo", click[c].user, "pending")
          /\ click' = [click EXCEPT ![c] = [click[c] EXCEPT !.pc = "demo sent", !.note = n]]
    BY <1>12 DEF DemoCreate
  <2>3. note' \in [NoteId -> Note]
    BY <2>1, <2>2, InsertTypes
  <2>4. [click[c] EXCEPT !.pc = "demo sent", !.note = n] \in Handler
    BY <1>12, ClickTypes DEF DemoCreate
  <2>5. click' \in [Clicks -> Handler]
    BY <2>2, <2>4 DEF TypeOK
  <2>. QED
    BY <1>12, <2>3, <2>5 DEF DemoCreate, TypeOK
<1>13. ASSUME NEW n \in NoteId, MarkSent(n)
       PROVE  note' \in [NoteId -> Note] /\ assignment' \in Assignment
  BY <1>13, StatusTypes, MarkTypes DEF MarkSent
<1>14. ASSUME NEW c \in Clicks, DemoSent(c) PROVE TypeOK'
  BY <1>0, <1>13, <1>14 DEF DemoSent, DemoOwns, TypeOK
<1>15. ASSUME NEW c \in Clicks, DemoFails(c) PROVE TypeOK'
  BY <1>0, <1>15, FaultTypes DEF DemoFails, DemoOwns, TypeOK
<1>16. ASSUME NEW n \in NoteId, SendGmail(n) \/ SendFails(n) PROVE TypeOK'
  BY <1>16, FaultTypes DEF SendGmail, SendFails, TypeOK
<1>17. ASSUME NEW n \in NoteId, MarkManualForwardSent(n) PROVE TypeOK'
  BY <1>13, <1>17 DEF MarkManualForwardSent, TypeOK
<1>18. ASSUME NEW n \in NoteId, MarkManualForwardFailed(n) \/ MarkFailedFails(n) PROVE TypeOK'
  BY <1>18, StatusTypes DEF MarkManualForwardFailed, MarkFailedFails, TypeOK
<1>19. CASE Restart
  BY <1>0, <1>19, FaultTypes DEF Restart, TypeOK
<1>20. CASE UNCHANGED vars
  BY <1>20 DEF vars, TypeOK
<1>. QED
  BY <1>1, <1>2, <1>3, <1>4, <1>5, <1>6, <1>7, <1>8, <1>9, <1>10, <1>11, <1>12, <1>14, <1>15,
     <1>16, <1>17, <1>18, <1>19, <1>20 DEF Next, ClickStep, SenderStep

-----------------------------------------------------------------------------
(* What a new row, and a verdict on an old one, leave of the rows.         *)
LEMMA Inserted ==
  ASSUME TypeOK, Prefix, NEW n \in NoteId, NEW kind \in {"manual", "demo", "auto"},
         NEW user, NEW status \in {"pending", "sent"}, Insert(n, kind, user, status)
  PROVE  /\ note[n] = Unused
         /\ note'[n].kind = kind /\ note'[n].user = user /\ note'[n].status = status
         /\ note'[n] # Unused
         /\ \A i \in NoteId \ {n} : note'[i] = note[i]
         /\ \A i \in NoteId : i < n => Created(i)
         /\ \A i \in NoteId : n < i => note[i] = Unused
         /\ Prefix'
<1>1. note' = [note EXCEPT ![n] = [kind |-> kind, user |-> user, status |-> status]]
  BY DEF Insert
<1>2. /\ note'[n] = [kind |-> kind, user |-> user, status |-> status]
      /\ \A i \in NoteId \ {n} : note'[i] = note[i]
  BY <1>1 DEF TypeOK
<1>3. note'[n] # Unused
  BY <1>2 DEF Unused
<1>4. note[n] = Unused /\ \A i \in NoteId : i < n => Created(i)
  BY DEF Insert, Created
<1>5. \A i \in NoteId : n < i => note[i] = Unused
  BY <1>4 DEF Prefix, Created
<1>6. \A i \in NoteId : note'[i].kind = "none" => note'[i] = Unused
  BY <1>2 DEF Prefix
<1>7. \A i, k \in NoteId : k < i /\ note'[i] # Unused => note'[k] # Unused
  BY <1>2, <1>3, <1>4, <1>5 DEF Prefix, Created
<1>8. Prefix'
  BY <1>6, <1>7 DEF Prefix, Created, Unused
<1>. QED
  BY <1>2, <1>3, <1>4, <1>5, <1>8

LEMMA Judged ==
  ASSUME TypeOK, Prefix, NEW n \in NoteId, note[n].kind # "none", NEW status \in {"sent", "failed"},
         note' = [note EXCEPT ![n] = [note[n] EXCEPT !.status = status]]
  PROVE  /\ note'[n].kind = note[n].kind /\ note'[n].user = note[n].user
         /\ note'[n].status = status
         /\ \A i \in NoteId \ {n} : note'[i] = note[i]
         /\ \A i \in NoteId : Created(i)' <=> Created(i)
         /\ Prefix'
<1>1. note[n] \in Note
  BY DEF TypeOK
<1>2. DEFINE row == [note[n] EXCEPT !.status = status]
<1>3. row.kind = note[n].kind /\ row.user = note[n].user /\ row.status = status
  BY <1>1 DEF Note
<1>. HIDE DEF row
<1>4. note'[n] = row /\ \A i \in NoteId \ {n} : note'[i] = note[i]
  BY DEF TypeOK, row
<1>5. note[n] # Unused /\ row # Unused
  BY <1>3 DEF Unused
<1>6. \A i \in NoteId : note'[i] # Unused <=> note[i] # Unused
  BY <1>4, <1>5
<1>7. \A i \in NoteId : Created(i)' <=> Created(i)
  BY <1>6 DEF Created, Unused
<1>8. Prefix'
  <2>1. \A i \in NoteId : note'[i].kind = "none" => note'[i] = Unused
    BY <1>3, <1>4 DEF Prefix
  <2>. QED
    BY <1>7, <2>1 DEF Prefix, Unused
<1>. QED
  BY <1>3, <1>4, <1>7, <1>8

(* What the rows and the threads know, in one.                             *)
RowsInv == Prefix /\ AutoIsSent /\ SenderKnows /\ DemoOwns /\ SentOnce

LEMMA PrefixStays ==
  ASSUME Prefix, UNCHANGED note
  PROVE  Prefix'
  BY DEF Prefix, Created, Unused

LEMMA DemoOwnsStays ==
  ASSUME DemoOwns, NEW n \in NoteId,
         \A i \in NoteId \ {n} : note'[i] = note[i],
         note[n].kind = "demo" => note'[n].kind = "demo" /\ note'[n].user = note[n].user,
         \A c \in Clicks :
           \/ click'[c] = click[c]
           \/ click'[c].pc # "demo sent"
           \/ click'[c].note = n /\ note'[n].kind = "demo" /\ note'[n].user = click'[c].user
  PROVE  DemoOwns'
<1>1. ASSUME NEW c \in Clicks, click'[c].pc = "demo sent"
      PROVE  /\ click'[c].note \in NoteId
             /\ note'[click'[c].note].kind = "demo"
             /\ note'[click'[c].note].user = click'[c].user
  <2>1. CASE click'[c] = click[c]
    <3>. DEFINE i == click[c].note
    <3>1. i \in NoteId /\ note[i].kind = "demo" /\ note[i].user = click[c].user
      BY <1>1, <2>1 DEF DemoOwns
    <3>2. note'[i].kind = "demo" /\ note'[i].user = note[i].user
      BY <3>1
    <3>. QED
      BY <2>1, <3>1, <3>2
  <2>2. CASE click'[c] # click[c]
    BY <1>1, <2>2
  <2>. QED
    BY <2>1, <2>2
<1>. QED
  BY <1>1 DEF DemoOwns

LEMMA RowsStay ==
  ASSUME RowsInv, UNCHANGED <<note, sender, delivered>>,
         \A c \in Clicks : click'[c] = click[c] \/ click'[c].pc # "demo sent"
  PROVE  RowsInv'
<1>1. Prefix'
  BY PrefixStays DEF RowsInv
<1>2. AutoIsSent' /\ SenderKnows' /\ SentOnce'
  BY DEF RowsInv, AutoIsSent, SenderKnows, SentOnce, Pending
<1>3. DemoOwns'
  BY DEF RowsInv, DemoOwns
<1>. QED
  BY <1>1, <1>2, <1>3 DEF RowsInv

(* A decision or a list that forwards adds one row, or none.               *)
LEMMA AutoForwards ==
  ASSUME TypeOK, RowsInv, NEW user, MarkAutoForwarded(user),
         UNCHANGED <<click, sender, delivered>>
  PROVE  RowsInv'
<1>1. CASE AutoForwarded
  BY <1>1, RowsStay DEF MarkAutoForwarded
<1>2. CASE ~AutoForwarded
  <2>1. PICK n \in NoteId : Insert(n, "auto", user, "sent")
    BY <1>2 DEF MarkAutoForwarded
  <2>2. /\ note[n].kind = "none" /\ note'[n].kind = "auto" /\ note'[n].status = "sent"
        /\ \A i \in NoteId \ {n} : note'[i] = note[i]
        /\ Prefix'
    BY <2>1, Inserted DEF RowsInv, Unused
  <2>3. AutoIsSent' /\ SenderKnows' /\ SentOnce'
    BY <2>2 DEF RowsInv, AutoIsSent, SenderKnows, SentOnce, Pending
  <2>4. DemoOwns'
    BY <2>2 DEF RowsInv, DemoOwns
  <2>. QED
    BY <2>2, <2>3, <2>4 DEF RowsInv
<1>. QED
  BY <1>1, <1>2

(* A press that is through with its check adds a row that waits.           *)
LEMMA PressInserts ==
  ASSUME TypeOK, RowsInv, NEW c \in Clicks, CreateAndStart(c) \/ DemoCreate(c)
  PROVE  RowsInv'
<1>1. CASE CreateAndStart(c)
  <2>1. PICK n \in NoteId : /\ Insert(n, "manual", click[c].user, "pending")
                            /\ sender' = [sender EXCEPT ![n] = "send"]
    BY <1>1 DEF CreateAndStart
  <2>2. /\ note[n].kind = "none" /\ note'[n].kind = "manual" /\ note'[n].status = "pending"
        /\ \A i \in NoteId \ {n} : note'[i] = note[i]
        /\ Prefix'
    BY <2>1, Inserted DEF RowsInv, Unused
  <2>3. sender'[n] = "send" /\ \A i \in NoteId \ {n} : sender'[i] = sender[i]
    BY <2>1 DEF TypeOK
  <2>4. delivered[n] = 0 /\ delivered' = delivered
    BY <1>1, <2>2 DEF CreateAndStart, RowsInv, SentOnce, TypeOK
  <2>5. AutoIsSent' /\ SenderKnows' /\ SentOnce'
    BY <2>2, <2>3, <2>4 DEF RowsInv, AutoIsSent, SenderKnows, SentOnce, Pending
  <2>6. click' = [click EXCEPT ![c] = Idle] /\ Idle.pc = "idle"
    BY <1>1 DEF CreateAndStart, Idle
  <2>7. \A d \in Clicks : click'[d] = click[d] \/ click'[d].pc = "idle"
    BY <2>6 DEF TypeOK
  <2>8. DemoOwns'
    BY <2>2, <2>7, DemoOwnsStays DEF RowsInv
  <2>. QED
    BY <2>2, <2>5, <2>8 DEF RowsInv
<1>2. CASE DemoCreate(c)
  <2>1. PICK n \in NoteId :
          /\ Insert(n, "demo", click[c].user, "pending")
          /\ click' = [click EXCEPT ![c] = [click[c] EXCEPT !.pc = "demo sent", !.note = n]]
    BY <1>2 DEF DemoCreate
  <2>2. /\ note[n].kind = "none" /\ note'[n].kind = "demo" /\ note'[n].status = "pending"
        /\ note'[n].user = click[c].user
        /\ \A i \in NoteId \ {n} : note'[i] = note[i]
        /\ Prefix'
    BY <2>1, Inserted DEF RowsInv, Unused
  <2>3. AutoIsSent' /\ SenderKnows' /\ SentOnce'
    <3>1. sender' = sender /\ delivered' = delivered
      BY <1>2 DEF DemoCreate
    <3>2. sender[n] = "none" /\ delivered[n] = 0
      BY <2>2 DEF RowsInv, SenderKnows, SentOnce, TypeOK
    <3>. QED
      BY <2>2, <3>1, <3>2 DEF RowsInv, AutoIsSent, SenderKnows, SentOnce, Pending
  <2>4. click'[c].note = n /\ click'[c].user = click[c].user
        /\ \A d \in Clicks \ {c} : click'[d] = click[d]
    BY <2>1 DEF TypeOK, Handler
  <2>5. DemoOwns'
    BY <2>2, <2>4, DemoOwnsStays DEF RowsInv
  <2>. QED
    BY <2>2, <2>3, <2>5 DEF RowsInv
<1>. QED
  BY <1>1, <1>2

(* The request in demo mode, or the thread, reaches its verdict.           *)
LEMMA VerdictKeepsRows ==
  ASSUME TypeOK, RowsInv, NEW n \in NoteId, NEW status \in {"sent", "failed"},
         note' = [note EXCEPT ![n] = [note[n] EXCEPT !.status = status]],
         UNCHANGED delivered,
         \/ /\ note[n].kind = "demo" /\ UNCHANGED sender
            /\ \A c \in Clicks : click'[c] = click[c] \/ click'[c].pc = "idle"
         \/ /\ sender[n] # "none" /\ sender' = [sender EXCEPT ![n] = "none"]
            /\ status = "sent" => sender[n] = "mark"
            /\ UNCHANGED click
  PROVE  RowsInv'
<1>1. note[n].kind \in {"demo", "manual"}
  BY DEF RowsInv, SenderKnows
<1>2. /\ note'[n].kind = note[n].kind /\ note'[n].user = note[n].user
      /\ note'[n].status = status
      /\ \A i \in NoteId \ {n} : note'[i] = note[i]
      /\ Prefix'
  BY <1>1, Judged DEF RowsInv
<1>3. /\ \A i \in NoteId \ {n} : sender'[i] = sender[i]
      /\ note[n].kind = "manual" => sender'[n] = "none"
      /\ note[n].kind = "demo" => sender'[n] = sender[n]
  BY DEF TypeOK, RowsInv, SenderKnows
<1>4. AutoIsSent'
  BY <1>1, <1>2 DEF RowsInv, AutoIsSent
<1>5. SenderKnows'
  BY <1>1, <1>2, <1>3 DEF RowsInv, SenderKnows, Pending
<1>6. SentOnce'
  BY <1>1, <1>2 DEF RowsInv, SenderKnows, SentOnce
<1>7. \A c \in Clicks : click'[c] = click[c] \/ click'[c].pc = "idle"
  OBVIOUS
<1>8. DemoOwns'
  BY <1>2, <1>7, DemoOwnsStays DEF RowsInv
<1>. QED
  BY <1>2, <1>4, <1>5, <1>6, <1>8 DEF RowsInv

(* The thread asks Gmail, fails, or ends early.                            *)
LEMMA SendingKeepsRows ==
  ASSUME TypeOK, RowsInv, NEW n \in NoteId, SendGmail(n) \/ SendFails(n) \/ MarkFailedFails(n)
  PROVE  RowsInv'
<1>1. note' = note /\ click' = click
  BY DEF SendGmail, SendFails, MarkFailedFails
<1>2. \A i \in NoteId \ {n} : sender'[i] = sender[i] /\ delivered'[i] = delivered[i]
  BY DEF SendGmail, SendFails, MarkFailedFails, TypeOK
<1>3. /\ note[n].kind = "manual" /\ Pending(n)
      /\ sender'[n] # "send"
      /\ sender'[n] = "mark" => delivered'[n] = 1
      /\ delivered'[n] <= 1 /\ delivered'[n] \in Nat
  BY DEF SendGmail, SendFails, MarkFailedFails, TypeOK, RowsInv, SenderKnows, SentOnce
<1>4. Prefix' /\ AutoIsSent' /\ DemoOwns'
  BY <1>1, PrefixStays DEF RowsInv, AutoIsSent, DemoOwns
<1>5. SenderKnows' /\ SentOnce'
  BY <1>1, <1>2, <1>3 DEF RowsInv, SenderKnows, SentOnce, Pending
<1>. QED
  BY <1>4, <1>5 DEF RowsInv

LEMMA RestartKeepsRows ==
  ASSUME RowsInv, Restart
  PROVE  RowsInv'
<1>1. /\ note' = note /\ delivered' = delivered
      /\ \A n \in NoteId : sender'[n] = "none"
      /\ \A c \in Clicks : click'[c].pc = "idle"
  BY DEF Restart, Idle
<1>2. Prefix' /\ AutoIsSent' /\ SenderKnows' /\ DemoOwns' /\ SentOnce'
  BY <1>1, PrefixStays DEF RowsInv, AutoIsSent, SenderKnows, DemoOwns, SentOnce
<1>. QED
  BY <1>2 DEF RowsInv

LEMMA RowsKept == TypeOK /\ RowsInv /\ [Next]_vars => RowsInv'
<1>. SUFFICES ASSUME TypeOK, RowsInv, [Next]_vars PROVE RowsInv'
  OBVIOUS
<1>1. CASE StartRun \/ ChooseAuto \/ ApplyReview \/ EndRun
  BY <1>1, RowsStay DEF StartRun, ChooseAuto, ApplyReview, EndRun
<1>2. ASSUME NEW u \in Users, ApplyAuto(u) \/ AssignByHand(u) PROVE RowsInv'
  BY <1>2, RowsStay DEF ApplyAuto, AssignByHand
<1>3. CASE ForwardDecision
  BY <1>3, AutoForwards DEF ForwardDecision
<1>4. ASSUME NEW s \in Sweepers, SweepSelect(s) PROVE RowsInv'
  BY <1>4, RowsStay DEF SweepSelect
<1>5. ASSUME NEW s \in Sweepers, SweepForward(s) PROVE RowsInv'
  BY <1>5, AutoForwards DEF SweepForward
<1>6. ASSUME NEW c \in Clicks, Press(c) \/ CheckLatest(c) \/ DemoFails(c) PROVE RowsInv'
  <2>1. Idle.pc = "idle" /\ [Idle EXCEPT !.pc = "latest", !.user = assignment.user].pc = "latest"
    BY DEF Idle
  <2>2. [click[c] EXCEPT !.pc = "create"].pc = "create"
    BY DEF TypeOK, Handler
  <2>3. \A d \in Clicks : click'[d] = click[d] \/ click'[d].pc # "demo sent"
    BY <1>6, <2>1, <2>2 DEF Press, CheckLatest, DemoFails, TypeOK
  <2>. QED
    BY <1>6, <2>3, RowsStay DEF Press, CheckLatest, DemoFails
<1>7. ASSUME NEW c \in Clicks, CreateAndStart(c) \/ DemoCreate(c) PROVE RowsInv'
  BY <1>7, PressInserts
<1>8. ASSUME NEW c \in Clicks, DemoSent(c) PROVE RowsInv'
  <2>1. click[c].note \in NoteId /\ note[click[c].note].kind = "demo"
    BY <1>8 DEF DemoSent, RowsInv, DemoOwns
  <2>2. \A d \in Clicks : click'[d] = click[d] \/ click'[d].pc = "idle"
    BY <1>8 DEF DemoSent, TypeOK, Idle
  <2>. QED
    BY <1>8, <2>1, <2>2, VerdictKeepsRows DEF DemoSent, MarkSent
<1>9. ASSUME NEW n \in NoteId, MarkManualForwardSent(n) PROVE RowsInv'
  BY <1>9, VerdictKeepsRows DEF MarkManualForwardSent, MarkSent
<1>10. ASSUME NEW n \in NoteId, MarkManualForwardFailed(n) PROVE RowsInv'
  BY <1>10, VerdictKeepsRows DEF MarkManualForwardFailed
<1>11. ASSUME NEW n \in NoteId, SendGmail(n) \/ SendFails(n) \/ MarkFailedFails(n) PROVE RowsInv'
  BY <1>11, SendingKeepsRows
<1>12. CASE Restart
  BY <1>12, RestartKeepsRows
<1>13. CASE UNCHANGED vars
  BY <1>13, RowsStay DEF vars
<1>. QED
  BY <1>1, <1>2, <1>3, <1>4, <1>5, <1>6, <1>7, <1>8, <1>9, <1>10, <1>11, <1>12, <1>13
     DEF Next, ClickStep, SenderStep

-----------------------------------------------------------------------------
(* Every pending row is somebody's task.                                   *)

(* A pending row that has its owner keeps him, or is on the list of the    *)
(* lost, or is a new one with an owner of its own.                         *)
KeepsOwner(n) ==
  /\ n \notin lost /\ Pending(n)
  /\ sender[n] # "none" => sender'[n] # "none"
  /\ \A c \in Clicks : click[c].pc = "demo sent" /\ click[c].note = n => click'[c] = click[c]
HasOwner(n) ==
  \/ sender[n] # "none"
  \/ \E c \in Clicks : click[c].pc = "demo sent" /\ click[c].note = n

LEMMA OwnersStay ==
  ASSUME PendingHasSender,
         \A n \in NoteId : n \notin lost' /\ note'[n].status = "pending" =>
                            KeepsOwner(n) \/ HasOwner(n)'
  PROVE  PendingHasSender'
<1>1. ASSUME NEW n \in NoteId, KeepsOwner(n) PROVE HasOwner(n)'
  <2>1. sender[n] # "none" \/ \E c \in Clicks : click[c].pc = "demo sent" /\ click[c].note = n
    BY <1>1 DEF PendingHasSender, KeepsOwner
  <2>2. CASE sender[n] # "none"
    BY <1>1, <2>2 DEF KeepsOwner, HasOwner
  <2>3. ASSUME NEW c \in Clicks, click[c].pc = "demo sent", click[c].note = n
        PROVE  HasOwner(n)'
    <3>1. click'[c] = click[c]
      BY <1>1, <2>3 DEF KeepsOwner
    <3>. QED
      BY <2>3, <3>1 DEF HasOwner
  <2>. QED
    BY <2>1, <2>2, <2>3
<1>2. \A n \in NoteId : n \notin lost' /\ note'[n].status = "pending" => HasOwner(n)'
  BY <1>1
<1>. QED
  BY <1>2 DEF PendingHasSender, Pending, HasOwner

LEMMA OwnedKept == TypeOK /\ RowsInv /\ PendingHasSender /\ [Next]_vars => PendingHasSender'
<1>. SUFFICES ASSUME TypeOK, RowsInv, PendingHasSender, [Next]_vars PROVE PendingHasSender'
  OBVIOUS
<1>0. ASSUME UNCHANGED <<note, lost, sender>>,
             \A c \in Clicks : click'[c] = click[c] \/ click[c].pc # "demo sent"
      PROVE  PendingHasSender'
  BY <1>0, OwnersStay DEF KeepsOwner, HasOwner, Pending
<1>1. CASE StartRun \/ ChooseAuto \/ ApplyReview \/ EndRun
  BY <1>0, <1>1 DEF StartRun, ChooseAuto, ApplyReview, EndRun
<1>2. ASSUME NEW u \in Users, ApplyAuto(u) \/ AssignByHand(u) PROVE PendingHasSender'
  BY <1>0, <1>2 DEF ApplyAuto, AssignByHand
<1>3. ASSUME NEW user, MarkAutoForwarded(user), UNCHANGED <<lost, sender, click>>
      PROVE  PendingHasSender'
  <2>1. CASE AutoForwarded
    BY <1>0, <1>3, <2>1 DEF MarkAutoForwarded
  <2>2. CASE ~AutoForwarded
    <3>1. PICK n \in NoteId : Insert(n, "auto", user, "sent")
      BY <1>3, <2>2 DEF MarkAutoForwarded
    <3>2. note'[n].status = "sent" /\ \A i \in NoteId \ {n} : note'[i] = note[i]
      BY <3>1, Inserted DEF RowsInv
    <3>. QED
      BY <1>3, <3>2, OwnersStay DEF KeepsOwner, HasOwner, Pending
  <2>. QED
    BY <2>1, <2>2
<1>4. CASE ForwardDecision
  BY <1>3, <1>4 DEF ForwardDecision
<1>5. ASSUME NEW s \in Sweepers, SweepSelect(s) PROVE PendingHasSender'
  BY <1>0, <1>5 DEF SweepSelect
<1>6. ASSUME NEW s \in Sweepers, SweepForward(s) PROVE PendingHasSender'
  BY <1>3, <1>6 DEF SweepForward
<1>7. ASSUME NEW c \in Clicks, Press(c) \/ CheckLatest(c) PROVE PendingHasSender'
  <2>1. \A d \in Clicks : click'[d] = click[d] \/ click[d].pc # "demo sent"
    BY <1>7 DEF Press, CheckLatest, TypeOK
  <2>. QED
    BY <1>0, <1>7, <2>1 DEF Press, CheckLatest
<1>8. ASSUME NEW c \in Clicks, CreateAndStart(c) PROVE PendingHasSender'
  <2>1. PICK n \in NoteId : /\ Insert(n, "manual", click[c].user, "pending")
                            /\ sender' = [sender EXCEPT ![n] = "send"]
    BY <1>8 DEF CreateAndStart
  <2>2. \A i \in NoteId \ {n} : note'[i] = note[i] /\ sender'[i] = sender[i]
    BY <2>1, Inserted DEF RowsInv, TypeOK
  <2>3. sender'[n] = "send"
    BY <2>1 DEF TypeOK
  <2>4. \A d \in Clicks : click[d].pc = "demo sent" => click'[d] = click[d]
    BY <1>8 DEF CreateAndStart, TypeOK
  <2>. QED
    BY <1>8, <2>2, <2>3, <2>4, OwnersStay DEF CreateAndStart, KeepsOwner, HasOwner, Pending
<1>9. ASSUME NEW c \in Clicks, DemoCreate(c) PROVE PendingHasSender'
  <2>1. PICK n \in NoteId :
          /\ Insert(n, "demo", click[c].user, "pending")
          /\ click' = [click EXCEPT ![c] = [click[c] EXCEPT !.pc = "demo sent", !.note = n]]
    BY <1>9 DEF DemoCreate
  <2>2. \A i \in NoteId \ {n} : note'[i] = note[i]
    BY <2>1, Inserted DEF RowsInv
  <2>3. click'[c].pc = "demo sent" /\ click'[c].note = n
    BY <2>1 DEF TypeOK, Handler
  <2>4. \A d \in Clicks : click[d].pc = "demo sent" => click'[d] = click[d]
    BY <1>9, <2>1 DEF DemoCreate, TypeOK
  <2>5. sender' = sender /\ lost' = lost
    BY <1>9 DEF DemoCreate
  <2>. QED
    BY <2>2, <2>3, <2>4, <2>5, OwnersStay DEF KeepsOwner, HasOwner, Pending
<1>10. ASSUME NEW c \in Clicks, DemoSent(c) \/ DemoFails(c) PROVE PendingHasSender'
  <2>1. click[c].note \in NoteId /\ note[click[c].note].kind = "demo"
    BY <1>10 DEF DemoSent, DemoFails, RowsInv, DemoOwns
  <2>2. \A d \in Clicks \ {c} : click'[d] = click[d]
    BY <1>10 DEF DemoSent, DemoFails, TypeOK
  <2>3. CASE DemoSent(c)
    <3>1. note' = [note EXCEPT ![click[c].note] = [note[click[c].note] EXCEPT !.status = "sent"]]
      BY <2>3 DEF DemoSent, MarkSent
    <3>2. /\ note'[click[c].note].status = "sent"
          /\ \A i \in NoteId \ {click[c].note} : note'[i] = note[i]
      BY <2>1, <3>1, Judged DEF RowsInv
    <3>3. lost' = lost /\ sender' = sender
      BY <2>3 DEF DemoSent
    <3>. QED
      BY <2>2, <3>2, <3>3, OwnersStay DEF KeepsOwner, HasOwner, Pending
  <2>4. CASE DemoFails(c)
    BY <2>2, <2>4, OwnersStay DEF DemoFails, KeepsOwner, HasOwner, Pending
  <2>. QED
    BY <1>10, <2>3, <2>4
<1>11. ASSUME NEW n \in NoteId, SendGmail(n) \/ SendFails(n) PROVE PendingHasSender'
  <2>1. \A i \in NoteId : sender[i] # "none" => sender'[i] # "none"
    BY <1>11 DEF SendGmail, SendFails, TypeOK
  <2>. QED
    BY <1>11, <2>1, OwnersStay DEF SendGmail, SendFails, KeepsOwner, HasOwner, Pending
<1>12. ASSUME NEW n \in NoteId, NEW status \in {"sent", "failed"}, sender[n] # "none",
              note' = [note EXCEPT ![n] = [note[n] EXCEPT !.status = status]],
              sender' = [sender EXCEPT ![n] = "none"], UNCHANGED <<click, lost>>
       PROVE  PendingHasSender'
  <2>1. note[n].kind = "manual"
    BY <1>12 DEF RowsInv, SenderKnows
  <2>2. note'[n].status = status /\ \A i \in NoteId \ {n} : note'[i] = note[i]
    BY <1>12, <2>1, Judged DEF RowsInv
  <2>3. \A i \in NoteId \ {n} : sender'[i] = sender[i]
    BY <1>12 DEF TypeOK
  <2>. QED
    BY <1>12, <2>2, <2>3, OwnersStay DEF KeepsOwner, HasOwner, Pending
<1>13. ASSUME NEW n \in NoteId, MarkManualForwardSent(n) PROVE PendingHasSender'
  BY <1>12, <1>13 DEF MarkManualForwardSent, MarkSent
<1>14. ASSUME NEW n \in NoteId, MarkManualForwardFailed(n) PROVE PendingHasSender'
  BY <1>12, <1>14 DEF MarkManualForwardFailed
<1>15. ASSUME NEW n \in NoteId, MarkFailedFails(n) PROVE PendingHasSender'
  <2>1. \A i \in NoteId \ {n} : sender'[i] = sender[i]
    BY <1>15 DEF MarkFailedFails, TypeOK
  <2>. QED
    BY <1>15, <2>1, OwnersStay DEF MarkFailedFails, KeepsOwner, HasOwner, Pending
<1>16. CASE Restart
  BY <1>16, OwnersStay DEF Restart, KeepsOwner, HasOwner, Pending
<1>17. CASE UNCHANGED vars
  BY <1>0, <1>17 DEF vars
<1>. QED
  BY <1>1, <1>2, <1>4, <1>5, <1>6, <1>7, <1>8, <1>9, <1>10, <1>11, <1>13, <1>14, <1>15, <1>16,
     <1>17 DEF Next, ClickStep, SenderStep

-----------------------------------------------------------------------------
(* Two pending rows mean a race.                                           *)

RaceInv == Checked /\ AutoBetween

(* Of rows that fill the ids in order, one that nothing follows is last.   *)
LEMMA LastIsLatest ==
  ASSUME TypeOK, Prefix, NEW n \in NoteId, Pending(n), LatestStatus # "pending"
  PROVE  \E k \in NoteId : n < k /\ Created(k)
<1>. SUFFICES ASSUME \A k \in NoteId : n < k => ~Created(k) PROVE FALSE
  OBVIOUS
<1>1. Created(n) /\ n \in Nat
  BY DEF Pending, Created, Unused, NoteId
<1>2. \A i \in NoteId : Created(i) => i <= n
  BY DEF NoteId
<1>. DEFINE Last(l) == Created(l) /\ \A i \in NoteId : Created(i) => i <= l
            last == CHOOSE l \in NoteId : Last(l)
<1>3. last \in NoteId /\ Last(last)
  <2>1. \E l \in NoteId : Last(l)
    BY <1>1, <1>2
  <2>. QED
    BY <2>1
<1>4. last = n
  BY <1>1, <1>2, <1>3 DEF NoteId
<1>5. LatestStatus = note[last].status
  BY <1>1 DEF LatestStatus
<1>. QED
  BY <1>4, <1>5 DEF Pending

(* Nothing new: rows may stop being pending, presses give up.              *)
LEMMA RaceStays ==
  ASSUME RaceInv, raced' = raced,
         \A n \in NoteId : /\ Created(n)' <=> Created(n)
                           /\ note'[n].kind = note[n].kind
                           /\ note'[n].status = "pending" => Pending(n),
         \A c \in Clicks : click'[c].pc = "create" => click[c].pc = "create"
  PROVE  RaceInv'
<1>1. Checked'
  BY DEF RaceInv, Checked, Pending
<1>2. AutoBetween'
  BY DEF RaceInv, AutoBetween, Pending
<1>. QED
  BY <1>1, <1>2 DEF RaceInv

LEMMA RowsSame ==
  ASSUME RaceInv, UNCHANGED <<note, raced>>,
         \A c \in Clicks : click'[c].pc = "create" => click[c].pc = "create"
  PROVE  RaceInv'
  BY RaceStays DEF Created, Pending, Unused

(* An automatic forward ends the stretch of any pending row.               *)
LEMMA AutoKeepsRace ==
  ASSUME TypeOK, RowsInv, RaceInv, NEW user, MarkAutoForwarded(user), UNCHANGED <<click, raced>>
  PROVE  RaceInv'
<1>1. CASE AutoForwarded
  BY <1>1, RowsSame DEF MarkAutoForwarded
<1>2. CASE ~AutoForwarded
  <2>1. PICK n \in NoteId : Insert(n, "auto", user, "sent")
    BY <1>2 DEF MarkAutoForwarded
  <2>2. /\ note'[n].kind = "auto" /\ note'[n].status = "sent"
        /\ \A i \in NoteId \ {n} : note'[i] = note[i]
        /\ \A i \in NoteId : n < i => note[i] = Unused
        /\ note[n] = Unused
    BY <2>1, Inserted DEF RowsInv
  <2>3. \A i \in NoteId : /\ Created(i) => Created(i)'
                          /\ Created(i)' => Created(i) \/ i = n
                          /\ Pending(i)' => Pending(i) /\ i # n
    BY <2>2 DEF Created, Pending, Unused
  <2>4. Checked'
    BY <2>3 DEF RaceInv, Checked
  <2>5. ASSUME NEW i \in NoteId, NEW k \in NoteId, ~raced, Pending(i)', i < k, Created(k)'
        PROVE  \E j \in NoteId : i < j /\ j <= k /\ note'[j].kind = "auto"
    <3>1. CASE k = n
      BY <2>2, <2>5, <3>1 DEF NoteId
    <3>2. CASE k # n
      <4>1. PICK j \in NoteId : i < j /\ j <= k /\ note[j].kind = "auto"
        BY <2>3, <2>5, <3>2 DEF RaceInv, AutoBetween
      <4>2. j # n
        BY <2>2, <4>1 DEF Unused
      <4>. QED
        BY <2>2, <4>1, <4>2
    <3>. QED
      BY <3>1, <3>2
  <2>6. AutoBetween'
    BY <2>5 DEF AutoBetween
  <2>. QED
    BY <2>4, <2>6 DEF RaceInv
<1>. QED
  BY <1>1, <1>2

(* A press that is about to insert.                                        *)
LEMMA CheckKeepsRace ==
  ASSUME TypeOK, RowsInv, RaceInv, NEW c \in Clicks, CheckLatest(c)
  PROVE  RaceInv'
<1>1. note' = note
  BY DEF CheckLatest
<1>2. \A d \in Clicks \ {c} : click'[d] = click[d]
  BY DEF CheckLatest, TypeOK
<1>3. CASE LatestStatus = "pending"
  <2>1. click'[c].pc = "idle"
    BY <1>3 DEF CheckLatest, TypeOK, Idle
  <2>2. raced' <=> raced
    BY <1>3 DEF CheckLatest
  <2>3. Checked'
    BY <1>1, <1>2, <2>1, <2>2 DEF RaceInv, Checked, Pending, Created, Unused
  <2>4. AutoBetween'
    BY <1>1, <2>2 DEF RaceInv, AutoBetween, Pending, Created, Unused
  <2>. QED
    BY <2>3, <2>4 DEF RaceInv
<1>4. CASE LatestStatus # "pending"
  <2>1. ~raced' => ~raced /\ \A d \in Clicks : click[d].pc # "create"
    BY <1>4 DEF CheckLatest
  <2>2. \A n \in NoteId : Pending(n) => \E k \in NoteId : n < k /\ Created(k)
    BY <1>4, LastIsLatest DEF RowsInv
  <2>3. Checked'
    BY <1>1, <1>2, <2>1, <2>2 DEF Checked, Pending, Created, Unused
  <2>4. AutoBetween'
    BY <1>1, <2>1 DEF RaceInv, AutoBetween, Pending, Created, Unused
  <2>. QED
    BY <2>3, <2>4 DEF RaceInv
<1>. QED
  BY <1>3, <1>4

(* The row that a press inserts follows no pending one.                    *)
LEMMA PressKeepsRace ==
  ASSUME TypeOK, RowsInv, RaceInv, NEW c \in Clicks, NEW n \in NoteId,
         NEW kind \in {"manual", "demo"}, NEW user, Insert(n, kind, user, "pending"),
         click[c].pc = "create", click'[c].pc # "create", raced' = raced,
         \A d \in Clicks \ {c} : click'[d] = click[d]
  PROVE  RaceInv'
<1>1. /\ note[n] = Unused /\ note'[n].kind = kind
      /\ \A i \in NoteId \ {n} : note'[i] = note[i]
      /\ \A i \in NoteId : n < i => note[i] = Unused
  BY Inserted DEF RowsInv
<1>2. ASSUME ~raced PROVE \A d \in Clicks : click'[d].pc # "create"
  BY <1>2 DEF RaceInv, Checked
<1>3. Checked'
  BY <1>2 DEF Checked
<1>4. ASSUME NEW i \in NoteId, NEW k \in NoteId, ~raced, Pending(i)', i < k, Created(k)'
      PROVE  \E j \in NoteId : i < j /\ j <= k /\ note'[j].kind = "auto"
  <2>1. i # n /\ Pending(i)
    BY <1>1, <1>4 DEF NoteId, Pending, Created, Unused
  <2>2. PICK l \in NoteId : i < l /\ Created(l)
    BY <1>4, <2>1 DEF RaceInv, Checked
  <2>3. l < n
    BY <1>1, <2>2 DEF NoteId, Created
  <2>4. PICK m \in NoteId : i < m /\ m <= k /\ Created(m) /\ m # n
    <3>1. CASE k = n
      BY <2>2, <2>3, <3>1 DEF NoteId
    <3>2. CASE k # n
      BY <1>1, <1>4, <3>2 DEF NoteId, Created, Unused
    <3>. QED
      BY <3>1, <3>2
  <2>5. PICK j \in NoteId : i < j /\ j <= m /\ note[j].kind = "auto"
    BY <1>4, <2>1, <2>4 DEF RaceInv, AutoBetween
  <2>6. j # n
    BY <1>1, <2>5 DEF Unused
  <2>. QED
    BY <1>1, <2>4, <2>5, <2>6 DEF NoteId
<1>5. AutoBetween'
  BY <1>4 DEF AutoBetween
<1>. QED
  BY <1>3, <1>5 DEF RaceInv

LEMMA VerdictKeepsRace ==
  ASSUME TypeOK, RowsInv, RaceInv, NEW n \in NoteId, note[n].kind # "none",
         NEW status \in {"sent", "failed"}, raced' = raced,
         note' = [note EXCEPT ![n] = [note[n] EXCEPT !.status = status]],
         \A c \in Clicks : click'[c] = click[c] \/ click'[c].pc = "idle"
  PROVE  RaceInv'
<1>1. /\ note'[n].kind = note[n].kind /\ note'[n].status = status
      /\ \A i \in NoteId \ {n} : note'[i] = note[i]
      /\ \A i \in NoteId : Created(i)' <=> Created(i)
  BY Judged DEF RowsInv
<1>2. \A i \in NoteId : /\ note'[i].kind = note[i].kind
                        /\ note'[i].status = "pending" => Pending(i)
  BY <1>1 DEF Pending
<1>3. \A c \in Clicks : click'[c].pc = "create" => click[c].pc = "create"
  OBVIOUS
<1>. QED
  BY <1>1, <1>2, <1>3, RaceStays

LEMMA RaceKept == TypeOK /\ RowsInv /\ RaceInv /\ [Next]_vars => RaceInv'
<1>. SUFFICES ASSUME TypeOK, RowsInv, RaceInv, [Next]_vars PROVE RaceInv'
  OBVIOUS
<1>1. CASE StartRun \/ ChooseAuto \/ ApplyReview \/ EndRun
  BY <1>1, RowsSame DEF StartRun, ChooseAuto, ApplyReview, EndRun
<1>2. ASSUME NEW u \in Users, ApplyAuto(u) \/ AssignByHand(u) PROVE RaceInv'
  BY <1>2, RowsSame DEF ApplyAuto, AssignByHand
<1>3. CASE ForwardDecision
  BY <1>3, AutoKeepsRace DEF ForwardDecision
<1>4. ASSUME NEW s \in Sweepers, SweepSelect(s) PROVE RaceInv'
  BY <1>4, RowsSame DEF SweepSelect
<1>5. ASSUME NEW s \in Sweepers, SweepForward(s) PROVE RaceInv'
  BY <1>5, AutoKeepsRace DEF SweepForward
<1>6. ASSUME NEW c \in Clicks, Press(c) \/ DemoFails(c) PROVE RaceInv'
  <2>1. Idle.pc = "idle" /\ [Idle EXCEPT !.pc = "latest", !.user = assignment.user].pc = "latest"
    BY DEF Idle
  <2>2. \A d \in Clicks : click'[d].pc = "create" => click[d].pc = "create"
    BY <1>6, <2>1 DEF Press, DemoFails, TypeOK
  <2>. QED
    BY <1>6, <2>2, RowsSame DEF Press, DemoFails
<1>7. ASSUME NEW c \in Clicks, CheckLatest(c) PROVE RaceInv'
  BY <1>7, CheckKeepsRace
<1>8. ASSUME NEW c \in Clicks, CreateAndStart(c) PROVE RaceInv'
  <2>1. click'[c].pc # "create" /\ \A d \in Clicks \ {c} : click'[d] = click[d]
    BY <1>8 DEF CreateAndStart, TypeOK, Idle
  <2>. QED
    BY <1>8, <2>1, PressKeepsRace DEF CreateAndStart
<1>9. ASSUME NEW c \in Clicks, DemoCreate(c) PROVE RaceInv'
  <2>1. PICK n \in NoteId :
          /\ Insert(n, "demo", click[c].user, "pending")
          /\ click' = [click EXCEPT ![c] = [click[c] EXCEPT !.pc = "demo sent", !.note = n]]
    BY <1>9 DEF DemoCreate
  <2>2. click'[c].pc # "create" /\ \A d \in Clicks \ {c} : click'[d] = click[d]
    BY <2>1 DEF TypeOK, Handler
  <2>. QED
    BY <1>9, <2>1, <2>2, PressKeepsRace DEF DemoCreate
<1>10. ASSUME NEW c \in Clicks, DemoSent(c) PROVE RaceInv'
  <2>1. click[c].note \in NoteId /\ note[click[c].note].kind = "demo"
    BY <1>10 DEF DemoSent, RowsInv, DemoOwns
  <2>2. \A d \in Clicks : click'[d] = click[d] \/ click'[d].pc = "idle"
    BY <1>10 DEF DemoSent, TypeOK, Idle
  <2>. QED
    BY <1>10, <2>1, <2>2, VerdictKeepsRace DEF DemoSent, MarkSent
<1>11. ASSUME NEW n \in NoteId, MarkManualForwardSent(n) \/ MarkManualForwardFailed(n) PROVE RaceInv'
  <2>1. note[n].kind # "none"
    BY <1>11 DEF MarkManualForwardSent, MarkManualForwardFailed, RowsInv, SenderKnows
  <2>. QED
    BY <1>11, <2>1, VerdictKeepsRace DEF MarkManualForwardSent, MarkManualForwardFailed, MarkSent
<1>12. ASSUME NEW n \in NoteId, SendGmail(n) \/ SendFails(n) \/ MarkFailedFails(n) PROVE RaceInv'
  BY <1>12, RowsSame DEF SendGmail, SendFails, MarkFailedFails
<1>13. CASE Restart
  BY <1>13, RowsSame DEF Restart, Idle
<1>14. CASE UNCHANGED vars
  BY <1>14, RowsSame DEF vars
<1>. QED
  BY <1>1, <1>2, <1>3, <1>4, <1>5, <1>6, <1>7, <1>8, <1>9, <1>10, <1>11, <1>12, <1>13, <1>14
     DEF Next, ClickStep, SenderStep

-----------------------------------------------------------------------------
(* A mail is forwarded to its assignee.                                    *)

AssigneeInv == SameAssignee /\ ForwardedToAssignee

(* Any step but a new assignment: who forwards goes on to the same user or *)
(* begins with the assignee, what was sent stays so, and the assignment is *)
(* forwarded once more only with a row that is sent to the assignee.       *)
LEMMA AssigneeStays ==
  ASSUME AssigneeInv, UNCHANGED moved, assignment'.user = assignment.user,
         decided' \in {decided, NoUser},
         \A n \in NoteId : note'[n].status = "pending" =>
            \/ Pending(n) /\ note'[n].user = note[n].user
            \/ ~moved => note'[n].user = assignment.user,
         \A c \in Clicks : click'[c].pc # "idle" =>
            \/ click[c].pc # "idle" /\ click'[c].user = click[c].user
            \/ click'[c].user = assignment.user,
         \A s \in Sweepers : sweep'[s].pc # "idle" =>
            \/ sweep'[s] = sweep[s]
            \/ sweep'[s].user = assignment.user,
         \A n \in NoteId : note[n].status = "sent" =>
            note'[n].status = "sent" /\ note'[n].user = note[n].user,
         \/ assignment' = assignment
         \/ \E n \in NoteId : /\ note'[n].status = "sent"
                              /\ moved \/ note'[n].user = assignment.user
  PROVE  AssigneeInv'
<1>1. SameAssignee'
  BY DEF AssigneeInv, SameAssignee, Pending
<1>2. ForwardedToAssignee'
  BY DEF AssigneeInv, ForwardedToAssignee
<1>. QED
  BY <1>1, <1>2 DEF AssigneeInv

LEMMA MarkKeepsUser ==
  ASSUME TypeOK, MarkAssignment
  PROVE  assignment'.user = assignment.user
  BY DEF TypeOK, Assignment, MarkAssignment

(* Somebody else may take the mail over only while nobody forwards it.     *)
LEMMA ReassignKeeps ==
  ASSUME TypeOK, AssigneeInv, NEW user \in Users \cup {NoUser},
         NEW status \in {"review_required", "assigned"}, Reassign(user, status),
         UNCHANGED <<note, click, sweep>>, decided' \in {decided, user}
  PROVE  AssigneeInv'
<1>1. assignment'.user = user /\ assignment'.status # "forwarded"
  BY DEF Reassign
<1>2. ~moved' => ~moved /\ (UnderWay => user = assignment.user)
  BY DEF Reassign
<1>3. SameAssignee'
  BY <1>1, <1>2 DEF AssigneeInv, SameAssignee, UnderWay, Pending
<1>4. ForwardedToAssignee'
  BY <1>1 DEF ForwardedToAssignee
<1>. QED
  BY <1>3, <1>4 DEF AssigneeInv

LEMMA AutoKeepsAssignee ==
  ASSUME TypeOK, RowsInv, AssigneeInv, NEW user \in Users \cup {NoUser}, MarkAutoForwarded(user),
         ~moved => user = assignment.user,
         UNCHANGED <<click, moved>>, decided' \in {decided, NoUser},
         \A s \in Sweepers : sweep'[s] = sweep[s] \/ sweep'[s].pc = "idle"
  PROVE  AssigneeInv'
<1>1. CASE AutoForwarded
  <2>1. note' = note /\ assignment' = assignment
    BY <1>1 DEF MarkAutoForwarded
  <2>. QED
    BY <2>1, AssigneeStays DEF Pending
<1>2. CASE ~AutoForwarded
  <2>1. PICK n \in NoteId : Insert(n, "auto", user, "sent")
    BY <1>2 DEF MarkAutoForwarded
  <2>2. /\ note'[n].user = user /\ note'[n].status = "sent" /\ note[n] = Unused
        /\ \A i \in NoteId \ {n} : note'[i] = note[i]
    BY <2>1, Inserted DEF RowsInv
  <2>3. assignment'.user = assignment.user
    BY <1>2, MarkKeepsUser DEF MarkAutoForwarded
  <2>4. \A i \in NoteId : /\ note'[i].status = "pending" => Pending(i) /\ note'[i].user = note[i].user
                          /\ note[i].status = "sent" =>
                               note'[i].status = "sent" /\ note'[i].user = note[i].user
    BY <2>2 DEF Pending, Unused
  <2>. QED
    BY <2>2, <2>3, <2>4, AssigneeStays
<1>. QED
  BY <1>1, <1>2

(* A press adds a row for the assignee it has read.                        *)
LEMMA PressKeepsAssignee ==
  ASSUME TypeOK, RowsInv, AssigneeInv, NEW c \in Clicks, click[c].pc = "create",
         NEW n \in NoteId, NEW kind \in {"manual", "demo"},
         Insert(n, kind, click[c].user, "pending"),
         click'[c].pc = "idle" \/ click'[c].user = click[c].user,
         \A d \in Clicks \ {c} : click'[d] = click[d],
         UNCHANGED <<assignment, sweep, decided, moved>>
  PROVE  AssigneeInv'
<1>1. /\ note'[n].user = click[c].user /\ note[n] = Unused
      /\ \A i \in NoteId \ {n} : note'[i] = note[i]
  BY Inserted DEF RowsInv
<1>2. ~moved => click[c].user = assignment.user
  BY DEF AssigneeInv, SameAssignee
<1>3. \A i \in NoteId : note'[i].status = "pending" =>
        \/ Pending(i) /\ note'[i].user = note[i].user
        \/ ~moved => note'[i].user = assignment.user
  BY <1>1, <1>2 DEF Pending
<1>4. \A i \in NoteId : note[i].status = "sent" =>
        note'[i].status = "sent" /\ note'[i].user = note[i].user
  BY <1>1 DEF Unused
<1>5. \A d \in Clicks : click'[d].pc # "idle" => click[d].pc # "idle" /\ click'[d].user = click[d].user
  OBVIOUS
<1>. QED
  BY <1>3, <1>4, <1>5, AssigneeStays

LEMMA VerdictKeepsAssignee ==
  ASSUME TypeOK, RowsInv, AssigneeInv, NEW n \in NoteId, note[n].kind # "none",
         NEW status \in {"sent", "failed"},
         note' = [note EXCEPT ![n] = [note[n] EXCEPT !.status = status]],
         \/ status = "failed" /\ Pending(n) /\ UNCHANGED assignment
         \/ /\ status = "sent" /\ MarkAssignment
            /\ ~moved => note[n].user = assignment.user,
         \A c \in Clicks : click'[c] = click[c] \/ click'[c].pc = "idle",
         UNCHANGED <<sweep, decided, moved>>
  PROVE  AssigneeInv'
<1>1. /\ note'[n].user = note[n].user /\ note'[n].status = status
      /\ \A i \in NoteId \ {n} : note'[i] = note[i]
  BY Judged DEF RowsInv
<1>2. assignment'.user = assignment.user
  BY MarkKeepsUser
<1>3. \A i \in NoteId :
        /\ note'[i].status = "pending" => Pending(i) /\ note'[i].user = note[i].user
        /\ note[i].status = "sent" => note'[i].status = "sent" /\ note'[i].user = note[i].user
  BY <1>1 DEF Pending
<1>4. \/ assignment' = assignment
      \/ note'[n].status = "sent" /\ (moved \/ note'[n].user = assignment.user)
  BY <1>1
<1>. QED
  BY <1>2, <1>3, <1>4, AssigneeStays

LEMMA PressesKeepAssignee ==
  ASSUME AssigneeInv, UNCHANGED assignment, UNCHANGED note, UNCHANGED sweep, UNCHANGED moved,
         decided' \in {decided, NoUser},
         \A c \in Clicks :
           \/ click'[c].pc = "idle"
           \/ click[c].pc # "idle" /\ click'[c].user = click[c].user
           \/ click'[c].user = assignment.user
  PROVE  AssigneeInv'
  BY AssigneeStays DEF Pending

LEMMA CheckKeepsAssignee ==
  ASSUME TypeOK, AssigneeInv, NEW c \in Clicks, CheckLatest(c)
  PROVE  AssigneeInv'
<1>1. [click[c] EXCEPT !.pc = "create"].user = click[c].user /\ Idle.pc = "idle"
  BY DEF TypeOK, Handler, Idle
<1>2. \A d \in Clicks : \/ click'[d].pc = "idle" \/ click'[d] = click[d]
                        \/ click[d].pc # "idle" /\ click'[d].user = click[d].user
  BY <1>1 DEF CheckLatest, TypeOK
<1>3. /\ assignment' = assignment /\ note' = note /\ sweep' = sweep /\ moved' = moved
      /\ decided' \in {decided, NoUser}
  BY DEF CheckLatest
<1>4. SameAssignee'
  BY <1>2, <1>3 DEF AssigneeInv, SameAssignee, Pending
<1>5. ForwardedToAssignee'
  BY <1>3 DEF AssigneeInv, ForwardedToAssignee
<1>. QED
  BY <1>4, <1>5 DEF AssigneeInv

LEMMA DemoFailsKeepsAssignee ==
  ASSUME TypeOK, AssigneeInv, NEW c \in Clicks, DemoFails(c)
  PROVE  AssigneeInv'
<1>1. \A d \in Clicks : click'[d] = click[d] \/ click'[d].pc = "idle"
  BY DEF DemoFails, TypeOK, Idle
<1>2. /\ assignment' = assignment /\ note' = note /\ sweep' = sweep /\ moved' = moved
      /\ decided' \in {decided, NoUser}
  BY DEF DemoFails
<1>3. SameAssignee'
  BY <1>1, <1>2 DEF AssigneeInv, SameAssignee, Pending
<1>4. ForwardedToAssignee'
  BY <1>2 DEF AssigneeInv, ForwardedToAssignee
<1>. QED
  BY <1>3, <1>4 DEF AssigneeInv

LEMMA AssigneeKept == TypeOK /\ RowsInv /\ AssigneeInv /\ [Next]_vars => AssigneeInv'
<1>. SUFFICES ASSUME TypeOK, RowsInv, AssigneeInv, [Next]_vars PROVE AssigneeInv'
  OBVIOUS
<1>1. CASE StartRun \/ ChooseAuto \/ EndRun
  BY <1>1, PressesKeepAssignee DEF StartRun, ChooseAuto, EndRun
<1>2. CASE ApplyReview
  BY <1>2, ReassignKeeps DEF ApplyReview
<1>3. ASSUME NEW u \in Users, ApplyAuto(u) \/ AssignByHand(u) PROVE AssigneeInv'
  BY <1>3, ReassignKeeps DEF ApplyAuto, AssignByHand
<1>4. CASE ForwardDecision
  <2>1. decided \in Users \cup {NoUser} /\ (~moved => decided = assignment.user)
    BY <1>4 DEF ForwardDecision, TypeOK, AssigneeInv, SameAssignee
  <2>. QED
    BY <1>4, <2>1, AutoKeepsAssignee DEF ForwardDecision
<1>5. ASSUME NEW s \in Sweepers, SweepSelect(s) PROVE AssigneeInv'
  <2>1. [Idle EXCEPT !.pc = "forward", !.user = assignment.user].user = assignment.user
    BY DEF Idle
  <2>2. \A t \in Sweepers : sweep'[t] = sweep[t] \/ sweep'[t].user = assignment.user
    BY <1>5, <2>1 DEF SweepSelect, TypeOK
  <2>. QED
    BY <1>5, <2>2, AssigneeStays DEF SweepSelect, Pending
<1>6. ASSUME NEW s \in Sweepers, SweepForward(s) PROVE AssigneeInv'
  <2>1. sweep[s].user \in Users \cup {NoUser} /\ (~moved => sweep[s].user = assignment.user)
    BY <1>6 DEF SweepForward, TypeOK, Handler, AssigneeInv, SameAssignee
  <2>2. \A t \in Sweepers : sweep'[t] = sweep[t] \/ sweep'[t].pc = "idle"
    BY <1>6 DEF SweepForward, TypeOK, Idle
  <2>. QED
    BY <1>6, <2>1, <2>2, AutoKeepsAssignee DEF SweepForward
<1>7. ASSUME NEW c \in Clicks, Press(c) PROVE AssigneeInv'
  <2>1. [Idle EXCEPT !.pc = "latest", !.user = assignment.user].user = assignment.user
    BY DEF Idle
  <2>2. \A d \in Clicks : click'[d] = click[d] \/ click'[d].user = assignment.user
    BY <1>7, <2>1 DEF Press, TypeOK
  <2>. QED
    BY <1>7, <2>2, PressesKeepAssignee DEF Press
<1>8. ASSUME NEW c \in Clicks, CheckLatest(c) PROVE AssigneeInv'
  BY <1>8, CheckKeepsAssignee
<1>9. ASSUME NEW c \in Clicks, CreateAndStart(c) PROVE AssigneeInv'
  <2>1. click'[c].pc = "idle" /\ \A d \in Clicks \ {c} : click'[d] = click[d]
    BY <1>9 DEF CreateAndStart, TypeOK, Idle
  <2>. QED
    BY <1>9, <2>1, PressKeepsAssignee DEF CreateAndStart
<1>10. ASSUME NEW c \in Clicks, DemoCreate(c) PROVE AssigneeInv'
  <2>1. PICK n \in NoteId :
          /\ Insert(n, "demo", click[c].user, "pending")
          /\ click' = [click EXCEPT ![c] = [click[c] EXCEPT !.pc = "demo sent", !.note = n]]
    BY <1>10 DEF DemoCreate
  <2>2. click'[c].user = click[c].user /\ \A d \in Clicks \ {c} : click'[d] = click[d]
    BY <2>1 DEF TypeOK, Handler
  <2>. QED
    BY <1>10, <2>1, <2>2, PressKeepsAssignee DEF DemoCreate
<1>11. ASSUME NEW c \in Clicks, DemoSent(c) PROVE AssigneeInv'
  <2>. DEFINE n == click[c].note
  <2>1. n \in NoteId /\ note[n].kind = "demo" /\ note[n].user = click[c].user
    BY <1>11 DEF DemoSent, RowsInv, DemoOwns
  <2>2. ~moved => note[n].user = assignment.user
    BY <1>11, <2>1 DEF DemoSent, AssigneeInv, SameAssignee
  <2>3. \A d \in Clicks : click'[d] = click[d] \/ click'[d].pc = "idle"
    BY <1>11 DEF DemoSent, TypeOK, Idle
  <2>. QED
    BY <1>11, <2>1, <2>2, <2>3, VerdictKeepsAssignee DEF DemoSent, MarkSent
<1>12. ASSUME NEW c \in Clicks, DemoFails(c) PROVE AssigneeInv'
  BY <1>12, DemoFailsKeepsAssignee
<1>13. ASSUME NEW n \in NoteId, MarkManualForwardSent(n) \/ MarkManualForwardFailed(n)
       PROVE  AssigneeInv'
  <2>1. note[n].kind # "none" /\ Pending(n)
    BY <1>13 DEF MarkManualForwardSent, MarkManualForwardFailed, RowsInv, SenderKnows
  <2>2. ~moved => note[n].user = assignment.user
    BY <2>1 DEF AssigneeInv, SameAssignee
  <2>. QED
    BY <1>13, <2>1, <2>2, VerdictKeepsAssignee
       DEF MarkManualForwardSent, MarkManualForwardFailed, MarkSent
<1>14. ASSUME NEW n \in NoteId, SendGmail(n) \/ SendFails(n) \/ MarkFailedFails(n)
       PROVE  AssigneeInv'
  BY <1>14, PressesKeepAssignee DEF SendGmail, SendFails, MarkFailedFails
<1>15. CASE Restart
  <2>1. /\ \A c \in Clicks : click'[c].pc = "idle"
        /\ \A s \in Sweepers : sweep'[s].pc = "idle"
    BY <1>15 DEF Restart, Idle
  <2>. QED
    BY <1>15, <2>1, AssigneeStays DEF Restart, Pending
<1>16. CASE UNCHANGED vars
  BY <1>16, PressesKeepAssignee DEF vars
<1>. QED
  BY <1>1, <1>2, <1>3, <1>4, <1>5, <1>6, <1>7, <1>8, <1>9, <1>10, <1>11, <1>12, <1>13, <1>14,
     <1>15, <1>16 DEF Next, ClickStep, SenderStep

-----------------------------------------------------------------------------
LEMMA ForwardInvInitially == Init => ForwardInv
<1>. SUFFICES ASSUME Init PROVE ForwardInv
  OBVIOUS
<1>1. /\ \A n \in NoteId : note[n] = Unused /\ sender[n] = "none" /\ delivered[n] = 0
      /\ \A c \in Clicks : click[c] = Idle
      /\ \A s \in Sweepers : sweep[s] = Idle
      /\ decided = NoUser /\ assignment.status = "none"
  BY DEF Init
<1>2. Unused.kind = "none" /\ Unused.status = "none" /\ Idle.pc = "idle"
  BY DEF Unused, Idle
<1>3. RowsInv
  <2>1. Prefix /\ AutoIsSent
    BY <1>1, <1>2 DEF Prefix, AutoIsSent, Created
  <2>2. SenderKnows
    BY <1>1 DEF SenderKnows
  <2>3. DemoOwns
    BY <1>1, <1>2 DEF DemoOwns
  <2>4. SentOnce
    BY <1>1, <1>2 DEF SentOnce
  <2>. QED
    BY <2>1, <2>2, <2>3, <2>4 DEF RowsInv
<1>4. PendingHasSender
  BY <1>1, <1>2 DEF PendingHasSender, Pending
<1>5. RaceInv
  BY <1>1, <1>2 DEF RaceInv, Checked, AutoBetween, Pending
<1>6. AssigneeInv
  <2>1. SameAssignee
    BY <1>1, <1>2 DEF SameAssignee, Pending
  <2>. QED
    BY <1>1, <2>1 DEF AssigneeInv, ForwardedToAssignee
<1>. QED
  BY <1>3, <1>4, <1>5, <1>6, TypesInitially DEF ForwardInv, RowsInv, RaceInv, AssigneeInv

LEMMA ForwardInvKept == ForwardInv /\ [Next]_vars => ForwardInv'
<1>1. ForwardInv <=> TypeOK /\ RowsInv /\ PendingHasSender /\ RaceInv /\ AssigneeInv
  BY DEF ForwardInv, RowsInv, RaceInv, AssigneeInv
<1>2. ForwardInv' <=> TypeOK' /\ RowsInv' /\ PendingHasSender' /\ RaceInv' /\ AssigneeInv'
  BY DEF ForwardInv, RowsInv, RaceInv, AssigneeInv
<1>3. RowsInv => DemoOwns
  BY DEF RowsInv
<1>. QED
  BY <1>1, <1>2, <1>3, TypesKept, RowsKept, OwnedKept, RaceKept, AssigneeKept

LEMMA ForwardInvHolds == Spec => []ForwardInv
  BY ForwardInvInitially, ForwardInvKept, PTL DEF Spec

-----------------------------------------------------------------------------
(* The assignment, its notifications and all that handles them stay well   *)
(* typed.                                                                  *)
THEOREM ForwardTypesHold == Spec => []TypeOK
<1>1. ForwardInv => TypeOK
  BY DEF ForwardInv
<1>. QED
  BY <1>1, ForwardInvHolds, PTL

(* No mail goes out twice for one notification, and one that says sent was *)
(* sent (_manual_route_worker).                                            *)
THEOREM NotificationsTellTheTruth == Spec => []SentOnce
<1>1. ForwardInv => SentOnce
  BY DEF ForwardInv
<1>. QED
  BY <1>1, ForwardInvHolds, PTL

(* A notification stays pending only while somebody is to settle it, or is *)
(* known to be lost.                                                       *)
THEOREM PendingIsOwned == Spec => []PendingHasSender
<1>1. ForwardInv => PendingHasSender
  BY DEF ForwardInv
<1>. QED
  BY <1>1, ForwardInvHolds, PTL

(* Without presses that pass the check together, two pending notifications *)
(* have an automatic forward between them.                                 *)
THEOREM PendingIsAlone == Spec => []OnePending
<1>1. ForwardInv => OnePending
  <2>. SUFFICES ASSUME ForwardInv, ~raced, NEW n \in NoteId, NEW k \in NoteId,
                       Pending(n), Pending(k), n < k
                PROVE  \E i \in n + 1 .. k - 1 : note[i].kind = "auto"
    BY DEF OnePending
  <2>1. Created(k)
    BY DEF Pending, Created, Unused
  <2>2. PICK i \in NoteId : n < i /\ i <= k /\ note[i].kind = "auto"
    BY <2>1 DEF ForwardInv, AutoBetween
  <2>3. i # k
    BY <2>2 DEF ForwardInv, AutoIsSent, Pending
  <2>. QED
    BY <2>2, <2>3 DEF NoteId
<1>. QED
  BY <1>1, ForwardInvHolds, PTL

(* The assignment is forwarded only if its assignee was sent the mail,     *)
(* whoever of the button, the demo, the decision and the lists did it.     *)
THEOREM AssigneeIsForwarded == Spec => []ForwardedToAssignee
<1>1. ForwardInv => ForwardedToAssignee
  BY DEF ForwardInv
<1>. QED
  BY <1>1, ForwardInvHolds, PTL

-----------------------------------------------------------------------------
(* MailConsole                                                             *)

(* Columns a row of the list may have while ManualForward runs.            *)
Row(m) ==
  /\ m.routing \in {"", "review_required", "assigned", "forwarded"}
  /\ m.manual \in {"", "pending", "sent", "failed"}
  /\ m.run \in {"", "running", "auto_assigned", "review_required", "completed", "failed"}
  /\ m.execution \in Executions

(* Somebody was sent the mail, by the row.                                 *)
Delivered(m) == m.routing = "forwarded" \/ m.forwardedAt \/ m.manual = "sent"

LEMMA ShownForwarded ==
  ASSUME NEW m, Row(m), IsForwarded(m)
  PROVE  Delivered(m)
<1>1. m.execution # "forwarded"
  BY ExecutionsAssumption DEF Row
<1>2. WorkStatus(m) = "forwarded" => m.routing = "forwarded" \/ m.manual = "sent"
  BY <1>1 DEF WorkStatus, AnalysisStatus
<1>3. ManualRoute(m) = "sent" => m.routing = "forwarded" \/ m.manual = "sent"
  BY DEF ManualRoute
<1>. QED
  BY <1>2, <1>3 DEF IsForwarded, Delivered

LEMMA ShownConfirm ==
  ASSUME NEW m, Row(m), CanConfirm(m)
  PROVE  CanAssign(m) /\ m.run = "review_required"
<1>1. m.run = "review_required" /\ ~IsSettled(m)
  BY DEF CanConfirm, DecisionStage, Row
<1>2. m.routing \notin {"assigned", "forwarded", "completed"}
  BY <1>1 DEF IsSettled, IsForwarded
<1>. QED
  BY <1>1, <1>2 DEF CanAssign, PanelStatus

LEMMA ReviewShown ==
  ASSUME NEW m, Row(m), m.routing = "review_required", m.run = "review_required"
  PROVE  CanAssign(m) /\ (~Delivered(m) => CanConfirm(m))
<1>1. CanAssign(m)
  BY DEF CanAssign, PanelStatus
<1>2. ASSUME ~Delivered(m) PROVE CanConfirm(m)
  <2>1. ~IsForwarded(m)
    BY <1>2, ShownForwarded
  <2>2. ~HasConfirmedAssignee(m)
    BY DEF HasConfirmedAssignee
  <2>3. RoutingStage(m) = "review_required"
    BY <2>2 DEF RoutingStage
  <2>4. DecisionStage(m) = "review_required"
    BY <2>1, <2>2 DEF DecisionStage, IsSettled
  <2>. QED
    BY <2>3, <2>4 DEF CanConfirm
<1>. QED
  BY <1>1, <1>2

(* What a row shown as done has.                                           *)
LEMMA ShownComplete ==
  ASSUME NEW m, Row(m), NEW files \in Attached,
         PipelineStatus(m, files) = "completed" \/ RowReady(m, files)
  PROVE  /\ m.assigned /\ Delivered(m)
         /\ m.run \in {"auto_assigned", "review_required", "completed"}
         /\ \A a \in files : a.status = "completed" /\ a.label # "unresolved"
<1>. DEFINE stages == Stages(m, files)
<1>1. /\ stages[1] = AttachmentStage(files) /\ stages[4] = DecisionStage(m)
      /\ stages[5] = RoutingStage(m) /\ stages[6] = ForwardingStage(m)
  BY DEF Stages
<1>2. /\ stages[1] \in Done /\ stages[4] \in Done /\ stages[5] \in Done
      /\ stages[6] = "completed"
  <2>1. CASE PipelineStatus(m, files) = "completed"
    BY <2>1 DEF PipelineStatus
  <2>2. CASE RowReady(m, files)
    BY <2>2 DEF RowReady, Done
  <2>. QED
    BY <2>1, <2>2
<1>. HIDE DEF stages
<1>3. m.assigned
  <2>1. RoutingStage(m) = "completed"
    BY <1>1, <1>2 DEF RoutingStage, Done
  <2>. QED
    BY <2>1 DEF RoutingStage, HasConfirmedAssignee
<1>4. Delivered(m)
  <2>1. ForwardingStage(m) = "completed"
    BY <1>1, <1>2
  <2>2. ManualRoute(m) = "sent" \/ IsForwarded(m)
    BY <2>1 DEF ForwardingStage
  <2>. QED
    BY <2>2, ShownForwarded DEF ManualRoute, Delivered
<1>5. m.run \in {"auto_assigned", "review_required", "completed"}
  BY <1>1, <1>2 DEF DecisionStage, Done, Row
<1>6. AttachmentStage(files) \in {"completed", "skipped"}
  BY <1>1, <1>2 DEF AttachmentStage, Done
<1>7. \A a \in files : a.status = "completed" /\ a.label # "unresolved"
  <2>. SUFFICES ASSUME NEW a \in files PROVE a.status = "completed" /\ a.label # "unresolved"
    OBVIOUS
  <2>1. a.status \in {"pending", "failed", "completed", "downloaded"}
    <3>1. CASE a = Understood
      BY <3>1 DEF Understood
    <3>2. CASE a # Understood
      <4>1. PICK o \in Other : files = {Understood, o}
        BY <3>2 DEF Attached
      <4>. QED
        BY <3>2, <4>1 DEF Other
    <3>. QED
      BY <3>1, <3>2
  <2>. DEFINE statuses == {b.status : b \in files}
  <2>2. a.status \in statuses
    OBVIOUS
  <2>. HIDE DEF statuses
  <2>3. AttachmentStage(files) # "skipped"
    BY DEF AttachmentStage
  <2>4. AttachmentStage(files) = "completed"
    BY <1>6, <2>3
  <2>5. /\ statuses \cap {"failed", "error"} = {} /\ statuses \cap {"pending", "queued"} = {}
        /\ statuses \cap {"", "unknown", "downloaded", "received"} = {}
        /\ \A b \in files : b.label # "unresolved"
    BY <2>4 DEF AttachmentStage, statuses
  <2>. QED
    BY <2>1, <2>2, <2>5
<1>. QED
  BY <1>3, <1>4, <1>5, <1>7

-----------------------------------------------------------------------------
(* There is a latest row as soon as there is one.                          *)
Latest(n) == Created(n) /\ \A i \in NoteId : Created(i) => i <= n
HasLatest == (\E n \in NoteId : Created(n)) => \E n \in NoteId : Latest(n)

LEMMA LatestStays ==
  ASSUME HasLatest, \A i \in NoteId : Created(i)' <=> Created(i)
  PROVE  HasLatest'
<1>1. \A n \in NoteId : Latest(n)' <=> Latest(n)
  BY DEF Latest
<1>. QED
  BY <1>1 DEF HasLatest

LEMMA LatestInserted ==
  ASSUME TypeOK, Prefix, HasLatest, NEW n \in NoteId, NEW kind \in {"manual", "demo", "auto"},
         NEW user, NEW status \in {"pending", "sent"}, Insert(n, kind, user, status)
  PROVE  HasLatest'
<1>1. /\ note'[n] # Unused
      /\ \A i \in NoteId \ {n} : note'[i] = note[i]
      /\ \A i \in NoteId : n < i => note[i] = Unused
  BY Inserted
<1>2. \A i \in NoteId : note'[i] # Unused => i <= n
  <2>. SUFFICES ASSUME NEW i \in NoteId, note'[i] # Unused PROVE i <= n
    OBVIOUS
  <2>1. ~(n < i)
    BY <1>1 DEF NoteId
  <2>. QED
    BY <2>1 DEF NoteId
<1>3. Unused' = Unused
  BY DEF Unused
<1>4. Latest(n)'
  BY <1>1, <1>2, <1>3 DEF Latest, Created
<1>. QED
  BY <1>4 DEF HasLatest

LEMMA LatestAfterVerdict ==
  ASSUME TypeOK, RowsInv, HasLatest, NEW n \in NoteId, note[n].kind # "none",
         NEW status \in {"sent", "failed"},
         note' = [note EXCEPT ![n] = [note[n] EXCEPT !.status = status]]
  PROVE  HasLatest'
  BY Judged, LatestStays DEF RowsInv

LEMMA LatestUnchanged ==
  ASSUME HasLatest, UNCHANGED note
  PROVE  HasLatest'
<1>1. \A i \in NoteId : Created(i)' <=> Created(i)
  BY DEF Created, Unused
<1>. QED
  BY <1>1, LatestStays

LEMMA LatestKept == TypeOK /\ RowsInv /\ HasLatest /\ [Next]_vars => HasLatest'
<1>. SUFFICES ASSUME TypeOK, RowsInv, HasLatest, [Next]_vars PROVE HasLatest'
  OBVIOUS
<1>1. CASE UNCHANGED note
  BY <1>1, LatestUnchanged
<1>2. ASSUME NEW user, MarkAutoForwarded(user) PROVE HasLatest'
  BY <1>2, LatestUnchanged, LatestInserted DEF MarkAutoForwarded, RowsInv
<1>3. ASSUME NEW c \in Clicks, CreateAndStart(c) \/ DemoCreate(c) PROVE HasLatest'
  BY <1>3, LatestInserted DEF CreateAndStart, DemoCreate, RowsInv
<1>4. ASSUME NEW c \in Clicks, DemoSent(c) PROVE HasLatest'
  <2>1. click[c].note \in NoteId /\ note[click[c].note].kind = "demo"
    BY <1>4 DEF DemoSent, RowsInv, DemoOwns
  <2>. QED
    BY <1>4, <2>1, LatestAfterVerdict DEF DemoSent, MarkSent
<1>5. ASSUME NEW n \in NoteId, MarkManualForwardSent(n) \/ MarkManualForwardFailed(n)
      PROVE  HasLatest'
  <2>1. note[n].kind # "none"
    BY <1>5 DEF MarkManualForwardSent, MarkManualForwardFailed, RowsInv, SenderKnows
  <2>. QED
    BY <1>5, <2>1, LatestAfterVerdict
       DEF MarkManualForwardSent, MarkManualForwardFailed, MarkSent
<1>6. CASE ~UNCHANGED note
  <2>1. CASE ForwardDecision \/ \E s \in Sweepers : SweepForward(s)
    BY <1>2, <2>1 DEF ForwardDecision, SweepForward
  <2>2. \/ ForwardDecision \/ \E s \in Sweepers : SweepForward(s)
        \/ \E c \in Clicks : CreateAndStart(c) \/ DemoCreate(c) \/ DemoSent(c)
        \/ \E n \in NoteId : MarkManualForwardSent(n) \/ MarkManualForwardFailed(n)
    BY <1>6
       DEF Next, ClickStep, SenderStep, StartRun, ChooseAuto, ApplyReview, EndRun, ApplyAuto,
           AssignByHand, SweepSelect, Press, CheckLatest, DemoFails, SendGmail, SendFails,
           MarkFailedFails, Restart, vars
  <2>. QED
    BY <1>3, <1>4, <1>5, <2>1, <2>2
<1>. QED
  BY <1>1, <1>6

LEMMA LatestHolds == Spec => []HasLatest
<1>1. Init => HasLatest
  BY DEF Init, HasLatest, Created
<1>2. ForwardInv => TypeOK /\ RowsInv
  BY DEF ForwardInv, RowsInv
<1>3. ForwardInv /\ HasLatest /\ [Next]_vars => HasLatest'
  BY <1>2, LatestKept
<1>. QED
  BY <1>1, <1>3, ForwardInvHolds, PTL DEF Spec

LEMMA LatestIsANote ==
  ASSUME TypeOK, HasLatest
  PROVE  LatestStatus = "none" \/ \E n \in NoteId : LatestStatus = note[n].status /\ Created(n)
<1>1. CASE \A n \in NoteId : ~Created(n)
  BY <1>1 DEF LatestStatus
<1>2. CASE ~\A n \in NoteId : ~Created(n)
  <2>. DEFINE last == CHOOSE n \in NoteId : Created(n) /\ \A i \in NoteId : Created(i) => i <= n
  <2>1. last \in NoteId /\ Created(last)
    BY <1>2 DEF HasLatest, Latest
  <2>2. LatestStatus = note[last].status
    BY <1>2 DEF LatestStatus
  <2>. QED
    BY <2>1, <2>2
<1>. QED
  BY <1>1, <1>2

LEMMA ColumnTypes ==
  ASSUME TypeOK, HasLatest
  PROVE  /\ Columns \in Held
         /\ Columns.run = "review_required" <=> run = "review_required"
         /\ Columns.run \in {"auto_assigned", "completed"} => run = Columns.run
         /\ Columns.manual = "sent" => Sent # {}
         /\ Columns.forwardedAt <=> Sent # {}
         /\ Columns.assigned <=> assignment.user # NoUser
         /\ Columns.routing = assignment.status \/ assignment.status = "none"
<1>. DEFINE routing == IF assignment.status = "none" THEN "" ELSE assignment.status
            manual == IF LatestStatus = "none" THEN "" ELSE LatestStatus
            ran == CASE run = "none" -> ""
                     [] run \in {"auto", "review"} -> "running"
                     [] run = "auto_failed" -> "failed"
                     [] OTHER -> run
<1>1. routing \in {"", "review_required", "assigned", "forwarded"}
  BY DEF TypeOK, Assignment
<1>2. /\ manual \in {"", "pending", "sent", "failed"}
      /\ manual = "sent" => Sent # {}
  <2>1. \A n \in NoteId : note[n].status \in {"none", "pending", "sent", "failed"}
    BY DEF TypeOK, Note
  <2>2. LatestStatus = "sent" => Sent # {}
    BY LatestIsANote DEF Sent
  <2>3. LatestStatus \in {"none", "pending", "sent", "failed"}
    BY <2>1, LatestIsANote
  <2>. QED
    BY <2>2, <2>3
<1>3. /\ ran \in {"", "running", "auto_assigned", "review_required", "completed", "failed"}
      /\ ran = "review_required" <=> run = "review_required"
      /\ ran \in {"auto_assigned", "completed"} => run = ran
  BY DEF TypeOK, RunPhase
<1>4. /\ Columns.routing = routing /\ Columns.manual = manual /\ Columns.run = ran
  BY DEF Columns
<1>5. Columns.forwardedAt <=> Sent # {}
  BY DEF Columns, Sent
<1>6. Columns.assigned <=> assignment.user # NoUser
  BY DEF Columns
<1>7. Columns \in Held
  BY <1>1, <1>2, <1>3 DEF Columns, Held
<1>. QED
  BY <1>1, <1>2, <1>3, <1>4, <1>5, <1>6, <1>7

(* Every page shows a message that agrees with those columns.              *)
LEMMA PagesAre ==
  ASSUME Columns \in Held, NEW page \in Pages
  PROVE  \E m, files :
           /\ page = Page(m, files) /\ files \in Attached /\ Row(m)
           /\ m.routing = Columns.routing /\ m.manual = Columns.manual /\ m.run = Columns.run
           /\ m.forwardedAt = Columns.forwardedAt /\ m.assigned = Columns.assigned
<1>1. Pages = {Page(Message(Columns, rest), rest.files) : rest \in Rest}
  BY DEF Pages, Shown
<1>2. PICK rest \in Rest : page = Page(Message(Columns, rest), rest.files)
  BY <1>1
<1>. DEFINE m == Message(Columns, rest)
<1>3. /\ m.routing = Columns.routing /\ m.manual = Columns.manual /\ m.run = Columns.run
      /\ m.forwardedAt = Columns.forwardedAt /\ m.assigned = Columns.assigned
      /\ m.execution = rest.execution
  BY DEF Message
<1>4. rest.files \in Attached /\ rest.execution \in Executions
  BY DEF Rest
<1>5. Row(m)
  <2>. HIDE DEF m
  <2>. QED
    BY <1>3, <1>4 DEF Held, Row
<1>. QED
  BY <1>2, <1>3, <1>4, <1>5

LEMMA PageSays ==
  ASSUME NEW m, NEW files
  PROVE  /\ Page(m, files).confirm <=> CanConfirm(m)
         /\ Page(m, files).assign <=> CanAssign(m)
         /\ Page(m, files).forwarded <=> IsForwarded(m)
         /\ Page(m, files).complete <=> PipelineStatus(m, files) = "completed" \/ RowReady(m, files)
         /\ Page(m, files).analysed <=>
              \A a \in files : a.status = "completed" /\ a.label # "unresolved"
  BY DEF Page

LEMMA RowSent ==
  ASSUME TypeOK, HasLatest, ForwardedToAssignee, NEW m,
         m.routing = Columns.routing, m.manual = Columns.manual,
         m.forwardedAt = Columns.forwardedAt, Delivered(m)
  PROVE  Sent # {}
<1>1. Columns.manual = "sent" => Sent # {}
  BY ColumnTypes
<1>2. Columns.forwardedAt <=> Sent # {}
  BY ColumnTypes
<1>3. Columns.routing = "forwarded" => Sent # {}
  BY DEF Columns, ForwardedToAssignee, Sent
<1>. QED
  BY <1>1, <1>2, <1>3 DEF Delivered

LEMMA ReviewIsOffered ==
  ASSUME TypeOK, HasLatest, ForwardedToAssignee
  PROVE  ReviewOffered
<1>. SUFFICES ASSUME NEW page \in Pages
              PROVE  /\ page.confirm => page.assign /\ run = "review_required"
                     /\ page.assign => AcceptsAssignment
                     /\ assignment.status = "review_required" /\ run = "review_required" =>
                          page.assign /\ (Sent = {} => page.confirm)
  BY DEF ReviewOffered
<1>1. PICK m, files :
        /\ page = Page(m, files) /\ files \in Attached /\ Row(m)
        /\ m.routing = Columns.routing /\ m.manual = Columns.manual /\ m.run = Columns.run
        /\ m.forwardedAt = Columns.forwardedAt /\ m.assigned = Columns.assigned
  BY ColumnTypes, PagesAre
<1>2. (page.confirm <=> CanConfirm(m)) /\ (page.assign <=> CanAssign(m))
  BY <1>1, PageSays
<1>3. Columns.run = "review_required" <=> run = "review_required"
  BY ColumnTypes
<1>4. page.confirm => page.assign /\ run = "review_required"
  BY <1>1, <1>2, <1>3, ShownConfirm
<1>5. page.assign => AcceptsAssignment
  <2>1. CanAssign(m) => m.run = "review_required"
    BY DEF CanAssign, PanelStatus
  <2>. QED
    BY <1>1, <1>2, <1>3, <2>1 DEF AcceptsAssignment
<1>6. ASSUME assignment.status = "review_required", run = "review_required"
      PROVE  page.assign /\ (Sent = {} => page.confirm)
  <2>1. m.routing = "review_required" /\ m.run = "review_required"
    BY <1>1, <1>3, <1>6 DEF Columns
  <2>2. Sent = {} => ~Delivered(m)
    BY <1>1, RowSent
  <2>. QED
    BY <1>1, <1>2, <2>1, <2>2, ReviewShown
<1>. QED
  BY <1>4, <1>5, <1>6

LEMMA DeliveryIsShown ==
  ASSUME TypeOK, HasLatest, ForwardedToAssignee
  PROVE  ShownDelivered
<1>. SUFFICES ASSUME NEW page \in Pages
              PROVE  /\ page.forwarded => Sent # {}
                     /\ page.complete =>
                          /\ assignment.user # NoUser /\ Sent # {} /\ page.analysed
                          /\ run \in {"auto_assigned", "review_required", "completed"}
                          /\ assignment.status = "forwarded" /\ ~moved =>
                               \E n \in Sent : note[n].user = assignment.user
  BY DEF ShownDelivered
<1>1. PICK m, files :
        /\ page = Page(m, files) /\ files \in Attached /\ Row(m)
        /\ m.routing = Columns.routing /\ m.manual = Columns.manual /\ m.run = Columns.run
        /\ m.forwardedAt = Columns.forwardedAt /\ m.assigned = Columns.assigned
  BY ColumnTypes, PagesAre
<1>2. /\ page.forwarded <=> IsForwarded(m)
      /\ page.complete <=> PipelineStatus(m, files) = "completed" \/ RowReady(m, files)
      /\ page.analysed <=> \A a \in files : a.status = "completed" /\ a.label # "unresolved"
  BY <1>1, PageSays
<1>3. page.forwarded => Sent # {}
  BY <1>1, <1>2, ShownForwarded, RowSent
<1>4. ASSUME page.complete
      PROVE  /\ assignment.user # NoUser /\ Sent # {} /\ page.analysed
             /\ run \in {"auto_assigned", "review_required", "completed"}
  <2>1. /\ m.assigned /\ Delivered(m)
        /\ m.run \in {"auto_assigned", "review_required", "completed"}
        /\ page.analysed
    BY <1>1, <1>2, <1>4, ShownComplete
  <2>2. Sent # {}
    BY <1>1, <2>1, RowSent
  <2>3. assignment.user # NoUser
    BY <1>1, <2>1, ColumnTypes
  <2>4. run \in {"auto_assigned", "review_required", "completed"}
    BY <1>1, <2>1, ColumnTypes
  <2>. QED
    BY <2>1, <2>2, <2>3, <2>4
<1>5. assignment.status = "forwarded" /\ ~moved => \E n \in Sent : note[n].user = assignment.user
  BY DEF ForwardedToAssignee, Sent
<1>. QED
  BY <1>3, <1>4, <1>5

(* The console and the panel offer to assign just the mails that wait for  *)
(* it, and nothing that assign_review_required_mail would refuse.          *)
THEOREM ReviewIsAlwaysOffered == Spec => []ReviewOffered
<1>1. ForwardInv /\ HasLatest => ReviewOffered
  BY ReviewIsOffered DEF ForwardInv
<1>. QED
  BY <1>1, ForwardInvHolds, LatestHolds, PTL

(* A mail that its pages show as forwarded, or as done, was sent.          *)
THEOREM ShownIsDelivered == Spec => []ShownDelivered
<1>1. ForwardInv /\ HasLatest => ShownDelivered
  BY DeliveryIsShown DEF ForwardInv
<1>. QED
  BY <1>1, ForwardInvHolds, LatestHolds, PTL

-----------------------------------------------------------------------------
(* AssigneeAdmin                                                           *)

(* Whoever is active is not deleted, so the page lists him.                *)
ActiveIsThere == \A o \in Operators : operator[o].status = "active" => ~operator[o].deleted

AdminInv == AdminTypeOK /\ ActiveIsThere /\ OrderHolds

-----------------------------------------------------------------------------
LEMMA PriorityTypes ==
  ASSUME NEW c
  PROVE  /\ ReplaceCategory(c) \in [Categories -> Nat]
         /\ \A d \in Categories : ReplaceCategory(c)[d] > 0 <=> d = c
  BY DEF ReplaceCategory, DefaultPriority

LEMMA RowFields ==
  ASSUME AdminTypeOK, NEW o \in Operators
  PROVE  /\ operator[o] \in OperatorRow
         /\ operator[o].status \in {"none", "active", "inactive"}
         /\ operator[o].deleted \in BOOLEAN /\ operator[o].synthetic \in BOOLEAN
         /\ operator[o].priority \in [Categories -> Nat]
  BY DEF AdminTypeOK, OperatorRow

(* A click changes one row, and takes the operator out of every order if   *)
(* it changes a priority of his.                                           *)
Clicked(o, row) ==
  /\ row \in OperatorRow
  /\ operator' = [operator EXCEPT ![o] = row]
  /\ row.status = "active" => ~row.deleted
  /\ \/ row.priority = operator[o].priority /\ placed' = placed
     \/ placed' = Unplaced(o)

LEMMA ClickKeeps ==
  ASSUME AdminInv, NEW o \in Operators, NEW row, Clicked(o, row)
  PROVE  AdminInv'
<1>1. operator'[o] = row /\ \A q \in Operators \ {o} : operator'[q] = operator[q]
  BY DEF Clicked, AdminInv, AdminTypeOK
<1>2. /\ placed' \in [Categories -> SUBSET (Operators \X Operators)]
      /\ \A c \in Categories : placed'[c] \subseteq placed[c]
  BY DEF Clicked, AdminInv, AdminTypeOK, Unplaced
<1>3. AdminTypeOK'
  BY <1>2 DEF Clicked, AdminInv, AdminTypeOK, OperatorRow
<1>4. ActiveIsThere'
  BY <1>1 DEF Clicked, AdminInv, ActiveIsThere
<1>5. ASSUME NEW c \in Categories, NEW p \in placed'[c]
      PROVE  /\ operator'[p[1]].priority[c] > 0 /\ operator'[p[2]].priority[c] > 0
             /\ operator'[p[1]].priority[c] < operator'[p[2]].priority[c]
  <2>1. p \in placed[c] /\ p[1] \in Operators /\ p[2] \in Operators
    BY <1>2, <1>5
  <2>2. /\ operator[p[1]].priority[c] > 0 /\ operator[p[2]].priority[c] > 0
        /\ operator[p[1]].priority[c] < operator[p[2]].priority[c]
    BY <2>1 DEF AdminInv, OrderHolds, Has, Precedes
  <2>3. CASE row.priority = operator[o].priority
    BY <1>1, <2>1, <2>2, <2>3
  <2>4. CASE placed' = Unplaced(o)
    <3>1. p[1] # o /\ p[2] # o
      BY <1>5, <2>4 DEF Unplaced
    <3>. QED
      BY <1>1, <2>1, <2>2, <3>1
  <2>. QED
    BY <2>3, <2>4 DEF Clicked
<1>6. OrderHolds'
  BY <1>5 DEF OrderHolds, Has, Precedes
<1>. QED
  BY <1>3, <1>4, <1>6 DEF AdminInv

-----------------------------------------------------------------------------
LEMMA CreateKeeps ==
  ASSUME AdminInv, NEW o \in Operators, NEW c \in Categories, NEW b \in BOOLEAN, Create(o, c, b)
  PROVE  AdminInv'
<1>. DEFINE row == [status |-> "active", deleted |-> FALSE, synthetic |-> b,
                    priority |-> ReplaceCategory(c)]
<1>1. row \in OperatorRow
  BY PriorityTypes DEF OperatorRow
<1>2. Clicked(o, row)
  BY <1>1 DEF Clicked, Create, Write
<1>. QED
  BY <1>2, ClickKeeps

LEMMA UpdateKeeps ==
  ASSUME AdminInv, NEW o \in Operators, NEW c \in Categories \cup {NoCategory}, NEW b \in BOOLEAN,
         Update(o, c, b)
  PROVE  AdminInv'
<1>0. operator[o] \in OperatorRow /\ operator[o].priority \in [Categories -> Nat]
  BY RowFields DEF AdminInv
<1>1. operator[o].status = "active" => ~operator[o].deleted
  BY DEF AdminInv, ActiveIsThere
<1>2. CASE c = NoCategory
  <2>. DEFINE row == [operator[o] EXCEPT !.synthetic = b]
  <2>1. /\ row \in OperatorRow /\ row.priority = operator[o].priority
        /\ row.status = operator[o].status /\ row.deleted = operator[o].deleted
    BY <1>0 DEF OperatorRow
  <2>2. operator' = [operator EXCEPT ![o] = row] /\ placed' = placed
    BY <1>2 DEF Update, Write
  <2>3. Clicked(o, row)
    BY <1>1, <2>1, <2>2 DEF Clicked
  <2>. QED
    BY <2>3, ClickKeeps
<1>3. CASE c # NoCategory
  <2>. DEFINE row == [operator[o] EXCEPT !.synthetic = b, !.priority = ReplaceCategory(c)]
  <2>1. /\ row \in OperatorRow
        /\ row.status = operator[o].status /\ row.deleted = operator[o].deleted
    BY <1>0, PriorityTypes DEF OperatorRow
  <2>2. operator' = [operator EXCEPT ![o] = row] /\ placed' = Unplaced(o)
    BY <1>3 DEF Update, Write
  <2>3. Clicked(o, row)
    BY <1>1, <2>1, <2>2 DEF Clicked
  <2>. QED
    BY <2>3, ClickKeeps
<1>. QED
  BY <1>2, <1>3

LEMMA StatusKeeps ==
  ASSUME AdminInv, NEW o \in Operators, NEW status \in {"active", "inactive"}, Editable(o),
         Write(o, [operator[o] EXCEPT !.status = status]), UNCHANGED placed
  PROVE  AdminInv'
<1>. DEFINE row == [operator[o] EXCEPT !.status = status]
<1>0. operator[o] \in OperatorRow
  BY RowFields DEF AdminInv
<1>1. row \in OperatorRow /\ row.priority = operator[o].priority /\ row.deleted = operator[o].deleted
  BY <1>0 DEF OperatorRow
<1>2. Clicked(o, row)
  BY <1>1 DEF Clicked, Write, Editable
<1>. QED
  BY <1>2, ClickKeeps

LEMMA DeleteKeeps ==
  ASSUME AdminInv, NEW o \in Operators, Delete(o)
  PROVE  AdminInv'
<1>. DEFINE row == [operator[o] EXCEPT !.status = "inactive", !.deleted = TRUE]
<1>0. operator[o] \in OperatorRow
  BY RowFields DEF AdminInv
<1>1. row \in OperatorRow /\ row.priority = operator[o].priority /\ row.status = "inactive"
  BY <1>0 DEF OperatorRow
<1>2. Clicked(o, row)
  BY <1>1 DEF Clicked, Write, Delete
<1>. QED
  BY <1>2, ClickKeeps

-----------------------------------------------------------------------------
(* An order gives each operator dropped a place of his own, from 1 on.     *)
LEMMA PlacesArePositive ==
  ASSUME NEW place \in Orders, NEW o \in DOMAIN place
  PROVE  place[o] \in Nat /\ place[o] > 0
<1>1. PICK S \in SUBSET Operators : place \in [S -> 1 .. Cardinality(S)]
  BY DEF Orders
<1>2. IsFiniteSet(S) /\ Cardinality(S) \in Nat
  BY <1>1, OperatorsAssumption, FS_Subset, FS_CardinalityType
<1>. QED
  BY <1>1, <1>2

LEMMA RenumberedRow ==
  ASSUME AdminTypeOK, NEW c \in Categories, NEW place \in Orders, NEW o \in Operators
  PROVE  /\ [operator[o] EXCEPT !.priority = Renumbered(o, c, place)] \in OperatorRow
         /\ [operator[o] EXCEPT !.priority = Renumbered(o, c, place)].status = operator[o].status
         /\ [operator[o] EXCEPT !.priority = Renumbered(o, c, place)].deleted = operator[o].deleted
         /\ [operator[o] EXCEPT !.priority = Renumbered(o, c, place)].priority
              = Renumbered(o, c, place)
<1>1. Renumbered(o, c, place) \in [Categories -> Nat]
  BY RowFields, PlacesArePositive DEF Renumbered, Moved
<1>. QED
  BY <1>1, RowFields DEF OperatorRow

LEMMA ReorderKeeps ==
  ASSUME AdminInv, NEW c \in Categories, NEW place \in Orders, Reorder(c, place)
  PROVE  AdminInv'
<1>0. AdminTypeOK
  BY DEF AdminInv
<1>1. operator' = [o \in Operators |-> [operator[o] EXCEPT !.priority = Renumbered(o, c, place)]]
  BY DEF Reorder
<1>2. /\ operator' \in [Operators -> OperatorRow]
      /\ \A o \in Operators : /\ operator'[o].status = operator[o].status
                              /\ operator'[o].deleted = operator[o].deleted
                              /\ operator'[o].priority = Renumbered(o, c, place)
  BY <1>0, <1>1, RenumberedRow
<1>3. \A o \in Operators, d \in Categories :
        operator'[o].priority[d] = IF d = c /\ Moved(o, c, place) THEN place[o]
                                   ELSE operator[o].priority[d]
  BY <1>2 DEF Renumbered
<1>4. /\ placed' \in [Categories -> SUBSET (Operators \X Operators)]
      /\ \A d \in Categories \ {c} : placed'[d] = placed[d]
      /\ \A p \in placed'[c] :
           \/ Moved(p[1], c, place) /\ Moved(p[2], c, place) /\ place[p[1]] < place[p[2]]
           \/ p \in placed[c] /\ ~Moved(p[1], c, place) /\ ~Moved(p[2], c, place)
  BY <1>0 DEF Reorder, AdminTypeOK
<1>5. AdminTypeOK'
  BY <1>2, <1>4 DEF AdminTypeOK
<1>6. ActiveIsThere'
  BY <1>2 DEF AdminInv, ActiveIsThere
<1>7. ASSUME NEW d \in Categories, NEW p \in placed'[d]
      PROVE  /\ operator'[p[1]].priority[d] > 0 /\ operator'[p[2]].priority[d] > 0
             /\ operator'[p[1]].priority[d] < operator'[p[2]].priority[d]
  <2>0. p[1] \in Operators /\ p[2] \in Operators
    BY <1>4, <1>7
  <2>1. ASSUME p \in placed[d]
        PROVE  /\ operator[p[1]].priority[d] > 0 /\ operator[p[2]].priority[d] > 0
               /\ operator[p[1]].priority[d] < operator[p[2]].priority[d]
    BY <2>1 DEF AdminInv, OrderHolds, Has, Precedes
  <2>2. CASE d # c
    BY <1>3, <1>4, <1>7, <2>0, <2>1, <2>2
  <2>3. CASE d = c /\ p \in placed[c] /\ ~Moved(p[1], c, place) /\ ~Moved(p[2], c, place)
    BY <1>3, <2>0, <2>1, <2>3
  <2>4. CASE d = c /\ Moved(p[1], c, place) /\ Moved(p[2], c, place) /\ place[p[1]] < place[p[2]]
    <3>1. place[p[1]] > 0 /\ place[p[2]] > 0
      BY <2>4, PlacesArePositive DEF Moved
    <3>. QED
      BY <1>3, <2>0, <2>4, <3>1
  <2>. QED
    BY <1>4, <1>7, <2>2, <2>3, <2>4
<1>8. OrderHolds'
  BY <1>7 DEF OrderHolds, Has, Precedes
<1>. QED
  BY <1>5, <1>6, <1>8 DEF AdminInv

-----------------------------------------------------------------------------
LEMMA AdminInvInitially == AdminInit => AdminInv
<1>. SUFFICES ASSUME AdminInit PROVE AdminInv
  OBVIOUS
<1>1. NoOperator \in OperatorRow /\ ~NoOperator.deleted
  BY DEF NoOperator, OperatorRow
<1>2. \A b \in BOOLEAN, S \in SUBSET Categories :
        Seeded(b, S) \in OperatorRow /\ ~Seeded(b, S).deleted
  BY DEF Seeded, OperatorRow, DefaultPriority
<1>3. operator \in [Operators ->
         {NoOperator} \cup {Seeded(b, S) : b \in BOOLEAN, S \in SUBSET Categories}]
  BY DEF AdminInit
<1>4. \A o \in Operators : operator[o] \in OperatorRow /\ ~operator[o].deleted
  <2>. TAKE o \in Operators
  <2>1. \/ operator[o] = NoOperator
        \/ \E b \in BOOLEAN, S \in SUBSET Categories : operator[o] = Seeded(b, S)
    BY <1>3
  <2>. QED
    BY <1>1, <1>2, <2>1
<1>5. operator \in [Operators -> OperatorRow]
  BY <1>3, <1>4
<1>6. placed = [c \in Categories |-> {}]
  BY DEF AdminInit
<1>7. AdminTypeOK
  BY <1>5, <1>6 DEF AdminTypeOK
<1>8. ActiveIsThere
  BY <1>4 DEF ActiveIsThere
<1>9. OrderHolds
  BY <1>6 DEF OrderHolds
<1>. QED
  BY <1>7, <1>8, <1>9 DEF AdminInv

LEMMA AdminInvKept == AdminInv /\ [AdminNext]_adminVars => AdminInv'
<1>. SUFFICES ASSUME AdminInv, [AdminNext]_adminVars PROVE AdminInv'
  OBVIOUS
<1>1. ASSUME NEW o \in Operators, NEW c \in Categories, NEW b \in BOOLEAN, Create(o, c, b)
      PROVE  AdminInv'
  BY <1>1, CreateKeeps
<1>2. ASSUME NEW o \in Operators, NEW c \in Categories \cup {NoCategory}, NEW b \in BOOLEAN,
             Update(o, c, b)
      PROVE  AdminInv'
  BY <1>2, UpdateKeeps
<1>3. ASSUME NEW o \in Operators, ToggleActive(o) PROVE AdminInv'
  <2>. DEFINE status == IF operator[o].status = "active" THEN "inactive" ELSE "active"
  <2>1. Write(o, [operator[o] EXCEPT !.status = status])
    BY <1>3 DEF ToggleActive
  <2>2. status \in {"active", "inactive"}
    OBVIOUS
  <2>. QED
    BY <1>3, <2>1, <2>2, StatusKeeps DEF ToggleActive
<1>4. ASSUME NEW o \in Operators, Deactivate(o) PROVE AdminInv'
  BY <1>4, StatusKeeps DEF Deactivate
<1>5. ASSUME NEW o \in Operators, Delete(o) PROVE AdminInv'
  BY <1>5, DeleteKeeps
<1>6. ASSUME NEW c \in Categories, NEW place \in Orders, Reorder(c, place) PROVE AdminInv'
  BY <1>6, ReorderKeeps
<1>7. CASE UNCHANGED adminVars
  <2>1. operator' = operator /\ placed' = placed
    BY <1>7 DEF adminVars
  <2>2. AdminTypeOK' /\ ActiveIsThere'
    BY <2>1 DEF AdminInv, AdminTypeOK, ActiveIsThere
  <2>3. OrderHolds'
    BY <2>1 DEF AdminInv, OrderHolds, Has, Precedes
  <2>. QED
    BY <2>2, <2>3 DEF AdminInv
<1>. QED
  BY <1>1, <1>2, <1>3, <1>4, <1>5, <1>6, <1>7 DEF AdminNext

LEMMA AdminInvHolds == AdminSpec => []AdminInv
  BY AdminInvInitially, AdminInvKept, PTL DEF AdminSpec

-----------------------------------------------------------------------------
(* Rows and orders stay well typed.                                        *)
THEOREM AdminTypesHold == AdminSpec => []AdminTypeOK
<1>1. AdminInv => AdminTypeOK
  BY DEF AdminInv
<1>. QED
  BY <1>1, AdminInvHolds, PTL

(* Whom the search for rules and capabilities finds, the page shows,       *)
(* however old the page is that a click comes from.                        *)
THEOREM WhoIsFoundIsListed == AdminSpec => []FoundAreListed
<1>1. AdminInv => FoundAreListed
  <2>. SUFFICES ASSUME AdminInv, NEW o \in Operators, operator[o].status = "active"
                PROVE  Listed(o)
    BY DEF FoundAreListed, FoundBySearch
  <2>1. ~operator[o].deleted
    BY DEF AdminInv, ActiveIsThere
  <2>. QED
    BY <2>1 DEF Listed, ListedOperating, ListedSynthetic, Editable, Exists
<1>. QED
  BY <1>1, AdminInvHolds, PTL

(* The last order of a category stands, whatever else is edited            *)
(* (reorder_category_assignees, _replace_category).                        *)
THEOREM LastOrderStands == AdminSpec => []OrderHolds
<1>1. AdminInv => OrderHolds
  BY DEF AdminInv
<1>. QED
  BY <1>1, AdminInvHolds, PTL

(* Nobody edits, reorders or removes an operator of the evaluation data,   *)
(* and a deleted one is never active again.                                *)
THEOREM SyntheticUntouched ==
  AdminSpec => [][\A o \in Operators :
                    /\ Exists(o) /\ operator[o].synthetic => operator'[o] = operator[o]
                    /\ Exists(o) /\ operator[o].deleted => operator'[o].deleted]_adminVars
<1>. DEFINE Untouched ==
       \A o \in Operators :
         /\ Exists(o) /\ operator[o].synthetic => operator'[o] = operator[o]
         /\ Exists(o) /\ operator[o].deleted => operator'[o].deleted
<1>1. ASSUME AdminInv, AdminNext PROVE Untouched
  <2>0. AdminTypeOK
    BY <1>1 DEF AdminInv
  <2>1. ASSUME NEW o \in Operators, NEW row, Write(o, row),
               Exists(o) => ~operator[o].synthetic /\ (operator[o].deleted => row.deleted)
        PROVE  Untouched
    BY <2>0, <2>1 DEF Write, AdminTypeOK
  <2>2. ASSUME NEW o \in Operators, NEW c \in Categories, NEW b \in BOOLEAN, Create(o, c, b)
        PROVE  Untouched
    BY <2>1, <2>2 DEF Create
  <2>3. ASSUME NEW o \in Operators, NEW c \in Categories \cup {NoCategory}, NEW b \in BOOLEAN,
               Update(o, c, b)
        PROVE  Untouched
    BY <2>1, <2>3 DEF Update, Editable
  <2>4. ASSUME NEW o \in Operators, ToggleActive(o) \/ Deactivate(o) PROVE Untouched
    BY <2>1, <2>4 DEF ToggleActive, Deactivate, Editable
  <2>5. ASSUME NEW o \in Operators, Delete(o) PROVE Untouched
    <3>1. [operator[o] EXCEPT !.status = "inactive", !.deleted = TRUE].deleted
      BY <2>0, RowFields DEF OperatorRow
    <3>. QED
      BY <2>1, <2>5, <3>1 DEF Delete
  <2>6. ASSUME NEW c \in Categories, NEW place \in Orders, Reorder(c, place) PROVE Untouched
    <3>1. ASSUME NEW o \in Operators
          PROVE  /\ operator[o].synthetic => operator'[o] = operator[o]
                 /\ operator'[o].deleted = operator[o].deleted
      <4>1. operator'[o] = [operator[o] EXCEPT !.priority = Renumbered(o, c, place)]
        BY <2>6 DEF Reorder
      <4>2. operator[o].synthetic => Renumbered(o, c, place) = operator[o].priority
        BY <2>0, RowFields DEF Renumbered, Moved, Editable
      <4>. QED
        BY <2>0, <4>1, <4>2, RowFields, RenumberedRow DEF OperatorRow
    <3>. QED
      BY <3>1
  <2>. QED
    BY <1>1, <2>2, <2>3, <2>4, <2>5, <2>6 DEF AdminNext
<1>2. AdminInv /\ [AdminNext]_adminVars => [Untouched]_adminVars
  BY <1>1
<1>. QED
  BY <1>2, AdminInvHolds, PTL DEF AdminSpec
=============================================================================
