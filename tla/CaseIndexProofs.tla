-------------------------- MODULE CaseIndexProofs --------------------------
(***************************************************************************)
(* Proofs about WorkTracking and CaseIndex, and about the two together.    *)
(*                                                                         *)
(* A step of WorkTracking leaves an item as it is, starts it afresh, or is *)
(* an operator's work on it (WorkStep below); what each property asks of   *)
(* one item is kept by each of the three.  Of a writer's list of steps in  *)
(* CaseIndex only the next one matters (Step below): the work item and the *)
(* point of a mail are those of its assignment, or somebody at work on the *)
(* mail has yet to write them.                                             *)
(***************************************************************************)
EXTENDS CaseIndex, TLAPS

-----------------------------------------------------------------------------
(* Work items.                                                             *)

(* What StatusMatchesTimes and ProgressOnRecord ask of one item.           *)
RowConsistent(r) ==
  /\ r.completed <=> r.status = "completed"
  /\ r.status \in {"acknowledged", "in_progress", "responded"} => r.acknowledged
  /\ r.status = "assigned" => ~r.acknowledged /\ ~r.replyInitiated

Noted(m, r, E, types) == \E t \in types : Event(t, m, r.assignee) \in E

RowOnRecord(m, r, E) ==
  /\ r.acknowledged => Noted(m, r, E, EventTypes \ {"completed"})
  /\ r.replyInitiated => Noted(m, r, E, {"reply_initiated"})
  /\ r.completed => Noted(m, r, E, {"completed"})
  /\ r.status = "in_progress" => Noted(m, r, E, {"in_progress_on", "reply_initiated"})

(* What a work step of the item's assignee makes of it.                    *)
WorkStep(m, type, row) ==
  /\ Has(m) /\ type \in EventTypes
  /\ row \in Item /\ row.assignee = item[m].assignee
  /\ Record(type, m, row.assignee, row)
  /\ sent' \in {sent, Overtaken(m)}
  /\ RowConsistent(item[m]) => RowConsistent(row)
  /\ RowOnRecord(m, item[m], events)
       => RowOnRecord(m, row, events \cup {Event(type, m, row.assignee)})
  /\ item[m].status = "completed" => row.status = "completed"

LEMMA OvertakenTyped ==
  ASSUME TypeOK, NEW m \in Mails
  PROVE  Overtaken(m) \in [Mails -> SentMail]
  BY DEF TypeOK, Overtaken, SentMail

LEMMA NoItemIsNotAnItem == NoItem \notin Item
  BY DEF NoItem, Item, Statuses

LEMMA NewItemTyped ==
  ASSUME NEW u \in Users
  PROVE  NewItem(u) \in Item
  BY DEF NewItem, Item, Statuses

(* A larger record of events justifies no less.                            *)
LEMMA RecordGrows ==
  ASSUME NEW m, NEW r, NEW E, NEW F, E \subseteq F, RowOnRecord(m, r, E)
  PROVE  RowOnRecord(m, r, F)
  BY DEF RowOnRecord, Noted

(* Opening the page.                                                       *)
LEMMA AcknowledgeWorks ==
  ASSUME TypeOK, NEW m \in Mails, NEW u \in Users, AcknowledgeIfAssignee(m, u)
  PROVE  \E type \in EventTypes, row \in Item : WorkStep(m, type, row)
<1>. DEFINE r == item[m]
            row == [item[m] EXCEPT !.status = IF @ = "assigned" THEN "acknowledged" ELSE @,
                                   !.acknowledged = TRUE]
<1>1. Has(m) /\ r \in Item /\ r.assignee = u
  BY DEF TypeOK, AcknowledgeIfAssignee, AssigneeWork, Has
<1>2. /\ row \in Item /\ row.assignee = r.assignee
      /\ row.acknowledged /\ row.replyInitiated = r.replyInitiated
      /\ row.completed = r.completed
      /\ row.status = IF r.status = "assigned" THEN "acknowledged" ELSE r.status
  BY <1>1 DEF Item, Statuses
<1>3. Record("acknowledged", m, u, row) /\ sent' \in {sent, Overtaken(m)}
  BY DEF AcknowledgeIfAssignee
<1>. HIDE DEF row
<1>4. RowConsistent(r) => RowConsistent(row)
  BY <1>1, <1>2 DEF RowConsistent, Item, Statuses
<1>5. RowOnRecord(m, r, events)
        => RowOnRecord(m, row, events \cup {Event("acknowledged", m, row.assignee)})
  BY <1>1, <1>2 DEF RowOnRecord, Noted, EventTypes
<1>6. WorkStep(m, "acknowledged", row)
  BY <1>1, <1>2, <1>3, <1>4, <1>5 DEF WorkStep, EventTypes
<1>. QED  BY <1>2, <1>6 DEF EventTypes

(* The in-progress switch.                                                 *)
LEMMA SwitchWorks ==
  ASSUME TypeOK, NEW m \in Mails, NEW u \in Users, NEW active \in BOOLEAN,
         SetInProgress(m, u, active)
  PROVE  \E type \in EventTypes, row \in Item : WorkStep(m, type, row)
<1>. DEFINE r == item[m]
            next == NextStatus(item[m].status, active)
            type == IF active THEN "in_progress_on" ELSE "in_progress_off"
            row == [item[m] EXCEPT !.status = next, !.acknowledged = TRUE]
<1>1. /\ Has(m) /\ r \in Item /\ r.assignee = u
      /\ r.status \in Toggleable /\ r.status # next
  BY DEF TypeOK, SetInProgress, AssigneeWork, Has
<1>2. /\ type \in EventTypes
      /\ active => next = "in_progress" /\ type = "in_progress_on"
      /\ ~active => next = "acknowledged" /\ type = "in_progress_off"
  BY <1>1 DEF NextStatus, EventTypes
<1>3. /\ row \in Item /\ row.assignee = r.assignee
      /\ row.acknowledged /\ row.replyInitiated = r.replyInitiated
      /\ row.completed = r.completed /\ row.status = next
  BY <1>1, <1>2 DEF Item, Statuses
<1>4. Record(type, m, u, row) /\ sent' \in {sent, Overtaken(m)}
  BY DEF SetInProgress
<1>. HIDE DEF row, next, type
<1>5. RowConsistent(r) => RowConsistent(row)
  BY <1>1, <1>2, <1>3 DEF RowConsistent, Toggleable
<1>6. RowOnRecord(m, r, events)
        => RowOnRecord(m, row, events \cup {Event(type, m, row.assignee)})
  BY <1>1, <1>2, <1>3 DEF RowOnRecord, Noted, EventTypes
<1>7. r.status # "completed"  BY <1>1 DEF Toggleable
<1>8. WorkStep(m, type, row)
  BY <1>1, <1>2, <1>3, <1>4, <1>5, <1>6, <1>7 DEF WorkStep
<1>. QED  BY <1>2, <1>3, <1>8

(* The reply button.                                                       *)
LEMMA ReplyWorks ==
  ASSUME TypeOK, NEW m \in Mails, NEW u \in Users, InitiateReply(m, u)
  PROVE  \E type \in EventTypes, row \in Item : WorkStep(m, type, row)
<1>. DEFINE r == item[m]
            row == [item[m] EXCEPT
                      !.status = IF @ \in {"assigned", "acknowledged"} THEN "in_progress" ELSE @,
                      !.acknowledged = TRUE, !.replyInitiated = TRUE]
<1>1. Has(m) /\ r \in Item /\ r.assignee = u
  BY DEF TypeOK, InitiateReply, AssigneeWork, Has
<1>2. /\ row \in Item /\ row.assignee = r.assignee
      /\ row.acknowledged /\ row.replyInitiated
      /\ row.completed = r.completed
      /\ row.status = IF r.status \in {"assigned", "acknowledged"} THEN "in_progress"
                      ELSE r.status
  BY <1>1 DEF Item, Statuses
<1>3. Record("reply_initiated", m, u, row) /\ sent' \in {sent, Overtaken(m)}
  BY DEF InitiateReply
<1>. HIDE DEF row
<1>4. RowConsistent(r) => RowConsistent(row)
  BY <1>1, <1>2 DEF RowConsistent, Item, Statuses
<1>5. RowOnRecord(m, r, events)
        => RowOnRecord(m, row, events \cup {Event("reply_initiated", m, row.assignee)})
  BY <1>1, <1>2 DEF RowOnRecord, Noted, EventTypes
<1>6. WorkStep(m, "reply_initiated", row)
  BY <1>1, <1>2, <1>3, <1>4, <1>5 DEF WorkStep, EventTypes
<1>. QED  BY <1>2, <1>6 DEF EventTypes

(* The completion button.                                                  *)
LEMMA CompletionWorks ==
  ASSUME TypeOK, NEW m \in Mails, NEW u \in Users, Complete(m, u)
  PROVE  \E type \in EventTypes, row \in Item : WorkStep(m, type, row)
<1>. DEFINE r == item[m]
            row == [item[m] EXCEPT !.status = "completed", !.completed = TRUE]
<1>1. Has(m) /\ r \in Item /\ r.assignee = u
  BY DEF TypeOK, Complete, AssigneeWork, Has
<1>2. /\ row \in Item /\ row.assignee = r.assignee
      /\ row.acknowledged = r.acknowledged /\ row.replyInitiated = r.replyInitiated
      /\ row.completed /\ row.status = "completed"
  BY <1>1 DEF Item, Statuses
<1>3. Record("completed", m, u, row) /\ sent' \in {sent, Overtaken(m)}
  BY DEF Complete
<1>. HIDE DEF row
<1>4. RowConsistent(r) => RowConsistent(row)
  BY <1>1, <1>2 DEF RowConsistent
<1>5. RowOnRecord(m, r, events)
        => RowOnRecord(m, row, events \cup {Event("completed", m, row.assignee)})
  BY <1>1, <1>2 DEF RowOnRecord, Noted, EventTypes
<1>6. WorkStep(m, "completed", row)
  BY <1>1, <1>2, <1>3, <1>4, <1>5 DEF WorkStep, EventTypes
<1>. QED  BY <1>2, <1>6 DEF EventTypes

(* The three kinds of steps.                                               *)
Afresh(m, u) ==
  /\ Has(m) => item[m].assignee # u
  /\ item' = [item EXCEPT ![m] = NewItem(u)]
  /\ sent' = Overtaken(m)
  /\ UNCHANGED <<events, lastError>>

LEMMA StepKinds ==
  ASSUME TypeOK, [Next]_vars
  PROVE  \/ /\ UNCHANGED <<item, events>>
            /\ sent' \in [Mails -> SentMail] /\ lastError' \in BOOLEAN
         \/ \E m \in Mails, u \in Users : Afresh(m, u)
         \/ \E m \in Mails, type \in EventTypes, row \in Item : WorkStep(m, type, row)
<1>1. CASE UNCHANGED vars  BY <1>1 DEF TypeOK, vars
<1>2. CASE \E m \in Mails, u \in Users \cup {NoUser} : EnsureForAssignment(m, u)
  <2>1. PICK m \in Mails, u \in Users \cup {NoUser} : EnsureForAssignment(m, u)  BY <1>2
  <2>2. u \in Users /\ Afresh(m, u)
    BY <2>1 DEF EnsureForAssignment, AssigneeGiven, Reassigned, Afresh
  <2>. QED  BY <2>2
<1>3. CASE \E m \in Mails, u \in Users : Work(m, u)
  <2>1. PICK m \in Mails, u \in Users : Work(m, u)  BY <1>3
  <2>2. \E type \in EventTypes, row \in Item : WorkStep(m, type, row)
    BY <2>1, AcknowledgeWorks, SwitchWorks, ReplyWorks, CompletionWorks DEF Work
  <2>. QED  BY <2>2
<1>4. CASE (\E m \in Mails : SendInThread(m)) \/ SyncOutbound \/ SyncInbox
  BY <1>4 DEF SendInThread, SyncOutbound, SyncInbox, TypeOK, SentMail
<1>. QED  BY <1>1, <1>2, <1>3, <1>4 DEF Next

-----------------------------------------------------------------------------
LEMMA InitTyped == Init => TypeOK
  BY DEF Init, TypeOK, SentMail

LEMMA StepTyped == TypeOK /\ [Next]_vars => TypeOK'
<1>. SUFFICES ASSUME TypeOK, [Next]_vars PROVE TypeOK'
  OBVIOUS
<1>1. CASE /\ UNCHANGED <<item, events>>
           /\ sent' \in [Mails -> SentMail] /\ lastError' \in BOOLEAN
  BY <1>1 DEF TypeOK
<1>2. CASE \E m \in Mails, u \in Users : Afresh(m, u)
  BY <1>2, NewItemTyped, OvertakenTyped DEF Afresh, TypeOK
<1>3. CASE \E m \in Mails, type \in EventTypes, row \in Item : WorkStep(m, type, row)
  <2>1. PICK m \in Mails, type \in EventTypes, row \in Item : WorkStep(m, type, row)
    BY <1>3
  <2>2. row.assignee \in Users  BY DEF Item
  <2>3. Event(type, m, row.assignee) \in [type: EventTypes, mail: Mails, actor: Users]
    BY <2>2 DEF Event
  <2>. QED  BY <2>1, <2>3, OvertakenTyped DEF WorkStep, Record, TypeOK
<1>. QED  BY <1>1, <1>2, <1>3, StepKinds

(* Items and events are well typed whatever the mails and operators.       *)
THEOREM WorkTypesHold == Spec => []TypeOK
  BY InitTyped, StepTyped, PTL DEF Spec

(* The status and the times of every item agree.                           *)
AllConsistent == \A m \in Mails : Has(m) => RowConsistent(item[m])

THEOREM StatusAgreesWithTimes == Spec => []StatusMatchesTimes
<1>1. Init => AllConsistent  BY DEF Init, AllConsistent, Has
<1>2. TypeOK /\ AllConsistent /\ [Next]_vars => AllConsistent'
  <2>. SUFFICES ASSUME TypeOK, AllConsistent, [Next]_vars PROVE AllConsistent'
    OBVIOUS
  <2>1. CASE UNCHANGED <<item, events>>
    BY <2>1 DEF AllConsistent, Has
  <2>2. CASE \E m \in Mails, u \in Users : Afresh(m, u)
    <3>1. \A u \in Users : RowConsistent(NewItem(u))  BY DEF RowConsistent, NewItem
    <3>. QED  BY <2>2, <3>1 DEF Afresh, AllConsistent, Has, TypeOK
  <2>3. CASE \E m \in Mails, type \in EventTypes, row \in Item : WorkStep(m, type, row)
    BY <2>3 DEF WorkStep, Record, AllConsistent, Has, TypeOK
  <2>. QED  BY <2>1, <2>2, <2>3, StepKinds
<1>3. AllConsistent => StatusMatchesTimes
  BY DEF AllConsistent, StatusMatchesTimes, RowConsistent
<1>. QED  BY <1>1, <1>2, <1>3, WorkTypesHold, PTL DEF Spec

(* Whatever an item shows was done by its present assignee and recorded.   *)
AllOnRecord == \A m \in Mails : Has(m) => RowOnRecord(m, item[m], events)

THEOREM ProgressHasRecord == Spec => []ProgressOnRecord
<1>1. Init => AllOnRecord  BY DEF Init, AllOnRecord, Has
<1>2. TypeOK /\ AllOnRecord /\ [Next]_vars => AllOnRecord'
  <2>. SUFFICES ASSUME TypeOK, AllOnRecord, [Next]_vars PROVE AllOnRecord'
    OBVIOUS
  <2>1. CASE UNCHANGED <<item, events>>
    BY <2>1 DEF AllOnRecord, Has
  <2>2. CASE \E m \in Mails, u \in Users : Afresh(m, u)
    <3>1. \A m \in Mails, u \in Users : RowOnRecord(m, NewItem(u), events)
      BY DEF RowOnRecord, NewItem
    <3>. QED  BY <2>2, <3>1 DEF Afresh, AllOnRecord, Has, TypeOK
  <2>3. CASE \E m \in Mails, type \in EventTypes, row \in Item : WorkStep(m, type, row)
    <3>1. PICK m \in Mails, type \in EventTypes, row \in Item : WorkStep(m, type, row)
      BY <2>3
    <3>2. /\ Has(m) /\ item' = [item EXCEPT ![m] = row]
          /\ events' = events \cup {Event(type, m, row.assignee)}
          /\ RowOnRecord(m, item[m], events) => RowOnRecord(m, row, events')
      BY <3>1 DEF WorkStep, Record
    <3>3. ASSUME NEW n \in Mails, Has(n)' PROVE RowOnRecord(n, item'[n], events')
      <4>1. CASE n = m  BY <3>2, <4>1 DEF AllOnRecord, TypeOK
      <4>2. CASE n # m
        <5>1. item'[n] = item[n] /\ Has(n)  BY <3>2, <3>3, <4>2 DEF TypeOK, Has
        <5>. QED  BY <3>2, <5>1, RecordGrows DEF AllOnRecord
      <4>. QED  BY <4>1, <4>2
    <3>. QED  BY <3>3 DEF AllOnRecord
  <2>. QED  BY <2>1, <2>2, <2>3, StepKinds
<1>3. AllOnRecord => ProgressOnRecord
  BY DEF AllOnRecord, ProgressOnRecord, RowOnRecord, Noted, By
<1>. QED  BY <1>1, <1>2, <1>3, WorkTypesHold, PTL DEF Spec

(* Completed work is left only by giving it to another operator.           *)
KeptCompleted ==
  \A m \in Mails :
    Has(m) /\ item[m].status = "completed" /\ item'[m].status # "completed"
      => item'[m].assignee # item[m].assignee

THEOREM CompletedWorkStays == Spec => CompletedStays
<1>1. TypeOK /\ [Next]_vars => KeptCompleted
  <2>. SUFFICES ASSUME TypeOK, [Next]_vars PROVE KeptCompleted
    OBVIOUS
  <2>1. CASE UNCHANGED <<item, events>>  BY <2>1 DEF KeptCompleted
  <2>2. CASE \E m \in Mails, u \in Users : Afresh(m, u)
    BY <2>2 DEF Afresh, NewItem, KeptCompleted, TypeOK
  <2>3. CASE \E m \in Mails, type \in EventTypes, row \in Item : WorkStep(m, type, row)
    BY <2>3 DEF WorkStep, Record, KeptCompleted, TypeOK
  <2>. QED  BY <2>1, <2>2, <2>3, StepKinds
<1>2. TypeOK /\ [Next]_vars => [KeptCompleted]_vars  BY <1>1
<1>. QED  BY <1>2, WorkTypesHold, PTL DEF Spec, CompletedStays, KeptCompleted

-----------------------------------------------------------------------------
(* Assignments and what follows them.                                      *)

(* Every list of steps a writer can have before it.                        *)
EndOfAuto == <<"auto_forward", "read", "upsert", "record">>
Todos ==
  { <<>>, <<"record">>, <<"upsert", "record">>, <<"read", "upsert", "record">>,
    <<"auto_forward">>, EndOfAuto,
    <<"record", "auto_forward", "read", "upsert", "record">>,
    <<"upsert", "record", "auto_forward", "read", "upsert", "record">>,
    AutoSteps, HandSteps, ForwardSteps }

Step(r) == IF r.todo = <<>> THEN "idle" ELSE Head(r.todo)

WriterRow == [mail : Mails \cup {"none"}, todo : Todos, user : Users \cup {NoUser}, read : Point]

At(w, m, steps) == writer[w].mail = m /\ Step(writer[w]) \in steps

(* A row that is neither assigned nor forwarded names nobody.              *)
RowOK(row) == row.status \in {"none", "review_required"} => row.user = NoUser

RoutingTypeOK ==
  /\ item \in [Mails -> Item \cup {NoItem}]
  /\ assignment \in [Mails -> Row]
  /\ \A m \in Mails : RowOK(assignment[m])
  /\ point \in [Mails -> Point]
  /\ record \in [Mails -> Point]
  /\ writer \in [Writers -> WriterRow]
  /\ \A w \in Writers : Step(writer[w]) # "idle" => writer[w].mail \in Mails
  /\ aside \in [{"work", "index"} -> SUBSET Mails]

(* The work item: who is to write it knows for whom, and without such a    *)
(* writer it is written.                                                   *)
WorkOK(m) ==
  m \notin aside["work"] =>
    /\ \A w \in Writers : At(w, m, {"work_item"}) =>
         assignment[m].source = "user" /\ writer[w].user = assignment[m].user
    /\ assignment[m].source = "user" =>
         \/ \E w \in Writers : At(w, m, {"work_item"})
         \/ Has(m) /\ item[m].assignee = assignment[m].user

(* The index: what was read is what is assigned, and what is not written   *)
(* yet somebody is about to write.                                         *)
IndexOK(m) ==
  m \notin aside["index"] =>
    /\ \A w \in Writers : At(w, m, {"upsert", "record"}) =>
         writer[w].read = PointOf(assignment[m])
    /\ assignment[m] # NoRow =>
         /\ \/ \E w \in Writers : At(w, m, {"work_item", "read", "upsert"})
            \/ point[m] = PointOf(assignment[m])
         /\ \/ \E w \in Writers : At(w, m, {"work_item", "read", "upsert", "record"})
            \/ record[m] = PointOf(assignment[m])

RoutingInv ==
  /\ RoutingTypeOK
  /\ \A m \in Mails : WorkOK(m)
  /\ \A m \in Mails : IndexOK(m)

-----------------------------------------------------------------------------
(* Steps.                                                                  *)
LEMMA TodoSteps ==
  ASSUME NEW t \in Todos
  PROVE  /\ t = <<>> \/ Head(t) \in {"read", "upsert", "record", "auto_forward", "work_item", "forward"}
         /\ t # <<>> /\ Head(t) # "idle" =>
              /\ Len(t) # 1 => Tail(t) \in Todos \ {<<>>}
              /\ Head(t) \in {"work_item", "forward"} => Len(t) # 1 /\ Head(Tail(t)) = "read"
              /\ Head(t) = "read" => Len(t) # 1 /\ Head(Tail(t)) = "upsert"
              /\ Head(t) = "upsert" => Len(t) # 1 /\ Head(Tail(t)) = "record"
              /\ Head(t) = "record" /\ Len(t) # 1 => Head(Tail(t)) = "auto_forward"
              /\ Head(t) = "auto_forward" /\ Len(t) # 1 => Head(Tail(t)) = "read"
<1>1. CASE t = <<>>  BY <1>1
<1>2. CASE t \in {<<"record">>, <<"auto_forward">>}  BY <1>2
<1>3. CASE t = <<"upsert", "record">>  BY <1>3 DEF Todos
<1>4. CASE t = <<"read", "upsert", "record">>  BY <1>4 DEF Todos
<1>5. CASE t = EndOfAuto  BY <1>5 DEF Todos, EndOfAuto
<1>6. CASE t = <<"record", "auto_forward", "read", "upsert", "record">>  BY <1>6 DEF Todos, EndOfAuto
<1>7. CASE t = <<"upsert", "record", "auto_forward", "read", "upsert", "record">>  BY <1>7 DEF Todos
<1>8. CASE t = AutoSteps  BY <1>8 DEF Todos, AutoSteps
<1>9. CASE t = HandSteps  BY <1>9 DEF Todos, HandSteps
<1>10. CASE t = ForwardSteps  BY <1>10 DEF Todos, ForwardSteps
<1>. QED  BY <1>1, <1>2, <1>3, <1>4, <1>5, <1>6, <1>7, <1>8, <1>9, <1>10 DEF Todos

(* A writer that begins has its first step before it.                      *)
LEMMA Started ==
  ASSUME RoutingTypeOK, NEW w \in Writers, NEW m \in Mails, NEW todo \in Todos \ {<<>>},
         NEW user \in Users \cup {NoUser}, Start(w, m, todo, user)
  PROVE  /\ Step(writer[w]) = "idle"
         /\ writer' \in [Writers -> WriterRow]
         /\ \A v \in Writers \ {w} : writer'[v] = writer[v]
         /\ writer'[w].mail = m /\ writer'[w].user = user
         /\ Step(writer'[w]) = Head(todo)
<1>. DEFINE r == [mail |-> m, todo |-> todo, user |-> user, read |-> NoPoint]
<1>1. r \in WriterRow
  BY DEF WriterRow, Point, NoPoint
<1>2. r.mail = m /\ r.user = user /\ r.todo = todo
  OBVIOUS
<1>3. writer \in [Writers -> WriterRow] /\ writer' = [writer EXCEPT ![w] = r]
  BY DEF RoutingTypeOK, Start
<1>. HIDE DEF r
<1>4. writer'[w] = r /\ writer' \in [Writers -> WriterRow]
  BY <1>1, <1>3
<1>5. \A v \in Writers \ {w} : writer'[v] = writer[v]
  BY <1>3
<1>. QED  BY <1>2, <1>4, <1>5 DEF Start, Busy, Step

(* Any other step of a writer: r is what it becomes.                       *)
LEMMA Continued ==
  ASSUME RoutingTypeOK, NEW w \in Writers, NEW r \in WriterRow,
         writer' = [writer EXCEPT ![w] = r]
  PROVE  /\ writer' \in [Writers -> WriterRow]
         /\ \A v \in Writers \ {w} : writer'[v] = writer[v]
         /\ writer'[w] = r
  BY DEF RoutingTypeOK

LEMMA IdleIsIdle ==
  IdleWriter \in WriterRow /\ Step(IdleWriter) = "idle"
  BY DEF IdleWriter, WriterRow, Point, NoPoint, Todos, Step

LEMMA AtStepIs ==
  ASSUME RoutingTypeOK, NEW w \in Writers, NEW step, AtStep(w, step)
  PROVE  /\ Step(writer[w]) = step /\ step # "idle"
         /\ writer[w].todo \in Todos \ {<<>>} /\ Head(writer[w].todo) = step
         /\ writer[w] \in WriterRow /\ writer[w].mail \in Mails
<1>1. writer[w] \in WriterRow /\ writer[w].todo \in Todos \ {<<>>} /\ Head(writer[w].todo) = step
  BY DEF RoutingTypeOK, AtStep, Busy, WriterRow
<1>2. step # "idle"
  BY <1>1, TodoSteps
<1>. QED  BY <1>1, <1>2 DEF RoutingTypeOK, Step

(* What a writer makes of its row when it goes on to the next step.        *)
LEMMA TailRow ==
  ASSUME NEW r \in WriterRow, r.todo # <<>>, Head(r.todo) # "idle", Len(r.todo) # 1,
         NEW s, s.mail = r.mail, s.todo = Tail(r.todo)
  PROVE  Tail(r.todo) \in Todos \ {<<>>} /\ Step(s) = Head(Tail(r.todo))
  BY TodoSteps DEF WriterRow, Step

LEMMA Advanced ==
  ASSUME RoutingTypeOK, NEW w \in Writers, NEW step, AtStep(w, step), Advance(w)
  PROVE  \E r \in WriterRow :
           /\ writer' = [writer EXCEPT ![w] = r]
           /\ \/ r = IdleWriter /\ step \in {"record", "auto_forward"}
              \/ /\ r.mail = writer[w].mail /\ r.read = writer[w].read
                 /\ Len(writer[w].todo) # 1 /\ Step(r) = Head(Tail(writer[w].todo))
<1>. DEFINE o == writer[w]
            s == [o EXCEPT !.todo = Tail(o.todo)]
<1>1. o \in WriterRow /\ o.todo \in Todos \ {<<>>} /\ Head(o.todo) = step /\ step # "idle"
  BY AtStepIs
<1>2. writer' = [writer EXCEPT ![w] = IF Len(o.todo) = 1 THEN IdleWriter ELSE s]
  BY DEF Advance, RoutingTypeOK
<1>3. CASE Len(o.todo) = 1
  <2>1. step \in {"record", "auto_forward"}
    BY <1>1, <1>3, TodoSteps
  <2>. QED  BY <1>2, <1>3, <2>1, IdleIsIdle
<1>4. CASE Len(o.todo) # 1
  <2>1. s.mail = o.mail /\ s.todo = Tail(o.todo) /\ s.read = o.read
    BY <1>1 DEF WriterRow
  <2>2. Tail(o.todo) \in Todos
    BY <1>1, <1>4, TodoSteps
  <2>3. s \in WriterRow
    BY <1>1, <2>2 DEF WriterRow
  <2>. HIDE DEF s
  <2>4. Step(s) = Head(Tail(o.todo))
    <3>. HIDE DEF o
    <3>. QED  BY <1>1, <1>4, <2>1, TailRow
  <2>. QED  BY <1>2, <1>4, <2>1, <2>3, <2>4
<1>. QED  BY <1>3, <1>4

LEMMA PassEnded ==
  ASSUME RoutingTypeOK, NEW w \in Writers, NEW step, AtStep(w, step), EndPass(w)
  PROVE  \E r \in WriterRow :
           /\ writer' = [writer EXCEPT ![w] = r]
           /\ \/ r = IdleWriter
              \/ r.mail = writer[w].mail /\ Step(r) = "auto_forward"
<1>. DEFINE o == writer[w]
            s == [o EXCEPT !.todo = <<"auto_forward", "read", "upsert", "record">>, !.read = NoPoint]
<1>1. o \in WriterRow
  BY AtStepIs
<1>2. writer' = [writer EXCEPT ![w] = IF "auto_forward" \in ToSet(o.todo) THEN s ELSE IdleWriter]
  BY DEF EndPass, RoutingTypeOK
<1>3. s.mail = o.mail /\ s.todo = EndOfAuto
  BY <1>1 DEF WriterRow, EndOfAuto
<1>4. s \in WriterRow
  BY <1>1 DEF WriterRow, Todos, EndOfAuto, Point, NoPoint
<1>5. EndOfAuto # <<>> /\ Head(EndOfAuto) = "auto_forward"
  BY DEF EndOfAuto
<1>. HIDE DEF s
<1>6. Step(s) = "auto_forward"
  BY <1>3, <1>5 DEF Step
<1>7. CASE writer' = [writer EXCEPT ![w] = s]
  <2>1. s \in WriterRow
    BY <1>4
  <2>. WITNESS s \in WriterRow
  <2>. QED  BY <1>3, <1>6, <1>7
<1>8. CASE writer' = [writer EXCEPT ![w] = IdleWriter]
  <2>1. IdleWriter \in WriterRow
    BY IdleIsIdle
  <2>. WITNESS IdleWriter \in WriterRow
  <2>. QED  BY <1>8
<1>. QED  BY <1>2, <1>7, <1>8

-----------------------------------------------------------------------------
(* Nothing of a mail but its writers' places changes.                      *)
SameMail(n) ==
  /\ assignment'[n] = assignment[n] /\ item'[n] = item[n]
  /\ point'[n] = point[n] /\ record'[n] = record[n]
  /\ n \in aside'["work"] <=> n \in aside["work"]
  /\ n \in aside'["index"] <=> n \in aside["index"]

(* Only w moves, and at m.                                                 *)
OnlyAt(w, m) ==
  /\ \A v \in Writers \ {w} : writer'[v] = writer[v]
  /\ Step(writer[w]) = "idle" \/ writer[w].mail = m
  /\ Step(writer'[w]) = "idle" \/ writer'[w].mail = m

LEMMA OtherMails ==
  ASSUME NEW w \in Writers, NEW m \in Mails, OnlyAt(w, m), NEW n \in Mails \ {m},
         WorkOK(n), IndexOK(n), SameMail(n)
  PROVE  WorkOK(n)' /\ IndexOK(n)'
<1>1. \A v \in Writers, S \in SUBSET {"work_item", "read", "upsert", "record"} :
        /\ At(v, n, S)' <=> At(v, n, S)
        /\ At(v, n, S) => writer'[v] = writer[v]
  <2>. SUFFICES ASSUME NEW v \in Writers, NEW S \in SUBSET {"work_item", "read", "upsert", "record"}
                PROVE  /\ At(v, n, S)' <=> At(v, n, S)
                       /\ At(v, n, S) => writer'[v] = writer[v]
    OBVIOUS
  <2>1. CASE v # w  BY <2>1 DEF OnlyAt, At
  <2>2. CASE v = w  BY <2>2 DEF OnlyAt, At
  <2>. QED  BY <2>1, <2>2
<1>2. WorkOK(n)'
  BY <1>1 DEF WorkOK, SameMail, Has
<1>3. IndexOK(n)'
  BY <1>1 DEF IndexOK, SameMail
<1>. QED  BY <1>2, <1>3

LEMMA OneMail ==
  ASSUME RoutingInv, NEW w \in Writers, NEW m \in Mails, RoutingTypeOK', OnlyAt(w, m),
         \A n \in Mails \ {m} : SameMail(n), WorkOK(m)', IndexOK(m)'
  PROVE  RoutingInv'
<1>1. ASSUME NEW n \in Mails \ {m}  PROVE WorkOK(n)' /\ IndexOK(n)'
  BY <1>1, OtherMails DEF RoutingInv
<1>2. ASSUME NEW n \in Mails  PROVE WorkOK(n)' /\ IndexOK(n)'
  BY <1>1, <1>2
<1>. QED  BY <1>2 DEF RoutingInv

(* A step of w that is not about the work item.                            *)
LEMMA WorkStays ==
  ASSUME NEW w \in Writers, NEW m \in Mails, WorkOK(m),
         \A v \in Writers \ {w} : writer'[v] = writer[v],
         Step(writer[w]) # "work_item", Step(writer'[w]) # "work_item",
         item'[m] = item[m], assignment'[m].source = assignment[m].source,
         assignment'[m].user = assignment[m].user,
         m \in aside["work"] => m \in aside'["work"]
  PROVE  WorkOK(m)'
<1>1. \A v \in Writers : /\ At(v, m, {"work_item"})' <=> At(v, m, {"work_item"})
                         /\ At(v, m, {"work_item"}) => writer'[v] = writer[v]
  BY DEF At
<1>. QED  BY <1>1 DEF WorkOK, Has

(* A step of w that is not about the index.                                *)
LEMMA IndexStays ==
  ASSUME NEW w \in Writers, NEW m \in Mails, IndexOK(m),
         \A v \in Writers \ {w} : writer'[v] = writer[v],
         Step(writer[w]) \in {"idle", "auto_forward", "forward", "work_item"},
         Step(writer'[w]) \notin {"upsert", "record"},
         Step(writer[w]) = "work_item" => At(w, m, {"read"})',
         PointOf(assignment'[m]) = PointOf(assignment[m]),
         assignment[m] = NoRow => assignment'[m] = NoRow,
         point'[m] = point[m], record'[m] = record[m],
         m \in aside["index"] => m \in aside'["index"]
  PROVE  IndexOK(m)'
<1>1. \A v \in Writers :
        /\ At(v, m, {"upsert", "record"})' => At(v, m, {"upsert", "record"})
        /\ At(v, m, {"upsert", "record"}) => writer'[v] = writer[v]
        /\ At(v, m, {"work_item", "read", "upsert"}) => At(v, m, {"work_item", "read", "upsert"})'
        /\ At(v, m, {"work_item", "read", "upsert", "record"})
             => At(v, m, {"work_item", "read", "upsert", "record"})'
  BY DEF At
<1>. QED  BY <1>1 DEF IndexOK

LEMMA PointTyped ==
  ASSUME NEW row \in Row  PROVE PointOf(row) \in Point
<1>1. Confirmed(row) \in BOOLEAN
  BY DEF Confirmed
<1>2. (IF Confirmed(row) THEN row.user ELSE NoUser) \in Users \cup {NoUser}
  BY DEF Row
<1>. QED  BY <1>1, <1>2 DEF PointOf, Point

LEMMA ForwardedPoint ==
  ASSUME NEW row \in Row, RowOK(row), row # NoRow,
         NEW new, new = [row EXCEPT !.status = "forwarded"]
  PROVE  /\ new \in Row /\ RowOK(new) /\ new # NoRow
         /\ new.user = row.user /\ new.source = row.source
         /\ PointOf(new) = PointOf(row)
<1>1. /\ new \in Row /\ new.user = row.user /\ new.source = row.source
      /\ new.status = "forwarded"
  BY DEF Row
<1>2. new # NoRow /\ RowOK(new)
  BY <1>1 DEF NoRow, RowOK
<1>3. Confirmed(new) = Confirmed(row)
  <2>1. row.status \in {"none", "review_required", "assigned", "forwarded"}
    BY DEF Row
  <2>. QED  BY <1>1, <2>1 DEF Confirmed, RowOK
<1>. QED  BY <1>1, <1>2, <1>3 DEF PointOf

-----------------------------------------------------------------------------
LEMMA InitHolds ==
  ASSUME RoutingInit  PROVE RoutingInv
<1>1. RoutingTypeOK
  <2>1. item \in [Mails -> Item \cup {NoItem}]
    BY DEF RoutingInit, Init
  <2>2. assignment \in [Mails -> Row] /\ \A m \in Mails : RowOK(assignment[m])
    BY DEF RoutingInit, Row, NoRow, RowOK
  <2>3. point \in [Mails -> Point] /\ record \in [Mails -> Point]
    BY DEF RoutingInit, Point, NoPoint
  <2>4. writer \in [Writers -> WriterRow] /\ \A w \in Writers : Step(writer[w]) = "idle"
    BY IdleIsIdle DEF RoutingInit
  <2>5. aside \in [{"work", "index"} -> SUBSET Mails]
    BY DEF RoutingInit
  <2>. QED  BY <2>1, <2>2, <2>3, <2>4, <2>5 DEF RoutingTypeOK
<1>2. \A w \in Writers : Step(writer[w]) = "idle"
  BY IdleIsIdle DEF RoutingInit
<1>3. \A m \in Mails : assignment[m] = NoRow
  BY DEF RoutingInit
<1>4. \A m \in Mails : WorkOK(m)
  BY <1>2, <1>3 DEF WorkOK, At, NoRow
<1>5. \A m \in Mails : IndexOK(m)
  BY <1>2, <1>3 DEF IndexOK, At
<1>. QED  BY <1>1, <1>4, <1>5 DEF RoutingInv

(* Another assignment of m: undisturbed, w alone is at work on it.         *)
LEMMA DisturbIs ==
  ASSUME RoutingTypeOK, NEW w \in Writers, NEW m \in Mails, NEW anew, Disturb(w, m, anew)
  PROVE  /\ aside' \in [{"work", "index"} -> SUBSET Mails]
         /\ \A f \in {"work", "index"} : \A n \in Mails \ {m} : n \in aside'[f] <=> n \in aside[f]
         /\ \A f \in {"work", "index"} : f \notin anew /\ m \in aside[f] => m \in aside'[f]
         /\ \A f \in {"work", "index"} : m \notin aside'[f] =>
              \A v \in Writers \ {w} : ~(Step(writer[v]) # "idle" /\ writer[v].mail = m)
<1>1. \A v \in Writers : Step(writer[v]) # "idle" => Busy(v)
  BY DEF Step, Busy
<1>2. \A v \in Writers \ {w} : Step(writer[v]) # "idle" /\ writer[v].mail = m => OthersAt(w, m)
  BY <1>1 DEF OthersAt
<1>. QED  BY <1>2 DEF Disturb, RoutingTypeOK

LEMMA ApplyDecisionStep ==
  ASSUME RoutingInv, NEW w \in Writers, NEW m \in Mails, NEW user \in Users \cup {NoUser},
         ApplyDecision(w, m, user)
  PROVE  RoutingInv'
<1>. DEFINE todo == IF user = NoUser THEN ReviewSteps ELSE AutoSteps
            row == [user |-> user, status |-> IF user = NoUser THEN "review_required" ELSE "assigned",
                    source |-> "mail_decision_policy"]
<1>0. RoutingTypeOK /\ Start(w, m, todo, NoUser) /\ Disturb(w, m, {})
      /\ assignment' = [assignment EXCEPT ![m] = row]
      /\ UNCHANGED <<item, point, record>>
  BY DEF RoutingInv, ApplyDecision, vars
<1>1. todo \in Todos \ {<<>>} /\ Head(todo) = "read"
  BY DEF Todos, ReviewSteps, IndexSteps, AutoSteps
<1>2. row \in Row /\ RowOK(row) /\ row.source # "user"
  BY DEF Row, RowOK
<1>. HIDE DEF todo, row
<1>3. /\ Step(writer[w]) = "idle" /\ writer' \in [Writers -> WriterRow]
      /\ \A v \in Writers \ {w} : writer'[v] = writer[v]
      /\ writer'[w].mail = m /\ Step(writer'[w]) = "read"
  BY <1>0, <1>1, Started
<1>4. assignment'[m] = row /\ assignment' \in [Mails -> Row]
      /\ \A n \in Mails \ {m} : assignment'[n] = assignment[n]
  BY <1>0, <1>2 DEF RoutingTypeOK
<1>5. /\ aside' \in [{"work", "index"} -> SUBSET Mails]
      /\ \A f \in {"work", "index"} : \A n \in Mails \ {m} : n \in aside'[f] <=> n \in aside[f]
      /\ \A f \in {"work", "index"} : m \notin aside'[f] =>
           \A v \in Writers \ {w} : ~(Step(writer[v]) # "idle" /\ writer[v].mail = m)
  BY <1>0, DisturbIs
<1>6. RoutingTypeOK'
  BY <1>0, <1>2, <1>3, <1>4, <1>5 DEF RoutingTypeOK
<1>7. WorkOK(m)'
  BY <1>2, <1>3, <1>4, <1>5 DEF WorkOK, At
<1>8. IndexOK(m)'
  BY <1>3, <1>5 DEF IndexOK, At
<1>9. OnlyAt(w, m) /\ \A n \in Mails \ {m} : SameMail(n)
  BY <1>0, <1>3, <1>4, <1>5 DEF OnlyAt, SameMail
<1>. QED  BY <1>6, <1>7, <1>8, <1>9, OneMail

LEMMA AssignByHandStep ==
  ASSUME RoutingInv, NEW w \in Writers, NEW m \in Mails, NEW user \in Users,
         AssignByHand(w, m, user)
  PROVE  RoutingInv'
<1>. DEFINE row == [user |-> user, status |-> "assigned", source |-> "user"]
<1>0. RoutingTypeOK /\ Start(w, m, HandSteps, user) /\ Disturb(w, m, {"work"})
      /\ assignment' = [assignment EXCEPT ![m] = row]
      /\ UNCHANGED <<item, point, record>>
  BY DEF RoutingInv, AssignByHand, vars
<1>1. HandSteps \in Todos \ {<<>>} /\ Head(HandSteps) = "work_item"
  BY DEF Todos, HandSteps
<1>2. row \in Row /\ RowOK(row) /\ row.source = "user" /\ row.user = user
  BY DEF Row, RowOK
<1>. HIDE DEF row
<1>3. /\ Step(writer[w]) = "idle" /\ writer' \in [Writers -> WriterRow]
      /\ \A v \in Writers \ {w} : writer'[v] = writer[v]
      /\ writer'[w].mail = m /\ writer'[w].user = user /\ Step(writer'[w]) = "work_item"
  BY <1>0, <1>1, Started
<1>4. assignment'[m] = row /\ assignment' \in [Mails -> Row]
      /\ \A n \in Mails \ {m} : assignment'[n] = assignment[n]
  BY <1>0, <1>2 DEF RoutingTypeOK
<1>5. /\ aside' \in [{"work", "index"} -> SUBSET Mails]
      /\ \A f \in {"work", "index"} : \A n \in Mails \ {m} : n \in aside'[f] <=> n \in aside[f]
      /\ \A f \in {"work", "index"} : m \notin aside'[f] =>
           \A v \in Writers \ {w} : ~(Step(writer[v]) # "idle" /\ writer[v].mail = m)
  BY <1>0, DisturbIs
<1>6. RoutingTypeOK'
  BY <1>0, <1>2, <1>3, <1>4, <1>5 DEF RoutingTypeOK
<1>7. WorkOK(m)'
  BY <1>2, <1>3, <1>4, <1>5 DEF WorkOK, At
<1>8. IndexOK(m)'
  BY <1>3, <1>5 DEF IndexOK, At
<1>9. OnlyAt(w, m) /\ \A n \in Mails \ {m} : SameMail(n)
  BY <1>0, <1>3, <1>4, <1>5 DEF OnlyAt, SameMail
<1>. QED  BY <1>6, <1>7, <1>8, <1>9, OneMail

(* A forward, a sweep or a reindex begins.                                 *)
LEMMA BeginStep ==
  ASSUME RoutingInv, NEW w \in Writers, NEW m \in Mails, NEW todo \in Todos \ {<<>>},
         Head(todo) \in {"forward", "auto_forward", "read"}, Start(w, m, todo, NoUser),
         UNCHANGED <<item, assignment, point, record, aside>>
  PROVE  RoutingInv'
<1>1. /\ Step(writer[w]) = "idle" /\ writer' \in [Writers -> WriterRow]
      /\ \A v \in Writers \ {w} : writer'[v] = writer[v]
      /\ writer'[w].mail = m /\ Step(writer'[w]) \in {"forward", "auto_forward", "read"}
  BY Started DEF RoutingInv
<1>2. RoutingTypeOK'
  BY <1>1 DEF RoutingInv, RoutingTypeOK
<1>3. WorkOK(m)'
  BY <1>1, WorkStays DEF RoutingInv
<1>4. IndexOK(m)'
  BY <1>1, IndexStays DEF RoutingInv
<1>5. OnlyAt(w, m) /\ \A n \in Mails \ {m} : SameMail(n)
  BY <1>1 DEF OnlyAt, SameMail
<1>. QED  BY <1>2, <1>3, <1>4, <1>5, OneMail

(* The work item afterwards, whatever it was.                              *)
LEMMA ItemGiven ==
  ASSUME RoutingTypeOK, NEW m \in Mails, NEW user \in Users \cup {NoUser},
         IF Has(m) /\ item[m].assignee = user THEN UNCHANGED vars ELSE EnsureForAssignment(m, user)
  PROVE  /\ item' \in [Mails -> Item \cup {NoItem}]
         /\ \A n \in Mails \ {m} : item'[n] = item[n]
         /\ item'[m] # NoItem /\ item'[m].assignee = user
<1>1. CASE Has(m) /\ item[m].assignee = user
  BY <1>1 DEF RoutingTypeOK, Has, vars
<1>2. CASE ~(Has(m) /\ item[m].assignee = user)
  <2>1. user \in Users /\ item' = [item EXCEPT ![m] = NewItem(user)]
    BY <1>2 DEF EnsureForAssignment, AssigneeGiven, Reassigned
  <2>2. NewItem(user) \in Item /\ NewItem(user).assignee = user
    BY <2>1 DEF NewItem, Item, Statuses
  <2>3. NoItem \notin Item
    BY DEF NoItem, Item
  <2>4. item'[m] = NewItem(user) /\ item' \in [Mails -> Item \cup {NoItem}]
        /\ \A n \in Mails \ {m} : item'[n] = item[n]
    BY <2>1, <2>2 DEF RoutingTypeOK
  <2>. QED  BY <2>2, <2>3, <2>4
<1>. QED  BY <1>1, <1>2

LEMMA EnsureWorkItemStep ==
  ASSUME RoutingInv, NEW w \in Writers, NEW m, m = writer[w].mail, EnsureWorkItem(w)
  PROVE  RoutingInv'
<1>. DEFINE o == writer[w]
            r == [o EXCEPT !.todo = Tail(o.todo), !.user = NoUser]
<1>1. RoutingTypeOK /\ AtStep(w, "work_item")
      /\ UNCHANGED <<assignment, point, record, aside>>
  BY DEF RoutingInv, EnsureWorkItem
<1>2. /\ Step(o) = "work_item" /\ o \in WriterRow /\ m \in Mails
      /\ o.todo \in Todos \ {<<>>} /\ Head(o.todo) = "work_item"
  BY <1>1, AtStepIs
<1>3. o.user \in Users \cup {NoUser}
  BY <1>2 DEF WriterRow
<1>4. /\ item' \in [Mails -> Item \cup {NoItem}]
      /\ \A n \in Mails \ {m} : item'[n] = item[n]
      /\ item'[m] # NoItem /\ item'[m].assignee = o.user
  BY <1>1, <1>2, <1>3, ItemGiven DEF EnsureWorkItem
<1>5. Tail(o.todo) \in Todos \ {<<>>} /\ Head(Tail(o.todo)) = "read"
  BY <1>2, TodoSteps
<1>6. r \in WriterRow /\ r.mail = m /\ r.todo = Tail(o.todo)
  BY <1>2, <1>5 DEF WriterRow
<1>7. writer' = [writer EXCEPT ![w] = r]
  BY <1>1 DEF RoutingTypeOK, EnsureWorkItem
<1>. HIDE DEF r
<1>8. Step(r) = "read"
  BY <1>5, <1>6 DEF Step
<1>9. /\ writer' \in [Writers -> WriterRow] /\ writer'[w] = r
      /\ \A v \in Writers \ {w} : writer'[v] = writer[v]
  BY <1>1, <1>6, <1>7, Continued
<1>10. RoutingTypeOK'
  BY <1>1, <1>2, <1>4, <1>6, <1>9 DEF RoutingTypeOK
<1>11. WorkOK(m)'
  <2>1. WorkOK(m) /\ At(w, m, {"work_item"})
    BY <1>2 DEF RoutingInv, At
  <2>2. \A v \in Writers \ {w} : /\ At(v, m, {"work_item"})' <=> At(v, m, {"work_item"})
                                 /\ writer'[v] = writer[v]
    BY <1>9 DEF At
  <2>3. ~At(w, m, {"work_item"})'
    BY <1>8, <1>9 DEF At
  <2>. QED  BY <1>1, <1>4, <2>1, <2>2, <2>3 DEF WorkOK, Has
<1>12. IndexOK(m)'
  <2>1. At(w, m, {"read"})'
    BY <1>6, <1>8, <1>9 DEF At
  <2>. QED  BY <1>1, <1>2, <1>8, <1>9, <2>1, IndexStays DEF RoutingInv
<1>13. OnlyAt(w, m) /\ \A n \in Mails \ {m} : SameMail(n)
  BY <1>1, <1>4, <1>6, <1>9 DEF OnlyAt, SameMail
<1>. QED  BY <1>2, <1>10, <1>11, <1>12, <1>13, OneMail

(* The two ways to mark an assignment as forwarded.                        *)
LEMMA SetForwardedStep ==
  ASSUME RoutingInv, NEW w \in Writers, NEW m, m = writer[w].mail,
         NEW step \in {"forward", "auto_forward"},
         AtStep(w, step), SetForwarded(w, m), UNCHANGED <<item, point, record>>
  PROVE  RoutingInv'
<1>. DEFINE o == writer[w]
            row == IF assignment[m] = NoRow THEN assignment[m]
                   ELSE [assignment[m] EXCEPT !.status = "forwarded"]
<1>1. RoutingTypeOK /\ Disturb(w, m, {})
  BY DEF RoutingInv, SetForwarded
<1>2. /\ Step(o) = step /\ o \in WriterRow /\ m \in Mails
      /\ o.todo \in Todos \ {<<>>} /\ Head(o.todo) = step
  BY <1>1, AtStepIs
<1>3. assignment[m] \in Row /\ RowOK(assignment[m])
  BY <1>1, <1>2 DEF RoutingTypeOK
<1>4. /\ row \in Row /\ RowOK(row)
      /\ assignment[m] = NoRow => row = NoRow
      /\ row.user = assignment[m].user /\ row.source = assignment[m].source
      /\ PointOf(row) = PointOf(assignment[m])
  <2>1. CASE assignment[m] = NoRow  BY <1>3, <2>1
  <2>2. CASE assignment[m] # NoRow  BY <1>3, <2>2, ForwardedPoint
  <2>. QED  BY <2>1, <2>2
<1>5. assignment' = [assignment EXCEPT ![m] = row]
  BY <1>1 DEF RoutingTypeOK, SetForwarded
<1>. HIDE DEF row
<1>6. assignment'[m] = row /\ assignment' \in [Mails -> Row]
      /\ \A n \in Mails \ {m} : assignment'[n] = assignment[n]
  BY <1>1, <1>2, <1>4, <1>5 DEF RoutingTypeOK
<1>7. PICK r \in WriterRow :
        /\ writer' = [writer EXCEPT ![w] = r]
        /\ \/ r = IdleWriter /\ step \in {"record", "auto_forward"}
           \/ /\ r.mail = o.mail /\ r.read = o.read
              /\ Len(o.todo) # 1 /\ Step(r) = Head(Tail(o.todo))
  BY <1>1, Advanced DEF SetForwarded
<1>8. Step(r) = "idle" \/ (r.mail = m /\ Step(r) = "read")
  BY <1>2, <1>7, TodoSteps, IdleIsIdle
<1>9. /\ writer' \in [Writers -> WriterRow] /\ writer'[w] = r
      /\ \A v \in Writers \ {w} : writer'[v] = writer[v]
  BY <1>1, <1>7, Continued
<1>10. /\ aside' \in [{"work", "index"} -> SUBSET Mails]
       /\ \A f \in {"work", "index"} : \A n \in Mails \ {m} : n \in aside'[f] <=> n \in aside[f]
       /\ \A f \in {"work", "index"} : m \in aside[f] => m \in aside'[f]
  BY <1>1, <1>2, DisturbIs
<1>11. RoutingTypeOK'
  BY <1>1, <1>2, <1>4, <1>6, <1>8, <1>9, <1>10 DEF RoutingTypeOK
<1>12. WorkOK(m)'
  BY <1>2, <1>4, <1>6, <1>8, <1>9, <1>10, WorkStays DEF RoutingInv
<1>13. IndexOK(m)'
  BY <1>2, <1>4, <1>6, <1>8, <1>9, <1>10, IndexStays DEF RoutingInv
<1>14. OnlyAt(w, m) /\ \A n \in Mails \ {m} : SameMail(n)
  BY <1>6, <1>8, <1>9, <1>10 DEF OnlyAt, SameMail
<1>. QED  BY <1>2, <1>11, <1>12, <1>13, <1>14, OneMail

LEMMA AutoForwardRefusedStep ==
  ASSUME RoutingInv, NEW w \in Writers, NEW m, m = writer[w].mail, AutoForwardRefused(w)
  PROVE  RoutingInv'
<1>1. RoutingTypeOK /\ AtStep(w, "auto_forward") /\ writer' = [writer EXCEPT ![w] = IdleWriter]
      /\ UNCHANGED <<item, assignment, point, record, aside>>
  BY DEF RoutingInv, AutoForwardRefused, vars
<1>2. Step(writer[w]) = "auto_forward" /\ m \in Mails
  BY <1>1, AtStepIs
<1>3. /\ writer' \in [Writers -> WriterRow] /\ Step(writer'[w]) = "idle"
      /\ \A v \in Writers \ {w} : writer'[v] = writer[v]
  BY <1>1, IdleIsIdle, Continued
<1>4. RoutingTypeOK'
  BY <1>1, <1>3 DEF RoutingTypeOK
<1>5. WorkOK(m)'
  BY <1>1, <1>2, <1>3, WorkStays DEF RoutingInv
<1>6. IndexOK(m)'
  BY <1>1, <1>2, <1>3, IndexStays DEF RoutingInv
<1>7. OnlyAt(w, m) /\ \A n \in Mails \ {m} : SameMail(n)
  BY <1>1, <1>3 DEF OnlyAt, SameMail
<1>. QED  BY <1>2, <1>4, <1>5, <1>6, <1>7, OneMail

(* An index pass reads the row: it has the mail for itself, or the index   *)
(* of the mail is put aside.                                               *)
LEMMA LoadCaseStep ==
  ASSUME RoutingInv, NEW w \in Writers, NEW m, m = writer[w].mail, LoadCase(w)
  PROVE  RoutingInv'
<1>. DEFINE o == writer[w]
            p == PointOf(assignment[m])
            r == [o EXCEPT !.todo = Tail(o.todo), !.read = p]
<1>1. RoutingTypeOK /\ AtStep(w, "read") /\ Disturb(w, m, {"index"})
      /\ UNCHANGED <<item, assignment, point, record>>
  BY DEF RoutingInv, LoadCase, vars
<1>2. /\ Step(o) = "read" /\ o \in WriterRow /\ m \in Mails
      /\ o.todo \in Todos \ {<<>>} /\ Head(o.todo) = "read"
  BY <1>1, AtStepIs
<1>3. p \in Point
  BY <1>1, <1>2, PointTyped DEF RoutingTypeOK
<1>4. Tail(o.todo) \in Todos \ {<<>>} /\ Head(Tail(o.todo)) = "upsert"
  BY <1>2, TodoSteps
<1>5. writer' = [writer EXCEPT ![w] = r]
  BY <1>1 DEF RoutingTypeOK, LoadCase
<1>. HIDE DEF p
<1>6. r \in WriterRow /\ r.mail = m /\ r.todo = Tail(o.todo) /\ r.read = p
  BY <1>2, <1>3, <1>4 DEF WriterRow
<1>. HIDE DEF r
<1>7. Step(r) = "upsert"
  BY <1>4, <1>6 DEF Step
<1>8. /\ writer' \in [Writers -> WriterRow] /\ writer'[w] = r
      /\ \A v \in Writers \ {w} : writer'[v] = writer[v]
  BY <1>1, <1>5, <1>6, Continued
<1>9. /\ aside' \in [{"work", "index"} -> SUBSET Mails]
      /\ \A f \in {"work", "index"} : \A n \in Mails \ {m} : n \in aside'[f] <=> n \in aside[f]
      /\ m \in aside["work"] => m \in aside'["work"]
      /\ m \notin aside'["index"] =>
           \A v \in Writers \ {w} : ~(Step(writer[v]) # "idle" /\ writer[v].mail = m)
  BY <1>1, <1>2, DisturbIs
<1>10. RoutingTypeOK'
  BY <1>1, <1>2, <1>6, <1>8, <1>9 DEF RoutingTypeOK
<1>11. WorkOK(m)'
  BY <1>1, <1>2, <1>7, <1>8, <1>9, WorkStays DEF RoutingInv
<1>12. IndexOK(m)'
  <2>1. At(w, m, {"work_item", "read", "upsert"})'
        /\ At(w, m, {"work_item", "read", "upsert", "record"})'
    BY <1>6, <1>7, <1>8 DEF At
  <2>2. m \notin aside'["index"] =>
          \A v \in Writers \ {w} : ~At(v, m, {"upsert", "record"})'
    BY <1>8, <1>9 DEF At
  <2>3. writer'[w].read = PointOf(assignment[m])
    BY <1>6, <1>8 DEF p
  <2>. QED  BY <1>1, <2>1, <2>2, <2>3 DEF IndexOK
<1>13. OnlyAt(w, m) /\ \A n \in Mails \ {m} : SameMail(n)
  BY <1>1, <1>6, <1>8, <1>9 DEF OnlyAt, SameMail
<1>. QED  BY <1>2, <1>10, <1>11, <1>12, <1>13, OneMail

(* A pass, or all of a writer's work, ends early: the followers it leaves  *)
(* behind are put aside.                                                   *)
LEMMA GivenUpStep ==
  ASSUME RoutingInv, NEW w \in Writers, NEW m \in Mails, m = writer[w].mail,
         NEW followers \in {{"index"}, {"work", "index"}}, PutAside(m, followers),
         Step(writer[w]) = "work_item" => "work" \in followers,
         NEW r \in WriterRow, writer' = [writer EXCEPT ![w] = r],
         Step(r) \in {"idle", "auto_forward"}, Step(r) # "idle" => r.mail = m,
         UNCHANGED <<item, assignment, point, record>>
  PROVE  RoutingInv'
<1>1. RoutingTypeOK
  BY DEF RoutingInv
<1>2. /\ writer' \in [Writers -> WriterRow] /\ writer'[w] = r
      /\ \A v \in Writers \ {w} : writer'[v] = writer[v]
  BY <1>1, Continued
<1>3. /\ aside' \in [{"work", "index"} -> SUBSET Mails]
      /\ \A f \in {"work", "index"} : \A n \in Mails \ {m} : n \in aside'[f] <=> n \in aside[f]
      /\ m \in aside'["index"]
      /\ m \in aside["work"] \/ "work" \in followers => m \in aside'["work"]
  BY <1>1 DEF PutAside, RoutingTypeOK
<1>4. RoutingTypeOK'
  BY <1>1, <1>2, <1>3 DEF RoutingTypeOK
<1>5. IndexOK(m)'
  BY <1>3 DEF IndexOK
<1>6. WorkOK(m)'
  <2>1. CASE "work" \in followers
    BY <1>3, <2>1 DEF WorkOK
  <2>2. CASE "work" \notin followers
    BY <1>2, <1>3, <2>2, WorkStays DEF RoutingInv
  <2>. QED  BY <2>1, <2>2
<1>7. OnlyAt(w, m) /\ \A n \in Mails \ {m} : SameMail(n)
  BY <1>2, <1>3 DEF OnlyAt, SameMail
<1>. QED  BY <1>4, <1>5, <1>6, <1>7, OneMail

(* The point is written: it is the one of the assignment, since what was   *)
(* read is.                                                                *)
LEMMA UpsertPointStep ==
  ASSUME RoutingInv, NEW w \in Writers, NEW m, m = writer[w].mail, UpsertPoint(w)
  PROVE  RoutingInv'
<1>. DEFINE o == writer[w]
<1>1. RoutingTypeOK /\ AtStep(w, "upsert") /\ Advance(w)
      /\ point' = [point EXCEPT ![m] = o.read]
      /\ UNCHANGED <<item, assignment, record, aside>>
  BY DEF RoutingInv, UpsertPoint, vars
<1>2. /\ Step(o) = "upsert" /\ o \in WriterRow /\ m \in Mails
      /\ o.todo \in Todos \ {<<>>} /\ Head(o.todo) = "upsert"
  BY <1>1, AtStepIs
<1>3. PICK r \in WriterRow :
        /\ writer' = [writer EXCEPT ![w] = r]
        /\ \/ r = IdleWriter /\ "upsert" \in {"record", "auto_forward"}
           \/ /\ r.mail = o.mail /\ r.read = o.read
              /\ Len(o.todo) # 1 /\ Step(r) = Head(Tail(o.todo))
  BY <1>1, Advanced
<1>4. r.mail = m /\ r.read = o.read /\ Step(r) = "record"
  BY <1>2, <1>3, TodoSteps
<1>5. /\ writer' \in [Writers -> WriterRow] /\ writer'[w] = r
      /\ \A v \in Writers \ {w} : writer'[v] = writer[v]
  BY <1>1, <1>3, Continued
<1>6. point' \in [Mails -> Point] /\ point'[m] = o.read
      /\ \A n \in Mails \ {m} : point'[n] = point[n]
  BY <1>1, <1>2 DEF RoutingTypeOK, WriterRow
<1>7. RoutingTypeOK'
  BY <1>1, <1>2, <1>4, <1>5, <1>6 DEF RoutingTypeOK
<1>8. WorkOK(m)'
  BY <1>1, <1>2, <1>4, <1>5, WorkStays DEF RoutingInv
<1>9. IndexOK(m)'
  <2>1. \A v \in Writers : /\ At(v, m, {"upsert", "record"})' <=> At(v, m, {"upsert", "record"})
                           /\ writer'[v].read = writer[v].read
    BY <1>2, <1>4, <1>5 DEF At
  <2>2. At(w, m, {"upsert", "record"})
    BY <1>2 DEF At
  <2>3. At(w, m, {"work_item", "read", "upsert", "record"})'
    BY <1>4, <1>5 DEF At
  <2>4. m \notin aside["index"] => o.read = PointOf(assignment[m])
    BY <1>2, <2>2 DEF RoutingInv, IndexOK
  <2>. QED  BY <1>1, <1>2, <1>6, <2>1, <2>3, <2>4 DEF RoutingInv, IndexOK
<1>10. OnlyAt(w, m) /\ \A n \in Mails \ {m} : SameMail(n)
  BY <1>1, <1>4, <1>5, <1>6 DEF OnlyAt, SameMail
<1>. QED  BY <1>2, <1>7, <1>8, <1>9, <1>10, OneMail

(* The record is written; the point is that of the assignment, or another  *)
(* writer has yet to write it.                                             *)
LEMMA SaveIndexRecordStep ==
  ASSUME RoutingInv, NEW w \in Writers, NEW m, m = writer[w].mail, SaveIndexRecord(w)
  PROVE  RoutingInv'
<1>. DEFINE o == writer[w]
            s == [o EXCEPT !.todo = Tail(o.todo), !.read = NoPoint]
            r == IF Len(o.todo) = 1 THEN IdleWriter ELSE s
<1>1. RoutingTypeOK /\ AtStep(w, "record")
      /\ record' = [record EXCEPT ![m] = o.read]
      /\ UNCHANGED <<item, assignment, point, aside>>
  BY DEF RoutingInv, SaveIndexRecord, vars
<1>2. /\ Step(o) = "record" /\ o \in WriterRow /\ m \in Mails
      /\ o.todo \in Todos \ {<<>>} /\ Head(o.todo) = "record"
  BY <1>1, AtStepIs
<1>3. writer' = [writer EXCEPT ![w] = r]
  BY <1>1 DEF RoutingTypeOK, SaveIndexRecord
<1>4. /\ r \in WriterRow
      /\ Step(r) = "idle" \/ (Step(r) = "auto_forward" /\ r.mail = m)
  <2>1. CASE Len(o.todo) = 1
    BY <2>1, IdleIsIdle
  <2>2. CASE Len(o.todo) # 1
    <3>1. Tail(o.todo) \in Todos \ {<<>>} /\ Head(Tail(o.todo)) = "auto_forward"
      BY <1>2, <2>2, TodoSteps
    <3>2. s \in WriterRow /\ s.mail = m /\ s.todo = Tail(o.todo)
      BY <1>2, <3>1 DEF WriterRow, Point, NoPoint
    <3>. HIDE DEF s
    <3>3. Step(s) = "auto_forward"
      BY <3>1, <3>2 DEF Step
    <3>. QED  BY <2>2, <3>2, <3>3
  <2>. QED  BY <2>1, <2>2
<1>. HIDE DEF r
<1>5. /\ writer' \in [Writers -> WriterRow] /\ writer'[w] = r
      /\ \A v \in Writers \ {w} : writer'[v] = writer[v]
  BY <1>1, <1>3, <1>4, Continued
<1>6. record' \in [Mails -> Point] /\ record'[m] = o.read
      /\ \A n \in Mails \ {m} : record'[n] = record[n]
  BY <1>1, <1>2 DEF RoutingTypeOK, WriterRow
<1>7. RoutingTypeOK'
  BY <1>1, <1>2, <1>4, <1>5, <1>6 DEF RoutingTypeOK
<1>8. WorkOK(m)'
  BY <1>1, <1>2, <1>4, <1>5, WorkStays DEF RoutingInv
<1>9. IndexOK(m)'
  <2>1. \A v \in Writers : /\ At(v, m, {"upsert", "record"})' => At(v, m, {"upsert", "record"})
                           /\ At(v, m, {"upsert", "record"})' => writer'[v] = writer[v]
                           /\ At(v, m, {"work_item", "read", "upsert"})
                                => At(v, m, {"work_item", "read", "upsert"})'
    BY <1>2, <1>4, <1>5 DEF At
  <2>2. At(w, m, {"upsert", "record"})
    BY <1>2 DEF At
  <2>3. m \notin aside["index"] => o.read = PointOf(assignment[m])
    BY <1>2, <2>2 DEF RoutingInv, IndexOK
  <2>. QED  BY <1>1, <1>2, <1>6, <2>1, <2>3 DEF RoutingInv, IndexOK
<1>10. OnlyAt(w, m) /\ \A n \in Mails \ {m} : SameMail(n)
  BY <1>1, <1>4, <1>5, <1>6 DEF OnlyAt, SameMail
<1>. QED  BY <1>2, <1>7, <1>8, <1>9, <1>10, OneMail

-----------------------------------------------------------------------------
LEMMA WriterStep ==
  ASSUME RoutingInv, NEW w \in Writers,
         \/ EnsureWorkItem(w) \/ MarkForwarded(w) \/ MarkAutoForwarded(w) \/ AutoForwardRefused(w)
         \/ LoadCase(w) \/ SkipTrashed(w)
         \/ UpsertPoint(w) \/ SaveIndexRecord(w) \/ IndexFails(w) \/ WriterEnds(w)
  PROVE  RoutingInv'
<1>. DEFINE m == writer[w].mail
<1>0. RoutingTypeOK
  BY DEF RoutingInv
<1>1. CASE EnsureWorkItem(w)  BY <1>1, EnsureWorkItemStep
<1>2. CASE MarkForwarded(w)
  BY <1>2, SetForwardedStep DEF MarkForwarded, vars
<1>3. CASE MarkAutoForwarded(w)
  BY <1>3, SetForwardedStep DEF MarkAutoForwarded, vars
<1>4. CASE AutoForwardRefused(w)  BY <1>4, AutoForwardRefusedStep
<1>5. CASE LoadCase(w)  BY <1>5, LoadCaseStep
<1>6. ASSUME NEW step \in {"read", "upsert", "record"}, AtStep(w, step), EndPass(w),
             PutAside(m, {"index"}), UNCHANGED <<item, assignment, point, record>>
      PROVE  RoutingInv'
  <2>1. Step(writer[w]) # "work_item" /\ m \in Mails
    BY <1>0, <1>6, AtStepIs
  <2>2. PICK r \in WriterRow : /\ writer' = [writer EXCEPT ![w] = r]
                               /\ \/ r = IdleWriter
                                  \/ r.mail = writer[w].mail /\ Step(r) = "auto_forward"
    BY <1>0, <1>6, PassEnded
  <2>3. Step(r) \in {"idle", "auto_forward"} /\ (Step(r) # "idle" => r.mail = m)
    BY <2>2, IdleIsIdle
  <2>. QED  BY <1>6, <2>1, <2>2, <2>3, GivenUpStep
<1>7. CASE SkipTrashed(w)
  BY <1>6, <1>7 DEF SkipTrashed, vars
<1>8. CASE UpsertPoint(w)  BY <1>8, UpsertPointStep
<1>9. CASE SaveIndexRecord(w)  BY <1>9, SaveIndexRecordStep
<1>10. CASE IndexFails(w)
  BY <1>6, <1>10 DEF IndexFails, vars
<1>11. CASE WriterEnds(w)
  <2>1. /\ Busy(w) /\ writer' = [writer EXCEPT ![w] = IdleWriter] /\ PutAside(m, {"work", "index"})
        /\ UNCHANGED <<item, assignment, point, record>>
    BY <1>11 DEF WriterEnds, vars
  <2>2. writer[w] \in WriterRow /\ writer[w].todo # <<>>
    BY <1>0, <2>1 DEF RoutingTypeOK, Busy
  <2>3. Step(writer[w]) # "idle"
    BY <2>2, TodoSteps DEF WriterRow, Step
  <2>4. m \in Mails
    BY <1>0, <2>3 DEF RoutingTypeOK
  <2>. QED  BY <2>1, <2>4, IdleIsIdle, GivenUpStep
<1>. QED  BY <1>1, <1>2, <1>3, <1>4, <1>5, <1>7, <1>8, <1>9, <1>10, <1>11

LEMMA MailStep ==
  ASSUME RoutingInv, NEW w \in Writers, NEW m \in Mails,
         \/ \E user \in Users \cup {NoUser} : ApplyDecision(w, m, user)
         \/ \E user \in Users : AssignByHand(w, m, user)
         \/ Forward(w, m) \/ Sweep(w, m) \/ Reindex(w, m)
  PROVE  RoutingInv'
<1>1. CASE \E user \in Users \cup {NoUser} : ApplyDecision(w, m, user)
  BY <1>1, ApplyDecisionStep
<1>2. CASE \E user \in Users : AssignByHand(w, m, user)
  BY <1>2, AssignByHandStep
<1>3. CASE Forward(w, m)
  <2>1. ForwardSteps \in Todos \ {<<>>} /\ Head(ForwardSteps) = "forward"
    BY DEF Todos, ForwardSteps
  <2>. QED  BY <1>3, <2>1, BeginStep DEF Forward, vars
<1>4. CASE Sweep(w, m)
  <2>1. <<"auto_forward">> \in Todos \ {<<>>} /\ Head(<<"auto_forward">>) = "auto_forward"
    BY DEF Todos
  <2>. QED  BY <1>4, <2>1, BeginStep DEF Sweep, vars
<1>5. CASE Reindex(w, m)
  <2>1. IndexSteps \in Todos \ {<<>>} /\ Head(IndexSteps) = "read"
    BY DEF Todos, IndexSteps
  <2>. QED  BY <1>5, <2>1, BeginStep DEF Reindex, vars
<1>. QED  BY <1>1, <1>2, <1>3, <1>4, <1>5

LEMMA NextHolds ==
  ASSUME RoutingInv, [RoutingNext]_routingVars
  PROVE  RoutingInv'
<1>1. ASSUME UNCHANGED <<item, assignment, point, record, writer, aside>>
      PROVE  RoutingInv'
  BY <1>1 DEF RoutingInv, RoutingTypeOK, WorkOK, IndexOK, At, Has
<1>2. CASE UNCHANGED routingVars
  BY <1>1, <1>2 DEF routingVars, caseVars, vars
<1>3. CASE \E m \in Mails : SaveRun(m) \/ TrashOrRestore(m)
  BY <1>1, <1>3 DEF SaveRun, TrashOrRestore, vars
<1>. QED  BY <1>2, <1>3, WriterStep, MailStep DEF RoutingNext

LEMMA RoutingInvariant == RoutingSpec => []RoutingInv
<1>. QED  BY InitHolds, NextHolds, PTL DEF RoutingSpec

LEMMA RestIsIdle ==
  ASSUME NEW m \in Mails, AtRest(m), NEW w \in Writers, NEW steps, "idle" \notin steps
  PROVE  ~At(w, m, steps)
  BY DEF AtRest, Busy, At, Step

(* However decisions, people, forwards, sweeps, command lines, faults and  *)
(* the death of writers interleave, with any number of writers, the work   *)
(* item of a mail at rest is that of the person's assignment               *)
(* (ensure_for_assignment after assign_review_required_mail).              *)
THEOREM WorkItemIsFollowed == RoutingSpec => []WorkItemFollows
<1>1. RoutingInv => WorkItemFollows
  BY RestIsIdle DEF RoutingInv, WorkOK, WorkItemFollows, RoutingTypeOK
<1>. QED  BY <1>1, RoutingInvariant, PTL

(* Likewise the point that retrieval shows and the record of it            *)
(* (sync_assignment_index, index_email).                                   *)
THEOREM IndexIsFollowed == RoutingSpec => []IndexFollows
<1>1. RoutingInv => IndexFollows
  BY RestIsIdle DEF RoutingInv, IndexOK, IndexFollows
<1>. QED  BY <1>1, RoutingInvariant, PTL

-----------------------------------------------------------------------------
(* The whole: writers assign, forward and index while the operators press  *)
(* the buttons of their pages and the mailbox is synchronised.             *)
Operating ==
  \/ \E m \in Mails, u \in Users : Work(m, u)
  \/ \E m \in Mails : SendInThread(m)
  \/ SyncOutbound
  \/ SyncInbox
WholeNext == RoutingNext \/ (Operating /\ UNCHANGED caseVars)
WholeSpec == RoutingInit /\ [][WholeNext]_routingVars

(* An operator's work leaves every item with its assignee.                 *)
LEMMA OperatingKeepsAssignees ==
  ASSUME TypeOK, Operating
  PROVE  /\ item' \in [Mails -> Item \cup {NoItem}]
         /\ \A m \in Mails : Has(m) => Has(m)' /\ item'[m].assignee = item[m].assignee
<1>1. CASE \E m \in Mails : SendInThread(m)
  BY <1>1 DEF SendInThread, TypeOK, Has
<1>2. CASE SyncOutbound \/ SyncInbox
  BY <1>2 DEF SyncOutbound, SyncInbox, TypeOK, Has
<1>3. CASE \E m \in Mails, u \in Users : Work(m, u)
  <2>1. PICK m \in Mails, u \in Users : Work(m, u)
    BY <1>3
  <2>2. \E type \in EventTypes, row \in Item : WorkStep(m, type, row)
    BY <2>1, AcknowledgeWorks, SwitchWorks, ReplyWorks, CompletionWorks DEF Work
  <2>3. PICK type \in EventTypes, row \in Item : WorkStep(m, type, row)
    BY <2>2
  <2>4. item' = [item EXCEPT ![m] = row] /\ row.assignee = item[m].assignee
    BY <2>3 DEF WorkStep, Record
  <2>5. item' \in [Mails -> Item \cup {NoItem}]
    BY <2>4 DEF TypeOK
  <2>6. ASSUME NEW n \in Mails, Has(n)
        PROVE  Has(n)' /\ item'[n].assignee = item[n].assignee
    BY <2>4, <2>6, NoItemIsNotAnItem DEF TypeOK, Has
  <2>. QED  BY <2>5, <2>6
<1>. QED  BY <1>1, <1>2, <1>3 DEF Operating

LEMMA WholeStep ==
  ASSUME RoutingInv, TypeOK, [WholeNext]_routingVars
  PROVE  RoutingInv'
<1>1. CASE [RoutingNext]_routingVars
  BY <1>1, NextHolds
<1>2. CASE Operating /\ UNCHANGED caseVars
  <2>1. UNCHANGED <<assignment, point, record, writer, aside>>
    BY <1>2 DEF caseVars
  <2>2. /\ item' \in [Mails -> Item \cup {NoItem}]
        /\ \A m \in Mails : Has(m) => Has(m)' /\ item'[m].assignee = item[m].assignee
    BY <1>2, OperatingKeepsAssignees
  <2>3. RoutingTypeOK'
    BY <2>1, <2>2 DEF RoutingInv, RoutingTypeOK
  <2>4. \A m \in Mails : WorkOK(m)'
    BY <2>1, <2>2 DEF RoutingInv, WorkOK, At
  <2>5. \A m \in Mails : IndexOK(m)'
    BY <2>1 DEF RoutingInv, IndexOK, At
  <2>. QED  BY <2>3, <2>4, <2>5 DEF RoutingInv
<1>. QED  BY <1>1, <1>2 DEF WholeNext

(* What the writers do to a work item is ensure_for_assignment.            *)
LEMMA WritersEnsure ==
  ASSUME RoutingInv, [WholeNext]_routingVars
  PROVE  [Next]_vars
<1>1. CASE UNCHANGED routingVars
  BY <1>1 DEF routingVars
<1>2. CASE Operating
  BY <1>2 DEF Operating, Next
<1>3. CASE RoutingNext
  <2>1. ASSUME NEW w \in Writers, EnsureWorkItem(w)  PROVE [Next]_vars
    <3>1. AtStep(w, "work_item") /\ RoutingTypeOK
      BY <2>1 DEF EnsureWorkItem, RoutingInv
    <3>2. /\ writer[w].mail \in Mails
          /\ \/ UNCHANGED vars
             \/ EnsureForAssignment(writer[w].mail, writer[w].user)
      BY <2>1, <3>1, AtStepIs DEF EnsureWorkItem
    <3>3. writer[w].user \in Users \cup {NoUser}
      BY DEF RoutingInv, RoutingTypeOK, WriterRow
    <3>. QED  BY <3>2, <3>3 DEF Next
  <2>2. ASSUME NEW w \in Writers,
               \/ MarkForwarded(w) \/ MarkAutoForwarded(w) \/ AutoForwardRefused(w)
               \/ LoadCase(w) \/ SkipTrashed(w)
               \/ UpsertPoint(w) \/ SaveIndexRecord(w) \/ IndexFails(w) \/ WriterEnds(w)
        PROVE  UNCHANGED vars
    BY <2>2 DEF MarkForwarded, MarkAutoForwarded, AutoForwardRefused, LoadCase, SkipTrashed,
                UpsertPoint, SaveIndexRecord, IndexFails, WriterEnds
  <2>3. ASSUME NEW w \in Writers, NEW m \in Mails,
               \/ \E user \in Users \cup {NoUser} : ApplyDecision(w, m, user)
               \/ \E user \in Users : AssignByHand(w, m, user)
               \/ Forward(w, m) \/ Sweep(w, m) \/ Reindex(w, m)
        PROVE  UNCHANGED vars
    BY <2>3 DEF ApplyDecision, AssignByHand, Forward, Sweep, Reindex
  <2>4. ASSUME NEW m \in Mails, SaveRun(m) \/ TrashOrRestore(m)  PROVE UNCHANGED vars
    BY <2>4 DEF SaveRun, TrashOrRestore
  <2>. QED  BY <1>3, <2>1, <2>2, <2>3, <2>4 DEF RoutingNext
<1>. QED  BY <1>1, <1>2, <1>3 DEF WholeNext

(* The whole does to work items only what WorkTracking allows, whoever     *)
(* assigns: its theorems hold of the whole.                                *)
THEOREM WholeImplementsWork == WholeSpec => Spec
<1>1. RoutingInit => Init
  BY DEF RoutingInit
<1>2. RoutingInit => RoutingInv
  BY InitHolds
<1>3. Init => TypeOK
  BY InitTyped
<1>4. RoutingInv /\ TypeOK /\ [WholeNext]_routingVars => RoutingInv' /\ TypeOK' /\ [Next]_vars
  BY WholeStep, WritersEnsure, StepTyped
<1>. QED  BY <1>1, <1>2, <1>3, <1>4, PTL DEF WholeSpec, Spec

(* Progress shown of a work item is the present assignee's and on record,  *)
(* however the mail is assigned meanwhile.                                 *)
THEOREM WholeProgressHasRecord == WholeSpec => []ProgressOnRecord
  BY WholeImplementsWork, ProgressHasRecord, PTL

(* The work of operators parts neither a work item nor the index from the  *)
(* assignment it follows.                                                  *)
THEOREM WholeFollows == WholeSpec => []WorkItemFollows /\ []IndexFollows
<1>1. RoutingInit => RoutingInv /\ TypeOK
  BY InitHolds, InitTyped DEF RoutingInit
<1>2. RoutingInv /\ TypeOK /\ [WholeNext]_routingVars => RoutingInv' /\ TypeOK'
  BY WholeStep, WritersEnsure, StepTyped
<1>3. RoutingInv => WorkItemFollows /\ IndexFollows
  BY RestIsIdle DEF RoutingInv, WorkOK, IndexOK, WorkItemFollows, IndexFollows, RoutingTypeOK
<1>. QED  BY <1>1, <1>2, <1>3, PTL DEF WholeSpec
=============================================================================
