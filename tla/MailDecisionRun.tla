-------------------------- MODULE MailDecisionRun --------------------------
(***************************************************************************)
(* The Mail Decision workflow of ONE mail: its mail_decision_runs rows, the *)
(* executions (API requests, job workers, analysis threads) that drive them *)
(* node by node, the routing assignment they write, and the people who      *)
(* assign the mail by hand in between.                                      *)
(*                                                                          *)
(* Every database transaction of the code is one action.  What a node       *)
(* computes (LLM output, retrieval hits, scores) is a choice of the         *)
(* outcomes its handler can return.  Mails do not share any of this state,  *)
(* so one mail is the whole system as far as these rows are concerned.      *)
(***************************************************************************)
EXTENDS Integers, FiniteSets

CONSTANTS
    Procs,        \* executions: request threads and workers of any process
    Users,        \* active operators a mail can be assigned to
    MaxRuns,      \* bound on the mail_decision_runs rows of the mail
    MaxCalls,     \* bound on the operations started by the outside world
    MaxCrashes,   \* bound on executions that die between two transactions
    MaxErrors     \* bound on exceptions raised by a handler or by the store

ASSUME UsersAssumption == "none" \notin Users /\ "review" \notin Users
ASSUME BoundsAssumption == MaxRuns \in Nat /\ MaxCalls \in Nat
                           /\ MaxCrashes \in Nat /\ MaxErrors \in Nat

VARIABLES
    created,      \* how many runs were inserted; run ids are 1..created
    row,          \* mail_decision_runs: status column and state_json
    assignment,   \* the mail's row of routing_assignments
    autoTo,       \* recipient of the notification "auto-route:<mail>", or "none"
    workItem,     \* assignee of the mail's work_items row, or "none"
    pc,           \* where each execution stands
    run,          \* the run an execution drives (0: none)
    st,           \* its in-memory MailDecisionRunState
    seen,         \* a user it read or was given earlier, or "none"
    calls, crashes, errors    \* used part of the three budgets

rows   == <<created, row>>
local  == <<pc, run, st, seen>>
budget == <<calls, crashes, errors>>
vars   == <<rows, assignment, autoTo, workItem, local, budget>>

----------------------------------------------------------------------------
(* DEFAULT_SEQUENCE of the orchestrator; 0 is current_node = None.          *)
NoNode == 0
LoadMailContext == 1
AnalyzeAttachments == 2
ExtractFacts == 3
PlanRetrieval == 4
RetrieveContext == 5
EvaluateContext == 6
GenerateDecision == 7
GenerateCandidates == 8
ValidateDecision == 9
PersistResult == 10
Nodes == 1..10

RunIds == 1..MaxRuns
Someone == Users \cup {"none"}

Status == {"queued", "running", "review_required", "auto_assigned",
           "completed", "failed"}
(* The statuses covered by the partial unique index on email_message_id.    *)
Active == {"queued", "running", "review_required"}

(* MailDecisionRunState: the parts of the JSON that later steps depend on.  *)
State == [status : Status, node : Nodes \cup {NoNode},
          facts : BOOLEAN, retrieval : {"none", "sufficient", "insufficient"},
          decision : BOOLEAN, routing : Users \cup {"none", "review"}]

NewState == [status |-> "queued", node |-> NoNode, facts |-> FALSE,
             retrieval |-> "none", decision |-> FALSE, routing |-> "none"]

Absent == [status |-> "absent", json |-> NewState]

Unassigned == [user |-> "none", status |-> "none", source |-> "none",
               fixed |-> FALSE]

Where == {"idle", "reset", "start", "node", "apply", "forward", "save", "final",
          "fail", "ensure", "sweep"}

RowsOK ==
    /\ created \in 0..MaxRuns
    /\ row \in [RunIds -> [status : Status \cup {"absent"}, json : State]]
    /\ \A r \in RunIds : row[r].status = "absent" <=> r > created

RoutingOK ==
    /\ assignment \in [user : Someone,
                       status : {"none", "assigned", "review_required", "forwarded"},
                       source : {"none", "mail_decision_policy", "user"},
                       fixed : BOOLEAN]
    /\ autoTo \in Someone
    /\ workItem \in Someone

LocalOK ==
    /\ pc \in [Procs -> Where]
    /\ run \in [Procs -> 0..MaxRuns]
    /\ st \in [Procs -> State]
    /\ seen \in [Procs -> Someone]

BudgetOK ==
    /\ calls \in 0..MaxCalls
    /\ crashes \in 0..MaxCrashes
    /\ errors \in 0..MaxErrors

(* The tables hold what the schema allows, the executions what the code can *)
(* hold in memory.                                                          *)
TypeOK == RowsOK /\ RoutingOK /\ LocalOK /\ BudgetOK

Init ==
    /\ created = 0
    /\ row = [r \in RunIds |-> Absent]
    /\ assignment = Unassigned
    /\ autoTo = "none"
    /\ workItem = "none"
    /\ pc = [p \in Procs |-> "idle"]
    /\ run = [p \in Procs |-> 0]
    /\ st = [p \in Procs |-> NewState]
    /\ seen = [p \in Procs |-> "none"]
    /\ calls = 0 /\ crashes = 0 /\ errors = 0

----------------------------------------------------------------------------
(* Local moves of an execution.                                             *)

Goto(p, where, r, s) ==
    /\ pc'  = [pc EXCEPT ![p] = where]
    /\ run' = [run EXCEPT ![p] = r]
    /\ st'  = [st EXCEPT ![p] = s]

Return(p) ==
    /\ Goto(p, "idle", 0, NewState)
    /\ seen' = [seen EXCEPT ![p] = "none"]

Call == calls < MaxCalls /\ calls' = calls + 1

(* save_run: one UPDATE of status column and state_json.  The unique index  *)
(* refuses an active status while another run of the mail has one.          *)
ConflictRunning(r, s) ==          \* mutation: index over running rows only
    s.status = "running" /\ \E q \in RunIds \ {r} : row[q].status = "running"

Conflict(r, s) ==
    s.status \in Active /\ \E q \in RunIds \ {r} : row[q].status \in Active

Save(r, s) == row' = [row EXCEPT ![r] = [status |-> s.status, json |-> s]]

Review(s) == [s EXCEPT !.status = "review_required"]

----------------------------------------------------------------------------
(* create_or_get_active_run, then the reset of a run waiting for review.    *)

CreateRun(p) ==
    /\ pc[p] = "idle"
    /\ Call
    /\ created < MaxRuns
    /\ \A r \in RunIds : row[r].status \notin Active
    /\ created' = created + 1
    /\ row' = [row EXCEPT ![created + 1] = [status |-> "queued", json |-> NewState]]
    /\ Goto(p, "start", created + 1, NewState)
    /\ UNCHANGED <<assignment, autoTo, workItem, seen, crashes, errors>>

JoinRun(p) ==
    /\ pc[p] = "idle"
    /\ Call
    /\ \E r \in RunIds :
         /\ row[r].status \in Active
         /\ IF row[r].json.status = "review_required"
            THEN Goto(p, "reset", r, NewState)
            ELSE Goto(p, "start", r, row[r].json)
    /\ UNCHANGED <<rows, assignment, autoTo, workItem, seen, crashes, errors>>

Reset(p) ==
    /\ pc[p] = "reset"
    /\ IF Conflict(run[p], st[p])
       THEN /\ Return(p)
            /\ UNCHANGED row
       ELSE /\ Save(run[p], st[p])
            /\ pc' = [pc EXCEPT ![p] = "start"]
            /\ UNCHANGED <<run, st, seen>>
    /\ UNCHANGED <<created, assignment, autoTo, workItem, budget>>

(* resume: a completed run is returned as it is, decided on state_json;     *)
(* every other run is executed again from its saved node.                   *)
ResumeRun(p) ==
    /\ pc[p] = "idle"
    /\ Call
    /\ \E r \in 1..created :
         /\ row[r].json.status # "completed"
         /\ Goto(p, "start", r, row[r].json)
    /\ UNCHANGED <<rows, assignment, autoTo, workItem, seen, crashes, errors>>

----------------------------------------------------------------------------
(* The orchestrator.                                                        *)

FirstNodeNext(s) ==               \* mutation: resume after the saved node
    IF s.node = NoNode THEN LoadMailContext ELSE s.node + 1

FirstNode(s) == IF s.node = NoNode THEN LoadMailContext ELSE s.node

Start(p) ==
    LET s == [st[p] EXCEPT !.status = "running"] IN
    /\ pc[p] = "start"
    /\ IF Conflict(run[p], s)
       THEN /\ Return(p)
            /\ UNCHANGED row
       ELSE /\ Save(run[p], s)
            /\ Goto(p, "node", run[p], [s EXCEPT !.node = FirstNode(s)])
            /\ UNCHANGED seen
    /\ UNCHANGED <<created, assignment, autoTo, workItem, budget>>

(* What the handler of node n may return for state s.  The two outcomes     *)
(* that write the assignment (review in node 8, node 10) are actions below. *)
HasInputs(n, s) ==
    /\ n \in {PlanRetrieval, RetrieveContext, GenerateDecision, GenerateCandidates}
         => s.facts
    /\ n \in {EvaluateContext, GenerateDecision, GenerateCandidates}
         => s.retrieval # "none"
    /\ n = GenerateCandidates => s.decision
    /\ n = ValidateDecision => s.routing \in Users

Decided(s) ==
    LET d == [s EXCEPT !.decision = TRUE] IN
    {Review(d)} \cup {x \in {d} : s.retrieval = "sufficient"}

Results(n, s) ==
    {x \in {[s EXCEPT !.facts = TRUE]} : n \in {LoadMailContext, ExtractFacts}}
    \cup {x \in {[s EXCEPT !.retrieval = c] : c \in {"sufficient", "insufficient"}} :
             n = RetrieveContext}
    \cup {x \in Decided(s) : n = GenerateDecision}
    \cup {x \in {[s EXCEPT !.routing = u, !.status = "auto_assigned"] : u \in Users} :
             n = GenerateCandidates}
    \cup {x \in {s} : n \in {AnalyzeAttachments, PlanRetrieval, EvaluateContext,
                             ValidateDecision}}

Outcomes(n, s) == IF HasInputs(n, s) THEN Results(n, s) ELSE {Review(s)}

(* The loop's tail: save after the node, then stop for review, go on to the *)
(* next node, or finish.  A refused save ends in the except branch.         *)
SaveNode(p, s) ==
    IF Conflict(run[p], s)
    THEN /\ Goto(p, "fail", run[p], s)
         /\ UNCHANGED <<row, seen>>
    ELSE /\ Save(run[p], s)
         /\ IF s.status = "review_required"
            THEN Return(p)
            ELSE /\ IF s.node = PersistResult
                    THEN Goto(p, "final", run[p],
                              [s EXCEPT !.status = "completed", !.node = NoNode])
                    ELSE Goto(p, "node", run[p], [s EXCEPT !.node = @ + 1])
                 /\ UNCHANGED seen

NodeStep(p) ==
    /\ pc[p] = "node"
    /\ st[p].node # PersistResult
    /\ \E s \in Outcomes(st[p].node, st[p]) : SaveNode(p, s)
    /\ UNCHANGED <<created, assignment, autoTo, workItem, budget>>

(* _generate_routing_candidates when the policy wants a human: the decision *)
(* is kept in the state, then apply_decision overwrites the assignment.     *)
RouteToReview(p) ==
    /\ pc[p] = "node"
    /\ st[p].node = GenerateCandidates
    /\ HasInputs(GenerateCandidates, st[p])
    /\ Goto(p, "apply", run[p], [st[p] EXCEPT !.routing = "review"])
    /\ UNCHANGED <<rows, assignment, autoTo, workItem, seen, budget>>

ApplyDecision(user, status) ==
    assignment' = [assignment EXCEPT !.user = user, !.status = status,
                                     !.source = "mail_decision_policy"]

ApplyReview(p) ==
    /\ pc[p] = "apply"
    /\ ApplyDecision("none", "review_required")
    /\ Goto(p, "save", run[p], Review(st[p]))
    /\ UNCHANGED <<rows, autoTo, workItem, seen, budget>>

(* _persist_routing_result: apply_decision, then mark_auto_forwarded.       *)
PersistAssignOnly(p) ==           \* mutation: does not forward
    /\ pc[p] = "node"
    /\ st[p].node = PersistResult
    /\ st[p].routing \in Users
    /\ ApplyDecision(st[p].routing, "assigned")
    /\ Goto(p, "save", run[p], st[p])
    /\ UNCHANGED <<rows, autoTo, workItem, seen, budget>>

PersistAssign(p) ==
    /\ pc[p] = "node"
    /\ st[p].node = PersistResult
    /\ st[p].routing \in Users
    /\ ApplyDecision(st[p].routing, "assigned")
    /\ Goto(p, "forward", run[p], st[p])
    /\ UNCHANGED <<rows, autoTo, workItem, seen, budget>>

(* mark_auto_forwarded: the idempotency key of the notification is unique,  *)
(* the assignment becomes forwarded whoever holds it by now.                *)
ForwardAgain(user) ==             \* mutation: no idempotency key
    /\ autoTo' = user
    /\ assignment' = [assignment EXCEPT !.status = "forwarded"]

Forward(user) ==
    /\ autoTo = "none"
    /\ autoTo' = user
    /\ assignment' = [assignment EXCEPT !.status = "forwarded"]

MarkForward(p) ==
    /\ pc[p] = "forward"
    /\ \/ /\ Forward(st[p].routing)
          /\ Goto(p, "save", run[p], st[p])
       \/ /\ autoTo # "none"
          /\ Goto(p, "fail", run[p], st[p])
          /\ UNCHANGED <<assignment, autoTo>>
    /\ UNCHANGED <<rows, workItem, seen, budget>>

SaveAfter(p) ==
    /\ pc[p] = "save"
    /\ SaveNode(p, st[p])
    /\ UNCHANGED <<created, assignment, autoTo, workItem, budget>>

Final(p) ==
    /\ pc[p] = "final"
    /\ Save(run[p], st[p])
    /\ Return(p)
    /\ UNCHANGED <<created, assignment, autoTo, workItem, budget>>

FailUnsaved(p) ==                 \* mutation: the failure is not saved
    /\ pc[p] = "fail"
    /\ Return(p)
    /\ UNCHANGED <<rows, assignment, autoTo, workItem, budget>>

Fail(p) ==
    /\ pc[p] = "fail"
    /\ Save(run[p], [st[p] EXCEPT !.status = "failed"])
    /\ Return(p)
    /\ UNCHANGED <<created, assignment, autoTo, workItem, budget>>

(* An exception inside the try block: from start_step or the handler (the   *)
(* state as it was), or from complete_step or save_run (as it became).      *)
StepError(p) ==
    /\ pc[p] \in {"node", "apply", "forward", "save", "final"}
    /\ errors < MaxErrors
    /\ errors' = errors + 1
    /\ \E s \in {st[p]} \cup
                (IF pc[p] = "node" /\ st[p].node # PersistResult
                 THEN Outcomes(st[p].node, st[p]) ELSE {}) :
         Goto(p, "fail", run[p], s)
    /\ UNCHANGED <<rows, assignment, autoTo, workItem, seen, calls, crashes>>

(* The execution dies, or a write outside the try block fails: whatever was *)
(* committed stays, whatever was in memory is gone.                         *)
Crash(p) ==
    /\ pc[p] # "idle"
    /\ crashes < MaxCrashes
    /\ crashes' = crashes + 1
    /\ Return(p)
    /\ UNCHANGED <<rows, assignment, autoTo, workItem, calls, errors>>

----------------------------------------------------------------------------
(* assign_review_required_mail: allowed when the assignment or the latest   *)
(* run waits for review; closes that run in the status column only.         *)
Latest == row[created]

LatestInReview == created > 0 /\ Latest.status = "review_required"

ManualAssign(p, u) ==
    /\ pc[p] = "idle"
    /\ Call
    /\ assignment.status = "review_required" \/ LatestInReview
    /\ assignment' = [user |-> u, status |-> "assigned", source |-> "user",
                      fixed |-> TRUE]
    /\ row' = IF LatestInReview
              THEN [row EXCEPT ![created].status = "completed"]
              ELSE row
    /\ pc' = [pc EXCEPT ![p] = "ensure"]
    /\ seen' = [seen EXCEPT ![p] = u]
    /\ UNCHANGED <<created, autoTo, workItem, run, st, crashes, errors>>

(* ... and, in a transaction of its own, ensure_for_assignment.             *)
EnsureWork(p) ==
    /\ pc[p] = "ensure"
    /\ workItem' = seen[p]
    /\ Return(p)
    /\ UNCHANGED <<rows, assignment, autoTo, budget>>

(* forward_auto_assigned_without_notification, run by every mail listing:   *)
(* one SELECT, then mark_auto_forwarded with the assignee it returned.      *)
SweepRead(p) ==
    /\ pc[p] = "idle"
    /\ Call
    /\ assignment.status = "assigned"
    /\ autoTo = "none"
    /\ created > 0
    /\ Latest.status = "auto_assigned" \/ Latest.json.routing \in Users
    /\ pc' = [pc EXCEPT ![p] = "sweep"]
    /\ seen' = [seen EXCEPT ![p] = assignment.user]
    /\ UNCHANGED <<rows, assignment, autoTo, workItem, run, st, crashes, errors>>

SweepMark(p) ==
    /\ pc[p] = "sweep"
    /\ \/ Forward(seen[p])
       \/ autoTo # "none" /\ UNCHANGED <<assignment, autoTo>>
    /\ Return(p)
    /\ UNCHANGED <<rows, workItem, budget>>

----------------------------------------------------------------------------
(* What an execution does by itself once it was called.                     *)
Proceed(p) ==
    \/ Reset(p) \/ Start(p) \/ NodeStep(p)
    \/ RouteToReview(p) \/ ApplyReview(p) \/ PersistAssign(p) \/ MarkForward(p)
    \/ SaveAfter(p) \/ Final(p) \/ Fail(p)
    \/ EnsureWork(p) \/ SweepMark(p)

Next ==
    \E p \in Procs :
        \/ CreateRun(p) \/ JoinRun(p) \/ ResumeRun(p)
        \/ Proceed(p)
        \/ StepError(p) \/ Crash(p)
        \/ SweepRead(p)
        \/ \E u \in Users : ManualAssign(p, u)

Spec == Init /\ [][Next]_vars

(* A called execution keeps running: threads of the server and the worker   *)
(* loop are scheduled by the operating system, no step of theirs waits for  *)
(* another execution.  Calls, errors and crashes are never owed.            *)
FairSpec == Spec /\ \A p \in Procs : WF_vars(Proceed(p))

----------------------------------------------------------------------------
(* Properties.                                                              *)

(* At most one run of the mail is queued, running or waiting for review:    *)
(* every save of every execution goes through the partial unique index.     *)
OneActiveRun ==
    \A q, r \in RunIds :
        row[q].status \in Active /\ row[r].status \in Active => q = r

(* The state a run is resumed from is complete: whatever node it continues  *)
(* at, the results of the nodes before it are in state_json, whichever      *)
(* execution wrote it last and wherever the previous one stopped.           *)
Complete(s) ==
    /\ s.node > LoadMailContext => s.facts
    /\ s.node > RetrieveContext => s.retrieval # "none"
    /\ s.node > GenerateDecision => s.decision
    /\ s.node > GenerateCandidates => s.routing # "none"
    /\ s.node > ValidateDecision => s.routing \in Users

ResumeContextComplete ==
    /\ \A r \in RunIds : Complete(row[r].json)
    /\ \A p \in Procs : Complete(st[p])

(* A run the orchestrator reports completed has forwarded the mail.         *)
CompletedRunForwarded ==
    \A r \in RunIds : row[r].json.status = "completed" => autoTo # "none"

(* However often the mail is analysed again, at most one run of it ever     *)
(* completes automatically: the notification's idempotency key stops every  *)
(* second one at the last node, concurrent or not.                          *)
AtMostOneCompletion ==
    \A q, r \in RunIds :
        row[q].json.status = "completed" /\ row[r].json.status = "completed"
            => q = r

(* Unless an execution dies, nobody has to look after a run: one that is    *)
(* queued, running or auto_assigned always has an execution that will still *)
(* save it, so it settles (exceptions included).                            *)
Unsettled == {"queued", "running", "auto_assigned"}

RunsSettle ==
    \A r \in RunIds :
        row[r].status \in Unsettled ~> row[r].status \notin Unsettled \/ crashes > 0
=============================================================================
