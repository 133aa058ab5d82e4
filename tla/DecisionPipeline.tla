-------------------------- MODULE DecisionPipeline --------------------------
(***************************************************************************)
(* One execution after the other works through the ten nodes of the Mail    *)
(* Decision of ONE mail, now with what the nodes read and write: facts,     *)
(* retrieval cycles, the decision, candidates and assignment.  It may die   *)
(* or fail between any two transactions and be resumed, while operators     *)
(* are deactivated and the settings change.                                 *)
(*                                                                          *)
(* The module implements MailDecisionRun for one execution at a time; the   *)
(* definitions named like there are its counterparts with the data added.   *)
(***************************************************************************)
EXTENDS RoutingPolicy

CONSTANTS
    None,         \* an absent value
    Extracts,     \* what the model may find in the mail, beyond Grounded
    Grounded,     \* the facts found without a model (extract_grounded)
    General,      \* the type of a mail whose facts name none
    MaxRuns,
    MaxCalls,     \* bound on requests, of users and of administrators
    MaxFaults     \* bound on exceptions and deaths of the execution

ASSUME FactsAssumption == Extracts \subseteq Facts /\ Grounded \in Facts /\ General \in Types
ASSUME BoundsAssumption == MaxRuns \in Nat /\ MaxCalls \in Nat /\ MaxFaults \in Nat

(* retrieval_context and routing_decision as they are kept in state_json.   *)
Context == [sufficient : BOOLEAN, selected : SUBSET Hit]
Routing == [choice : Users \cup {"review"}, ranking : Seq(Users)]
ASSUME NoneAssumption == None \notin Facts \cup Context \cup Decision \cup Routing

VARIABLES
    created, row, assignment, autoTo, workItem,   \* as in MailDecisionRun
    pc, run, st, seen,       \* the execution
    next,                    \* the state its handler has returned
    query,                   \* its retrieval: cycle, queries to come, hits
    factsRow,                \* the current row of mail_facts
    candidates,              \* [run id -> rows of routing_candidates]
    traces,                  \* rows of retrieval_traces
    active,                  \* operators that are active
    policy,                  \* the routing settings
    calls, crashes, errors, changes

tables == <<created, row, factsRow, candidates, traces, assignment, autoTo, workItem>>
others == <<active, policy, changes>>
budget == <<calls, crashes, errors>>
vars   == <<tables, pc, run, st, seen, next, query, others, budget>>

----------------------------------------------------------------------------
LoadMailContext == 1
AnalyzeAttachments == 2
ExtractFacts == 3
PlanRetrieval == 4
RetrieveContext == 5
EvaluateContext == 6
GenerateDecision == 7
GenerateCandidates == 8
ValidateDecision == 9
PersistResult == 10

RunIds == 1..MaxRuns
Active == {"queued", "running", "review_required"}

(* incomplete: attachment_review_reasons; reason: review_reason; blocked:   *)
(* routing_blockers; warned: the attachments' entry of the warnings.        *)
NewState == [status |-> "queued", node |-> 0, facts |-> None, incomplete |-> FALSE,
             reason |-> "none", context |-> None, blocked |-> FALSE,
             decision |-> None, routing |-> None, warned |-> FALSE]

IsState(s) ==
    /\ DOMAIN s = DOMAIN NewState
    /\ s.status \in Active \cup {"auto_assigned", "completed", "failed"}
    /\ s.node \in 0..PersistResult
    /\ s.facts \in Facts \cup {None}
    /\ s.reason \in {"none", "missing", "attachments", "decision", "policy"}
    /\ s.context # None => s.context \in Context
    /\ s.decision \in Decision \cup {None}
    /\ s.routing # None => s.routing.choice \in Users \cup {"review"}
    /\ {s.incomplete, s.blocked, s.warned} \subseteq BOOLEAN

NoQuery == [cycle |-> 0, todo |-> <<>>, hits |-> {}]

TypeOK ==
    /\ created \in 0..MaxRuns
    /\ DOMAIN row = RunIds /\ \A r \in RunIds : IsState(row[r].json)
    /\ factsRow # None => factsRow.run \in 1..created /\ factsRow.facts \in Facts
    /\ DOMAIN candidates = RunIds
    /\ \A t \in traces : t.run \in 1..created /\ t.included \in BOOLEAN
    /\ IsState(st) /\ (next # None => IsState(next))
    /\ pc \in {"idle", "reset", "start", "node", "query", "handled", "apply",
               "forward", "save", "final", "fail", "ensure"}
    /\ query.cycle \in 0..MaxCycles /\ Len(query.todo) <= PlanLimit
    /\ active \subseteq Users /\ policy \in Policies

Init ==
    /\ created = 0
    /\ row = [r \in RunIds |-> [status |-> "absent", json |-> NewState]]
    /\ assignment = [user |-> "none", status |-> "none", source |-> "none", fixed |-> FALSE]
    /\ autoTo = "none" /\ workItem = "none"
    /\ pc = "idle" /\ run = 0 /\ st = NewState /\ seen = "none"
    /\ next = None /\ query = NoQuery
    /\ factsRow = None /\ traces = {}
    /\ candidates = [r \in RunIds |-> <<>>]
    /\ active = Users /\ policy \in Policies
    /\ calls = 0 /\ crashes = 0 /\ errors = 0 /\ changes = 0

----------------------------------------------------------------------------
(* The execution's moves, its saves and its calls.                          *)
Goto(where, r, s) == pc' = where /\ run' = r /\ st' = s

Return == Goto("idle", 0, NewState) /\ seen' = "none"

Call == calls + changes < MaxCalls /\ calls' = calls + 1

Conflict(r, s) ==
    s.status \in Active /\ \E q \in RunIds \ {r} : row[q].status \in Active

Save(r, s) == row' = [row EXCEPT ![r] = [status |-> s.status, json |-> s]]

ReviewFor(s, why) == [s EXCEPT !.status = "review_required", !.reason = why]

Evidences == <<factsRow, candidates, traces>>
Working == <<next, query>>

CreateRun ==
    /\ pc = "idle" /\ Call /\ created < MaxRuns
    /\ \A r \in RunIds : row[r].status \notin Active
    /\ created' = created + 1
    /\ row' = [row EXCEPT ![created + 1] = [status |-> "queued", json |-> NewState]]
    /\ Goto("start", created + 1, NewState)
    /\ UNCHANGED <<Evidences, assignment, autoTo, workItem, seen, Working, others,
                   crashes, errors>>

(* A run that waits for review is joined with an emptied context.           *)
JoinRun ==
    /\ pc = "idle" /\ Call
    /\ \E r \in RunIds :
         /\ row[r].status \in Active
         /\ IF row[r].json.status = "review_required"
            THEN Goto("reset", r, NewState)
            ELSE Goto("start", r, row[r].json)
    /\ UNCHANGED <<tables, seen, Working, others, crashes, errors>>

Reset ==
    /\ pc = "reset"
    /\ IF Conflict(run, st)
       THEN Return /\ UNCHANGED row
       ELSE Save(run, st) /\ pc' = "start" /\ UNCHANGED <<run, st, seen>>
    /\ UNCHANGED <<created, Evidences, assignment, autoTo, workItem, Working, others, budget>>

ResumeRun ==
    /\ pc = "idle" /\ Call
    /\ \E r \in 1..created :
         /\ row[r].json.status # "completed"
         /\ Goto("start", r, row[r].json)
    /\ UNCHANGED <<tables, seen, Working, others, crashes, errors>>

FirstNode(s) == IF s.node = 0 THEN LoadMailContext ELSE s.node

Start ==
    LET s == [st EXCEPT !.status = "running"] IN
    /\ pc = "start"
    /\ IF Conflict(run, s)
       THEN Return /\ UNCHANGED row
       ELSE /\ Save(run, s)
            /\ Goto("node", run, [s EXCEPT !.node = FirstNode(s)])
            /\ UNCHANGED seen
    /\ UNCHANGED <<created, Evidences, assignment, autoTo, workItem, Working, others, budget>>

(* The tail of the loop, from a state the handler returned.                 *)
SaveNode(s) ==
    IF Conflict(run, s)
    THEN Goto("fail", run, s) /\ UNCHANGED <<row, seen>>
    ELSE /\ Save(run, s)
         /\ IF s.status = "review_required"
            THEN Return
            ELSE /\ IF s.node = PersistResult
                    THEN Goto("final", run, [s EXCEPT !.status = "completed", !.node = 0])
                    ELSE Goto("node", run, [s EXCEPT !.node = @ + 1])
                 /\ UNCHANGED seen

----------------------------------------------------------------------------
(* The handlers.  One that has written what it writes to the tables has     *)
(* returned its state; complete_step and save_run follow.                   *)
AtNode(n) == pc = "node" /\ st.node = n

Handled(s) == pc' = "handled" /\ next' = s

HandledOnly(s) ==
    /\ Handled(s)
    /\ UNCHANGED <<tables, run, st, seen, query, others, budget>>

Requires(present, s) == IF present THEN s ELSE ReviewFor(st, "missing")

LoadMail ==
    /\ AtNode(LoadMailContext)
    /\ HandledOnly([st EXCEPT !.facts = [names |-> {}, types |-> {}, actions |-> FALSE,
                                         contradictory |-> FALSE]])

AnalyzeAll ==
    /\ AtNode(AnalyzeAttachments)
    /\ \E blocking \in BOOLEAN :
         HandledOnly(IF blocking
                     THEN [st EXCEPT !.incomplete = TRUE, !.reason = "attachments"]
                     ELSE st)

(* What the model finds is merged with what the text says by itself; when   *)
(* the model fails, that is all there is, and its type is a general one.    *)
Merge(f, g) == [names |-> f.names \cup g.names, types |-> f.types \cup g.types,
                actions |-> f.actions \/ g.actions, contradictory |-> f.contradictory]

Extracted ==
    {Merge(f, Grounded) : f \in Extracts}
    \cup {[Grounded EXCEPT !.types = IF @ = {} THEN {General} ELSE @]}

Extract ==
    /\ AtNode(ExtractFacts)
    /\ \E f \in Extracted :
         /\ Handled([st EXCEPT !.facts = f])
         /\ factsRow' = [run |-> run, facts |-> f]
    /\ UNCHANGED <<created, row, candidates, traces, assignment, autoTo, workItem,
                   run, st, seen, query, others, budget>>

PlanFirst ==
    /\ AtNode(PlanRetrieval)
    /\ HandledOnly(Requires(st.facts # None, st))

(* AgenticRetrievalService.execute: the queries of a cycle one by one, each *)
(* with its traces; a similarity search may fail and finds nothing then.    *)
BeginRetrieval ==
    /\ AtNode(RetrieveContext)
    /\ IF st.facts = None
       THEN Handled(ReviewFor(st, "missing")) /\ UNCHANGED query
       ELSE /\ pc' = "query"
            /\ query' = [cycle |-> 1, todo |-> Plan(st.facts, 1), hits |-> {}]
            /\ UNCHANGED next
    /\ UNCHANGED <<tables, run, st, seen, others, budget>>

Trace(id, included) == [run |-> run, id |-> id, included |-> included]

RunQuery ==
    /\ pc = "query" /\ query.todo # <<>>
    /\ \E hits \in Results(Head(query.todo), active,
                           IF assignment.user = "none" THEN Nobody ELSE assignment.user) :
         /\ query' = [query EXCEPT !.todo = Tail(@), !.hits = @ \cup hits]
         /\ traces' = traces \cup {Trace(h.id, FALSE) : h \in {x \in hits : Trace(x.id, TRUE) \notin traces}}
    /\ UNCHANGED <<created, row, factsRow, candidates, assignment, autoTo, workItem,
                   pc, run, st, seen, next, others, budget>>

NextCycle ==
    /\ pc = "query" /\ query.todo = <<>>
    /\ ~Sufficient(st.facts, query.hits) /\ query.cycle < MaxCycles
    /\ query' = [query EXCEPT !.cycle = @ + 1, !.todo = Plan(st.facts, query.cycle + 1)]
    /\ UNCHANGED <<tables, pc, run, st, seen, next, others, budget>>

(* The best hits go to the prompt, their traces are marked, and they are    *)
(* what the context is judged by.                                           *)
MarkOnce(hits) ==                   \* mutation: a run is marked only once
    IF \E t \in traces : t.run = run /\ t.included THEN traces
    ELSE {IF t.run = run THEN Trace(t.id, t.id \in {h.id : h \in hits}) ELSE t : t \in traces}

Mark(hits) == {IF t.run = run /\ t.id \in {h.id : h \in hits} THEN Trace(t.id, TRUE) ELSE t
                : t \in traces}

EndRetrieval ==
    /\ pc = "query" /\ query.todo = <<>>
    /\ Sufficient(st.facts, query.hits) \/ query.cycle = MaxCycles
    /\ \E s \in Selections(query.hits) :
         /\ traces' = Mark(s)
         /\ Handled([st EXCEPT !.context = [sufficient |-> Sufficient(st.facts, s),
                                            selected |-> s]])
    /\ query' = NoQuery
    /\ UNCHANGED <<created, row, factsRow, candidates, assignment, autoTo, workItem,
                   run, st, seen, others, budget>>

EvaluateSilently(s) == s            \* mutation: insufficiency has no consequence

Evaluated(s) == IF s.context.sufficient THEN s ELSE [s EXCEPT !.blocked = TRUE]

Evaluate ==
    /\ AtNode(EvaluateContext)
    /\ HandledOnly(IF st.context = None THEN ReviewFor(st, "missing") ELSE Evaluated(st))

(* The decision of the model, or without it; a blocked context needs a      *)
(* review.  (Its rows of email_analysis_results are those of AnalysisJobs.) *)
Blocking(d) == [d EXCEPT !.review = @ \/ st.blocked]

Decided(d) ==
    IF d.review THEN ReviewFor([st EXCEPT !.decision = d], "decision")
                ELSE [st EXCEPT !.decision = d]

GenerateTheDecision ==
    /\ AtNode(GenerateDecision)
    /\ IF st.facts = None \/ st.context = None
       THEN HandledOnly(ReviewFor(st, "missing"))
       ELSE \E d \in Decide(st.facts) \cup FallbackDecision(st.facts, General) :
              HandledOnly(Decided(Blocking(d)))

(* _generate_routing_candidates: active operators are ranked and stored.    *)
Chosen(r) ==
    IF Assigns(r, st.facts, st.decision, st.context.selected, policy) THEN r[1] ELSE "review"

(* An assignment in spite of incomplete attachments is warned about, if     *)
(* review_reason still names them.                                          *)
KeepReason(s) == s                  \* mutation: the warning is forgotten

Warned(s) == IF s.reason = "attachments"
             THEN [s EXCEPT !.warned = TRUE, !.reason = "none"]
             ELSE s

(* save_candidates: the ranking replaces the one of an earlier execution.   *)
StoreCandidates(r) == candidates' = [candidates EXCEPT ![run] = r]

RankUsers ==
    /\ AtNode(GenerateCandidates)
    /\ IF st.facts = None \/ st.decision = None \/ st.context = None
       THEN HandledOnly(ReviewFor(st, "missing"))
       ELSE \E r \in Rankings(active, st.facts, st.decision.type, st.context.selected) :
              LET s == [st EXCEPT !.routing = [choice |-> Chosen(r), ranking |-> r]] IN
              /\ StoreCandidates(r)
              /\ IF s.routing.choice = "review"
                 THEN Goto("apply", run, s) /\ UNCHANGED next
                 ELSE /\ Handled([Warned(s) EXCEPT !.status = "auto_assigned"])
                      /\ UNCHANGED <<run, st>>
              /\ UNCHANGED <<created, row, factsRow, traces, assignment, autoTo, workItem,
                             seen, query, others, budget>>

Validate ==
    /\ AtNode(ValidateDecision)
    /\ HandledOnly(Requires(st.routing # None /\ st.routing.choice \in Users, st))

SaveHandled ==
    /\ pc = "handled"
    /\ SaveNode(next)
    /\ next' = None
    /\ UNCHANGED <<created, Evidences, assignment, autoTo, workItem, query, others, budget>>

----------------------------------------------------------------------------
(* The assignment, its forwarding and the end of the run.                   *)
ApplyDecision(user, status) ==
    assignment' = [assignment EXCEPT !.user = user, !.status = status,
                                     !.source = "mail_decision_policy"]

ApplyReview ==
    /\ pc = "apply"
    /\ ApplyDecision("none", "review_required")
    /\ Goto("save", run, ReviewFor(st, "policy"))
    /\ UNCHANGED <<created, row, Evidences, autoTo, workItem, seen, Working, others, budget>>

PersistAssign ==
    /\ AtNode(PersistResult)
    /\ st.routing # None /\ st.routing.choice \in Users
    /\ ApplyDecision(st.routing.choice, "assigned")
    /\ Goto("forward", run, st)
    /\ UNCHANGED <<created, row, Evidences, autoTo, workItem, seen, Working, others, budget>>

MarkForwardAgain ==                 \* mutation: no idempotency key
    /\ pc = "forward"
    /\ autoTo' = st.routing.choice
    /\ assignment' = [assignment EXCEPT !.status = "forwarded"]
    /\ Goto("save", run, st)
    /\ UNCHANGED <<created, row, Evidences, workItem, seen, Working, others, budget>>

MarkForward ==
    /\ pc = "forward"
    /\ IF autoTo = "none"
       THEN /\ autoTo' = st.routing.choice
            /\ assignment' = [assignment EXCEPT !.status = "forwarded"]
            /\ Goto("save", run, st)
       ELSE Goto("fail", run, st) /\ UNCHANGED <<autoTo, assignment>>
    /\ UNCHANGED <<created, row, Evidences, workItem, seen, Working, others, budget>>

SaveAfter ==
    /\ pc = "save"
    /\ SaveNode(st)
    /\ UNCHANGED <<created, Evidences, assignment, autoTo, workItem, Working, others, budget>>

Final ==
    /\ pc = "final"
    /\ Save(run, st)
    /\ Return
    /\ UNCHANGED <<created, Evidences, assignment, autoTo, workItem, Working, others, budget>>

Fail ==
    /\ pc = "fail"
    /\ Save(run, [st EXCEPT !.status = "failed"])
    /\ Return
    /\ UNCHANGED <<created, Evidences, assignment, autoTo, workItem, Working, others, budget>>

----------------------------------------------------------------------------
Fault == crashes + errors < MaxFaults

(* Exceptions: before a handler has changed the state, or after it has.     *)
(* Facts are put into the state before they are stored.                     *)
Broken ==
    {st} \cup {x \in {next} : pc = "handled"}
         \cup {x \in {[st EXCEPT !.facts = f] : f \in Extracted} : AtNode(ExtractFacts)}

StepError ==
    /\ pc \in {"node", "query", "handled", "apply", "forward", "save", "final"}
    /\ Fault /\ errors' = errors + 1
    /\ \E s \in Broken : Goto("fail", run, s)
    /\ next' = None /\ query' = NoQuery
    /\ UNCHANGED <<tables, seen, others, calls, crashes>>

Crash ==
    /\ pc # "idle"
    /\ Fault /\ crashes' = crashes + 1
    /\ Return
    /\ next' = None /\ query' = NoQuery
    /\ UNCHANGED <<tables, others, calls, errors>>

(* A person assigns a mail that waits for review, to an active operator.    *)
LatestInReview == created > 0 /\ row[created].status = "review_required"

ManualAssign ==
    /\ pc = "idle" /\ Call
    /\ assignment.status = "review_required" \/ LatestInReview
    /\ \E u \in active :
         /\ assignment' = [user |-> u, status |-> "assigned", source |-> "user", fixed |-> TRUE]
         /\ seen' = u
    /\ row' = IF LatestInReview THEN [row EXCEPT ![created].status = "completed"] ELSE row
    /\ pc' = "ensure"
    /\ UNCHANGED <<created, Evidences, autoTo, workItem, run, st, Working, others, crashes, errors>>

EnsureWork ==
    /\ pc = "ensure"
    /\ workItem' = seen
    /\ Return
    /\ UNCHANGED <<created, row, Evidences, assignment, autoTo, Working, others, budget>>

(* Administration meanwhile: an operator is deactivated or comes back, or   *)
(* other settings of the policy are saved.                                  *)
Change == calls + changes < MaxCalls /\ changes' = changes + 1

SetUserStatus ==
    /\ Change
    /\ \E u \in Users : active' = IF u \in active THEN active \ {u} ELSE active \cup {u}
    /\ UNCHANGED <<tables, pc, run, st, seen, Working, policy, budget>>

SaveSettings ==
    /\ Change
    /\ policy' \in Policies \ {policy}
    /\ UNCHANGED <<tables, pc, run, st, seen, Working, active, budget>>

Handler ==
    \/ LoadMail \/ AnalyzeAll \/ Extract \/ PlanFirst
    \/ BeginRetrieval \/ RunQuery \/ NextCycle \/ EndRetrieval
    \/ Evaluate \/ GenerateTheDecision \/ RankUsers \/ Validate

Proceed ==
    \/ Reset \/ Start \/ Handler \/ SaveHandled
    \/ ApplyReview \/ PersistAssign \/ MarkForward \/ SaveAfter
    \/ Final \/ Fail \/ EnsureWork

Next ==
    \/ CreateRun \/ JoinRun \/ ResumeRun \/ Proceed
    \/ StepError \/ Crash \/ ManualAssign
    \/ SetUserStatus \/ SaveSettings

Spec == Init /\ [][Next]_vars

----------------------------------------------------------------------------
(* The detailed workflow implements MailDecisionRun: without the data, each *)
(* of its steps is a step of a single execution there, or nothing happens.  *)
Plain(s) == [status |-> s.status, node |-> s.node, facts |-> s.facts # None,
             retrieval |-> IF s.context = None THEN "none"
                           ELSE IF s.context.sufficient THEN "sufficient" ELSE "insufficient",
             decision |-> s.decision # None,
             routing |-> IF s.routing = None THEN "none" ELSE s.routing.choice]

Executor == "executor"
One(x) == [p \in {Executor} |-> x]

PlainRow == [r \in RunIds |-> [status |-> row[r].status, json |-> Plain(row[r].json)]]
PlainPc == One(IF pc \in {"query", "handled"} THEN "node" ELSE pc)
PlainRun == One(run)
PlainSt == One(Plain(st))
PlainSeen == One(seen)

Run == INSTANCE MailDecisionRun WITH
    Procs <- {Executor}, MaxCrashes <- MaxFaults, MaxErrors <- MaxFaults,
    row <- PlainRow, pc <- PlainPc, run <- PlainRun, st <- PlainSt, seen <- PlainSeen

ImplementsRun == Run!Spec

(* A mail is assigned without a person only on a decision of the model that *)
(* asked for no review, from facts without contradictions and evidence that *)
(* was sufficient, whatever was resumed, retried or changed on the way.     *)
Past(n, s) == s.node > n \/ s.status = "completed"

AutoAssignSupported ==
    \A s \in {row[r].json : r \in RunIds} \cup {st} :
        Past(GenerateCandidates, s) /\ s.routing.choice \in Users => /\ s.decision.mode = "llm" /\ ~s.decision.review
                        /\ ~s.facts.contradictory
                        /\ s.context.sufficient /\ ~s.blocked

(* What the tables show of a run is what the run goes on with: its current  *)
(* facts, its candidates, and a marked trace for everything in the prompt.  *)
RowsMatchState ==
    \A r \in 1..created :
        LET s == row[r].json IN
        /\ Past(ExtractFacts, s) /\ factsRow.run = r => factsRow.facts = s.facts
        /\ Past(GenerateCandidates, s) => candidates[r] = s.routing.ranking
        /\ Past(RetrieveContext, s) =>
             \A h \in s.context.selected : [run |-> r, id |-> h.id, included |-> TRUE] \in traces

(* Attachments that could not be read are noted on every mail assigned      *)
(* automatically, unless the run was once stopped for another reason.       *)
IncompleteNoted ==
    \A r \in 1..created :
        LET s == row[r].json IN
        s.incomplete /\ s.status \in {"auto_assigned", "completed"}
            => s.warned \/ s.reason \in {"decision", "policy"}
=============================================================================
