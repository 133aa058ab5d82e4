----------------------- MODULE DecisionPipelineProofs -----------------------
(* Theorems about DecisionPipeline, for all facts, stores, settings and     *)
(* bounds.  What a state of the workflow may claim depends on the nodes it  *)
(* has passed: whatever was resumed, a node that is repeated replaces what  *)
(* it wrote before anything later is trusted again.                         *)
EXTENDS DecisionPipeline, FiniteSetTheorems, SequenceTheorems, TLAPS

(* The last node that a state has passed, and that the state which a        *)
(* handler has returned is going to have passed once it is saved.           *)
Passed(s) == IF s.status = "completed" THEN PersistResult ELSE s.node - 1
PassedAfter(s) == IF s.status = "review_required" THEN s.node - 1 ELSE s.node

(* What a state s of run r may claim of the tables f, c and t (factsRow,    *)
(* candidates, traces) and of itself, node by node.                         *)
FactsAgree(f, r, s) == s.facts # None /\ (f.run = r => f.facts = s.facts)
ContextTraced(t, r, s) ==
    /\ s.context # None
    /\ \A h \in s.context.selected : [run |-> r, id |-> h.id, included |-> TRUE] \in t
BlockedUnlessSufficient(s) == s.context.sufficient \/ s.blocked
DecisionStands(s) ==
    s.decision # None /\ s.decision.mode = "llm" /\ ~s.decision.review /\ ~s.blocked
RoutingStands(c, r, s) ==
    /\ s.routing # None /\ s.routing.choice \in Users /\ c[r] = s.routing.ranking
    /\ ~s.facts.contradictory /\ s.reason # "attachments"

ReasonKept(s) ==
    /\ s.incomplete => s.warned \/ s.reason \in {"attachments", "decision", "policy"}
    /\ s.status = "auto_assigned" => s.node >= GenerateCandidates /\ s.reason # "attachments"

Sound(f, c, t, r, s, passed) ==
    /\ IsState(s) /\ ReasonKept(s)
    /\ passed >= ExtractFacts => FactsAgree(f, r, s)
    /\ passed >= RetrieveContext => ContextTraced(t, r, s)
    /\ passed >= EvaluateContext => BlockedUnlessSufficient(s)
    /\ passed >= GenerateDecision => DecisionStands(s)
    /\ passed >= GenerateCandidates => RoutingStands(c, r, s)

SoundNow(r, s, passed) == Sound(factsRow, candidates, traces, r, s, passed)

(* The parts of the inductive invariant: the rows, the other tables, the    *)
(* state of the execution, what its handler has returned, its retrieval,    *)
(* and where it stands.                                                     *)
RowsOK ==
    /\ created \in 0..MaxRuns /\ DOMAIN row = RunIds
    /\ \A r \in RunIds : r > created => row[r].status \notin Active
    /\ \A r \in RunIds : /\ DOMAIN row[r] = {"status", "json"}
                         /\ SoundNow(r, row[r].json, Passed(row[r].json))

TablesOK ==
    /\ factsRow # None => factsRow.run \in 1..created /\ factsRow.facts \in Facts
    /\ DOMAIN candidates = RunIds
    /\ \A t \in traces : t.run \in 1..created /\ t.included \in BOOLEAN
    /\ DOMAIN assignment = {"user", "status", "source", "fixed"}
    /\ assignment.user \in Users \cup {"none"}
    /\ active \subseteq Users /\ policy \in Policies

Executing == {"reset", "start", "node", "query", "handled", "apply", "forward", "save",
              "final", "fail"}
AtWork == {"node", "query", "handled", "apply", "forward", "save"}

StateOK ==
    /\ pc \in Executing \cup {"idle", "ensure"}
    /\ IF pc \in Executing THEN IsState(st) ELSE st = NewState
    /\ pc \in Executing => run \in 1..created /\ SoundNow(run, st, Passed(st))

NextOK ==
    /\ next # None => IsState(next)
    /\ pc = "handled" =>
         /\ SoundNow(run, next, PassedAfter(next))
         /\ next.node = st.node /\ next.node # PersistResult /\ next.status # "completed"

QueryOK ==
    /\ query.cycle \in 0..MaxCycles
    /\ DOMAIN query = {"cycle", "todo", "hits"}
    /\ query.hits \subseteq Hit
    /\ pc = "query" =>
         /\ st.node = RetrieveContext /\ st.facts # None
         /\ \A h \in query.hits : \E b \in BOOLEAN : Trace(h.id, b) \in traces

PlacedOK ==
    /\ pc \in AtWork =>
         /\ st.status # "completed" /\ row[run].json.status # "completed"
         /\ st.node >= 1 /\ row[run].json.node <= st.node
    /\ pc = "apply" => st.node = GenerateCandidates
    /\ pc = "forward" => st.node = PersistResult
    /\ pc = "save" => st.node = PersistResult \/ st.status = "review_required"

PipelineInv == RowsOK /\ TablesOK /\ StateOK /\ NextOK /\ QueryOK /\ PlacedOK

----------------------------------------------------------------------------
(* Changing fields of a state.                                              *)
Statuses == Active \cup {"auto_assigned", "completed", "failed"}
Reasons == {"none", "missing", "attachments", "decision", "policy"}

(* What a claim is about besides tables, status, node and reason.           *)
SameData(x, s) ==
    /\ x.facts = s.facts /\ x.context = s.context /\ x.decision = s.decision
    /\ x.routing = s.routing /\ x.incomplete = s.incomplete /\ x.blocked = s.blocked
    /\ x.warned = s.warned

LEMMA StateFields ==
    ASSUME NEW s, IsState(s)
    PROVE  /\ s.status \in Statuses /\ s.node \in 0..10 /\ s.reason \in Reasons
           /\ s.incomplete \in BOOLEAN /\ s.blocked \in BOOLEAN /\ s.warned \in BOOLEAN
           /\ Passed(s) \in Int /\ Passed(s) <= 10
           /\ PassedAfter(s) \in Int /\ PassedAfter(s) <= 10
  BY DEF IsState, Statuses, Reasons, PersistResult, Passed, PassedAfter

LEMMA NewIsSound ==
    ASSUME NEW f, NEW c, NEW t, NEW r
    PROVE  IsState(NewState) /\ Sound(f, c, t, r, NewState, Passed(NewState))
  BY DEF IsState, NewState, Active, PersistResult, Sound, Passed, ReasonKept, ExtractFacts,
         RetrieveContext, EvaluateContext, GenerateDecision, GenerateCandidates

LEMMA StatusSet ==
    ASSUME NEW s, IsState(s), NEW status \in Statuses
    PROVE  LET x == [s EXCEPT !.status = status]
           IN  /\ IsState(x) /\ SameData(x, s)
               /\ x.status = status /\ x.node = s.node /\ x.reason = s.reason
  BY DEF IsState, NewState, Statuses, SameData

LEMMA NodeSet ==
    ASSUME NEW s, IsState(s), NEW n \in 0..10
    PROVE  LET x == [s EXCEPT !.node = n]
           IN  /\ IsState(x) /\ SameData(x, s)
               /\ x.status = s.status /\ x.node = n /\ x.reason = s.reason
  BY DEF IsState, NewState, PersistResult, SameData

LEMMA EndSet ==
    ASSUME NEW s, IsState(s)
    PROVE  LET x == [s EXCEPT !.status = "completed", !.node = 0]
           IN  /\ IsState(x) /\ SameData(x, s)
               /\ x.status = "completed" /\ x.node = 0 /\ x.reason = s.reason
  BY DEF IsState, NewState, PersistResult, SameData

LEMMA ReviewSet ==
    ASSUME NEW s, IsState(s), NEW why \in Reasons
    PROVE  /\ IsState(ReviewFor(s, why)) /\ SameData(ReviewFor(s, why), s)
           /\ ReviewFor(s, why).status = "review_required"
           /\ ReviewFor(s, why).node = s.node /\ ReviewFor(s, why).reason = why
  BY DEF IsState, NewState, Active, Reasons, SameData, ReviewFor

LEMMA FactsSet ==
    ASSUME NEW s, IsState(s), NEW facts \in Facts
    PROVE  LET x == [s EXCEPT !.facts = facts]
           IN  /\ IsState(x) /\ x.facts = facts
               /\ x.status = s.status /\ x.node = s.node /\ x.reason = s.reason
               /\ x.incomplete = s.incomplete /\ x.warned = s.warned
  BY DEF IsState, NewState

LEMMA IncompleteSet ==
    ASSUME NEW s, IsState(s)
    PROVE  LET x == [s EXCEPT !.incomplete = TRUE, !.reason = "attachments"]
           IN  /\ IsState(x) /\ x.status = s.status /\ x.node = s.node
               /\ x.reason = "attachments"
  BY DEF IsState, NewState

LEMMA ContextSet ==
    ASSUME NEW s, IsState(s), NEW context \in Context
    PROVE  LET x == [s EXCEPT !.context = context]
           IN  /\ IsState(x) /\ x.context = context /\ x.facts = s.facts
               /\ x.status = s.status /\ x.node = s.node /\ x.reason = s.reason
               /\ x.incomplete = s.incomplete /\ x.warned = s.warned
  BY DEF IsState, NewState

LEMMA BlockedSet ==
    ASSUME NEW s, IsState(s)
    PROVE  LET x == [s EXCEPT !.blocked = TRUE]
           IN  /\ IsState(x) /\ x.blocked = TRUE /\ x.facts = s.facts /\ x.context = s.context
               /\ x.status = s.status /\ x.node = s.node /\ x.reason = s.reason
               /\ x.incomplete = s.incomplete /\ x.warned = s.warned
  BY DEF IsState, NewState

LEMMA DecisionSet ==
    ASSUME NEW s, IsState(s), NEW d \in Decision
    PROVE  LET x == [s EXCEPT !.decision = d]
           IN  /\ IsState(x) /\ x.decision = d
               /\ x.facts = s.facts /\ x.context = s.context /\ x.blocked = s.blocked
               /\ x.status = s.status /\ x.node = s.node /\ x.reason = s.reason
               /\ x.incomplete = s.incomplete /\ x.warned = s.warned
  BY DEF IsState, NewState

LEMMA RoutingSet ==
    ASSUME NEW s, IsState(s), NEW routing, routing.choice \in Users \cup {"review"}
    PROVE  LET x == [s EXCEPT !.routing = routing]
           IN  /\ IsState(x) /\ x.routing = routing
               /\ x.facts = s.facts /\ x.context = s.context /\ x.blocked = s.blocked
               /\ x.decision = s.decision
               /\ x.status = s.status /\ x.node = s.node /\ x.reason = s.reason
               /\ x.incomplete = s.incomplete /\ x.warned = s.warned
  BY DEF IsState, NewState

LEMMA WarnedSet ==
    ASSUME NEW s, IsState(s)
    PROVE  LET x == [s EXCEPT !.warned = TRUE, !.reason = "none"]
           IN  /\ IsState(x) /\ x.warned = TRUE /\ x.reason = "none"
               /\ x.facts = s.facts /\ x.context = s.context /\ x.blocked = s.blocked
               /\ x.decision = s.decision /\ x.routing = s.routing
               /\ x.status = s.status /\ x.node = s.node /\ x.incomplete = s.incomplete
  BY DEF IsState, NewState

----------------------------------------------------------------------------
(* A claim holds of every state with the same data, on what it has passed   *)
(* already; and it outlives changes of the tables that are about other runs *)
(* or about nodes that are still to come.                                   *)
LEMMA SoundAlike ==
    ASSUME NEW f, NEW c, NEW t, NEW r, NEW s, NEW x, NEW k \in Int, NEW j \in Int,
           Sound(f, c, t, r, s, k), IsState(x), SameData(x, s), ReasonKept(x), j <= k,
           j >= GenerateCandidates => x.reason # "attachments"
    PROVE  Sound(f, c, t, r, x, j)
  BY DEF Sound, SameData, FactsAgree, ContextTraced, BlockedUnlessSufficient, DecisionStands,
         RoutingStands, ExtractFacts, RetrieveContext, EvaluateContext, GenerateDecision,
         GenerateCandidates

LEMMA SoundLess ==
    ASSUME NEW f, NEW c, NEW t, NEW r, NEW s, NEW k \in Int, NEW j \in Int,
           Sound(f, c, t, r, s, k), j <= k \/ k >= GenerateCandidates
    PROVE  Sound(f, c, t, r, s, j)
  BY DEF Sound, ExtractFacts, RetrieveContext, EvaluateContext, GenerateDecision,
         GenerateCandidates

LEMMA SoundTables ==
    ASSUME NEW f, NEW c, NEW t, NEW r, NEW s, NEW k \in Int, Sound(f, c, t, r, s, k),
           NEW g, NEW d, NEW u,
           k >= ExtractFacts => g = f \/ g.run # r,
           k >= GenerateCandidates => d[r] = c[r],
           \A id : [run |-> r, id |-> id, included |-> TRUE] \in t =>
                      [run |-> r, id |-> id, included |-> TRUE] \in u
    PROVE  Sound(g, d, u, r, s, k)
  BY DEF Sound, FactsAgree, ContextTraced, RoutingStands, ExtractFacts, RetrieveContext,
         GenerateCandidates

----------------------------------------------------------------------------
(* Saving a state.                                                          *)
LEMMA RunsExist ==
    ASSUME RowsOK
    PROVE  1..created \subseteq RunIds /\ created \in Nat
  BY BoundsAssumption DEF RowsOK, RunIds

LEMMA RowsSaved ==
    ASSUME RowsOK, NEW r \in 1..created, NEW s, Save(r, s), SoundNow(r, s, Passed(s)),
           UNCHANGED <<created, factsRow, candidates, traces>>
    PROVE  RowsOK' /\ row'[r].json = s
  <1>0. r \in RunIds /\ \A q \in RunIds : q > created => q # r
    BY RunsExist
  <1>1. row'[r] = [status |-> s.status, json |-> s] /\ \A q \in RunIds \ {r} : row'[q] = row[q]
    BY <1>0 DEF Save, RowsOK
  <1>2. DOMAIN row' = RunIds /\ created' \in 0..MaxRuns
    BY DEF Save, RowsOK
  <1>3. ASSUME NEW q \in RunIds
        PROVE  /\ DOMAIN row'[q] = {"status", "json"}
               /\ Sound(factsRow, candidates, traces, q, row'[q].json, Passed(row'[q].json))
    <2>1. CASE q = r
      <3>1. row'[q].json = s /\ DOMAIN row'[q] = {"status", "json"}
        BY <1>1, <2>1
      <3>. QED
        BY <2>1, <3>1 DEF SoundNow
    <2>2. CASE q # r
      BY <1>1, <2>2 DEF RowsOK, SoundNow
    <2>. QED
      BY <2>1, <2>2
  <1>4. \A q \in RunIds : q > created => row'[q].status \notin Active
    BY <1>0, <1>1 DEF RowsOK
  <1>. QED
    BY <1>1, <1>2, <1>3, <1>4 DEF RowsOK, SoundNow, RunIds

LEMMA RowsStay ==
    ASSUME RowsOK, UNCHANGED <<created, row, factsRow, candidates, traces>>
    PROVE  RowsOK'
  BY DEF RowsOK, SoundNow, RunIds

LEMMA NodeSaved ==
    ASSUME RowsOK, NEW s, run \in 1..created, SaveNode(s), SoundNow(run, s, PassedAfter(s)),
           s.status # "completed", s.node >= 1,
           UNCHANGED <<created, factsRow, candidates, traces>>
    PROVE  RowsOK' /\ StateOK' /\ PlacedOK' /\ pc' \in {"fail", "idle", "final", "node"}
  <1>1. run \in RunIds
    BY RunsExist
  <1>2. IsState(s) /\ s.node \in 1..10 /\ PassedAfter(s) \in Int /\ Passed(s) \in Int
    BY StateFields DEF SoundNow, Sound
  <1>3. Passed(s) <= PassedAfter(s) /\ Passed(s) = s.node - 1
    BY <1>2 DEF Passed, PassedAfter
  <1>4. SoundNow(run, s, Passed(s))
    BY <1>2, <1>3, SoundLess DEF SoundNow
  <1>5. CASE Conflict(run, s)
    <2>1. pc' = "fail" /\ run' = run /\ st' = s /\ row' = row
      BY <1>5 DEF SaveNode, Goto
    <2>2. RowsOK'
      BY <2>1, RowsStay
    <2>3. StateOK'
      BY <1>2, <1>4, <2>1 DEF StateOK, SoundNow, Executing
    <2>. QED
      BY <2>1, <2>2, <2>3 DEF PlacedOK, AtWork
  <1>6. CASE ~Conflict(run, s)
    <2>1. Save(run, s)
      BY <1>6 DEF SaveNode
    <2>2. RowsOK' /\ row'[run].json = s
      BY <1>1, <1>4, <2>1, RowsSaved
    <2>3. CASE s.status = "review_required"
      <3>1. pc' = "idle" /\ st' = NewState
        BY <1>6, <2>3 DEF SaveNode, Return, Goto
      <3>. QED
        BY <2>2, <3>1, NewIsSound DEF StateOK, PlacedOK, AtWork, Executing
    <2>4. CASE s.status # "review_required" /\ s.node = PersistResult
      <3>. DEFINE x == [s EXCEPT !.status = "completed", !.node = 0]
      <3>1. pc' = "final" /\ run' = run /\ st' = x
        BY <1>6, <2>4 DEF SaveNode, Goto
      <3>2. /\ IsState(x) /\ SameData(x, s)
            /\ x.status = "completed" /\ x.node = 0 /\ x.reason = s.reason
        BY <1>2, EndSet
      <3>. HIDE DEF x
      <3>3. PassedAfter(s) = 10 /\ Passed(x) = 10
        BY <2>4, <3>2 DEF Passed, PassedAfter, PersistResult
      <3>4. ReasonKept(x) /\ x.reason # "attachments"
        BY <3>2, <3>3 DEF SoundNow, Sound, ReasonKept, RoutingStands, SameData, GenerateCandidates
      <3>5. Sound(factsRow, candidates, traces, run, x, Passed(x))
        BY <3>2, <3>3, <3>4, SoundAlike DEF SoundNow
      <3>6. StateOK'
        BY <3>1, <3>2, <3>5 DEF StateOK, SoundNow, Executing
      <3>. QED
        BY <2>2, <3>1, <3>6 DEF PlacedOK, AtWork
    <2>5. CASE s.status # "review_required" /\ s.node # PersistResult
      <3>. DEFINE x == [s EXCEPT !.node = s.node + 1]
      <3>1. pc' = "node" /\ run' = run /\ st' = x
        BY <1>6, <2>5 DEF SaveNode, Goto
      <3>2. s.node + 1 \in 0..10
        BY <1>2, <2>5 DEF PersistResult
      <3>3. /\ IsState(x) /\ SameData(x, s)
            /\ x.status = s.status /\ x.node = s.node + 1 /\ x.reason = s.reason
        BY <1>2, <3>2, NodeSet
      <3>. HIDE DEF x
      <3>4. PassedAfter(s) = s.node /\ Passed(x) = s.node
        BY <1>2, <2>5, <3>3 DEF Passed, PassedAfter
      <3>5. ReasonKept(x)
        BY <1>2, <3>3 DEF SoundNow, Sound, ReasonKept, SameData, GenerateCandidates
      <3>6. s.node >= GenerateCandidates => x.reason # "attachments"
        BY <3>3, <3>4 DEF SoundNow, Sound, RoutingStands
      <3>7. Sound(factsRow, candidates, traces, run, x, Passed(x))
        BY <1>2, <3>3, <3>4, <3>5, <3>6, SoundAlike DEF SoundNow
      <3>8. StateOK'
        BY <3>1, <3>3, <3>7 DEF StateOK, SoundNow, Executing
      <3>9. x.status # "completed" /\ x.node >= 1 /\ s.node <= x.node
        BY <1>2, <3>3
      <3>. QED
        BY <2>2, <3>1, <3>8, <3>9 DEF PlacedOK, AtWork
    <2>. QED
      BY <2>3, <2>4, <2>5
  <1>. QED
    BY <1>5, <1>6

----------------------------------------------------------------------------
(* Creating, joining, resuming and ending runs.                             *)
LEMMA TablesStay ==
    ASSUME RowsOK, TablesOK, created' \in {created, created + 1},
           UNCHANGED <<factsRow, candidates, traces, assignment, active, policy>>
    PROVE  TablesOK'
  <1>1. 1..created \subseteq 1..created'
    BY RunsExist
  <1>. QED
    BY <1>1 DEF TablesOK, RunIds

LEMMA NextStays ==
    ASSUME NextOK, next' \in {next, None}, pc' # "handled"
    PROVE  NextOK'
  BY DEF NextOK

LEMMA QueryStays ==
    ASSUME QueryOK, query' = query, pc' # "query"
    PROVE  QueryOK'
  BY DEF QueryOK

LEMMA NoQueryOK ==
    ASSUME query' = NoQuery, pc' # "query"
    PROVE  QueryOK'
  BY LimitsAssumption DEF QueryOK, NoQuery

LEMMA Returns ==
    ASSUME Return
    PROVE  StateOK' /\ PlacedOK' /\ pc' = "idle"
  BY DEF Return, Goto, StateOK, PlacedOK, Executing, AtWork

LEMMA SoundEarly ==
    ASSUME NEW f, NEW c, NEW t, NEW r, NEW s, IsState(s), ReasonKept(s),
           NEW k \in Int, k < ExtractFacts
    PROVE  Sound(f, c, t, r, s, k)
  BY DEF Sound, ExtractFacts, RetrieveContext, EvaluateContext, GenerateDecision,
         GenerateCandidates

LEMMA CreateKeeps ==
    ASSUME PipelineInv, CreateRun
    PROVE  PipelineInv'
  <1>1. created + 1 \in RunIds /\ created' = created + 1 /\ created + 1 \in 1..created'
    BY RunsExist, BoundsAssumption DEF PipelineInv, RowsOK, RunIds, CreateRun
  <1>2. /\ row'[created + 1] = [status |-> "queued", json |-> NewState] /\ DOMAIN row' = RunIds
        /\ \A q \in RunIds \ {created + 1} : row'[q] = row[q]
    BY <1>1 DEF CreateRun, PipelineInv, RowsOK
  <1>3. factsRow' = factsRow /\ candidates' = candidates /\ traces' = traces
    BY DEF CreateRun, Evidences
  <1>4. ASSUME NEW q \in RunIds
        PROVE  /\ DOMAIN row'[q] = {"status", "json"}
               /\ Sound(factsRow, candidates, traces, q, row'[q].json, Passed(row'[q].json))
    <2>1. CASE q = created + 1
      <3>1. row'[q].json = NewState /\ DOMAIN row'[q] = {"status", "json"}
        BY <1>2, <2>1
      <3>. QED
        BY <3>1, NewIsSound
    <2>2. CASE q # created + 1
      BY <1>2, <2>2 DEF PipelineInv, RowsOK, SoundNow
    <2>. QED
      BY <2>1, <2>2
  <1>5. created' \in 0..MaxRuns
    BY <1>1 DEF RunIds
  <1>6. ASSUME NEW q \in RunIds, q > created' PROVE row'[q].status \notin Active
    <2>1. q > created /\ q # created + 1
      BY <1>1, <1>6, RunsExist DEF PipelineInv, RunIds
    <2>. QED
      BY <1>2, <2>1 DEF PipelineInv, RowsOK
  <1>11. RowsOK'
    BY <1>2, <1>3, <1>4, <1>5, <1>6 DEF RowsOK, SoundNow, RunIds
  <1>7. pc' = "start" /\ run' = created + 1 /\ st' = NewState
    BY DEF CreateRun, Goto
  <1>8. StateOK' /\ PlacedOK'
    BY <1>1, <1>3, <1>7, NewIsSound DEF StateOK, SoundNow, PlacedOK, Executing, AtWork
  <1>9. TablesOK'
    BY <1>1, TablesStay DEF PipelineInv, CreateRun, Evidences, others
  <1>10. NextOK' /\ QueryOK'
    BY <1>7, NextStays, QueryStays DEF PipelineInv, CreateRun, Working
  <1>. QED
    BY <1>8, <1>9, <1>10, <1>11 DEF PipelineInv

LEMMA JoinKeeps ==
    ASSUME PipelineInv, JoinRun \/ ResumeRun
    PROVE  PipelineInv'
  <1>1. RowsOK' /\ TablesOK'
    BY RowsStay, TablesStay DEF JoinRun, ResumeRun, tables, others, PipelineInv
  <1>2. PICK r \in RunIds :
          /\ r \in 1..created /\ run' = r
          /\ pc' \in {"reset", "start"} /\ st' \in {row[r].json, NewState}
    <2>1. CASE ResumeRun
      <3>1. PICK r \in 1..created : Goto("start", r, row[r].json)
        BY <2>1 DEF ResumeRun
      <3>2. r \in RunIds
        BY RunsExist DEF PipelineInv
      <3>. QED
        BY <3>1, <3>2 DEF Goto
    <2>2. CASE JoinRun
      <3>1. PICK r \in RunIds :
              /\ row[r].status \in Active
              /\ IF row[r].json.status = "review_required"
                 THEN Goto("reset", r, NewState) ELSE Goto("start", r, row[r].json)
        BY <2>2 DEF JoinRun
      <3>2. r \in 1..created
        BY <3>1 DEF PipelineInv, RowsOK, RunIds
      <3>. QED
        BY <3>1, <3>2 DEF Goto
    <2>. QED
      BY <2>1, <2>2
  <1>3. IsState(st') /\ Sound(factsRow, candidates, traces, r, st', Passed(st'))
    <2>1. CASE st' = NewState
      BY <2>1, NewIsSound
    <2>2. CASE st' = row[r].json
      BY <2>2 DEF PipelineInv, RowsOK, SoundNow, Sound
    <2>. QED
      BY <1>2, <2>1, <2>2
  <1>4. UNCHANGED <<created, factsRow, candidates, traces, next, query>>
    BY DEF JoinRun, ResumeRun, tables, Working
  <1>5. StateOK' /\ PlacedOK'
    BY <1>2, <1>3, <1>4 DEF StateOK, SoundNow, PlacedOK, Executing, AtWork
  <1>6. NextOK' /\ QueryOK'
    BY <1>2, <1>4, NextStays, QueryStays DEF PipelineInv
  <1>. QED
    BY <1>1, <1>5, <1>6 DEF PipelineInv

(* A step at whose end no handler has returned and no query is under way.   *)
LEMMA RestKeeps ==
    ASSUME PipelineInv, RowsOK', StateOK', PlacedOK', pc' \notin {"handled", "query"},
           created' = created, next' \in {next, None}, query' \in {query, NoQuery},
           UNCHANGED <<factsRow, candidates, traces, assignment, active, policy>>
    PROVE  PipelineInv'
  <1>1. TablesOK'
    BY TablesStay DEF PipelineInv
  <1>2. NextOK' /\ QueryOK'
    BY NextStays, QueryStays, NoQueryOK DEF PipelineInv
  <1>. QED
    BY <1>1, <1>2 DEF PipelineInv

LEMMA AtRun ==
    ASSUME PipelineInv, pc \in Executing
    PROVE  /\ run \in 1..created /\ IsState(st) /\ SoundNow(run, st, Passed(st))
           /\ ReasonKept(st) /\ st.node \in 0..10 /\ Passed(st) \in Int /\ Passed(st) <= 10
           /\ st.status # "completed" => Passed(st) = st.node - 1
           /\ Passed(st) >= GenerateCandidates => st.reason # "attachments"
  <1>1. run \in 1..created /\ IsState(st) /\ SoundNow(run, st, Passed(st))
    BY DEF PipelineInv, StateOK
  <1>2. ReasonKept(st) /\ (Passed(st) >= GenerateCandidates => st.reason # "attachments")
    BY <1>1 DEF SoundNow, Sound, RoutingStands
  <1>3. st.status # "completed" => Passed(st) = st.node - 1
    BY DEF Passed
  <1>. QED
    BY <1>1, <1>2, <1>3, StateFields

LEMMA ResetKeeps ==
    ASSUME PipelineInv, Reset
    PROVE  PipelineInv'
  <1>1. run \in 1..created /\ IsState(st) /\ SoundNow(run, st, Passed(st))
    BY AtRun DEF Reset, Executing
  <1>2. UNCHANGED <<created, factsRow, candidates, traces, assignment, next, query, active, policy>>
    BY DEF Reset, Evidences, Working, others
  <1>3. CASE Conflict(run, st)
    <2>1. Return /\ row' = row
      BY <1>3 DEF Reset
    <2>2. RowsOK'
      BY <1>2, <2>1, RowsStay DEF PipelineInv
    <2>. QED
      BY <1>2, <2>1, <2>2, Returns, RestKeeps
  <1>4. CASE ~Conflict(run, st)
    <2>1. Save(run, st) /\ pc' = "start" /\ run' = run /\ st' = st
      BY <1>4 DEF Reset
    <2>2. RowsOK'
      BY <1>1, <1>2, <2>1, RowsSaved DEF PipelineInv
    <2>3. StateOK' /\ PlacedOK'
      BY <1>1, <1>2, <2>1 DEF StateOK, SoundNow, PlacedOK, Executing, AtWork
    <2>. QED
      BY <1>2, <2>1, <2>2, <2>3, RestKeeps
  <1>. QED
    BY <1>3, <1>4

LEMMA StartKeeps ==
    ASSUME PipelineInv, Start
    PROVE  PipelineInv'
  <1>. DEFINE s == [st EXCEPT !.status = "running"]
              x == [s EXCEPT !.node = FirstNode(s)]
  <1>1. pc = "start" /\ pc \in Executing
    BY DEF Start, Executing
  <1>2. UNCHANGED <<created, factsRow, candidates, traces, assignment, next, query, active, policy>>
    BY DEF Start, Evidences, Working, others
  <1>3. IF Conflict(run, s) THEN Return /\ row' = row
                            ELSE Save(run, s) /\ pc' = "node" /\ run' = run /\ st' = x
    BY DEF Start, Goto
  <1>4. "running" \in Statuses
    BY DEF Statuses, Active
  <1>5. /\ IsState(s) /\ SameData(s, st) /\ s.status = "running" /\ s.node = st.node
        /\ s.reason = st.reason
    BY <1>1, <1>4, AtRun, StatusSet
  <1>6. s.node \in 0..10 /\ FirstNode(s) \in 0..10 /\ FirstNode(s) >= 1 /\ FirstNode(s) >= s.node
    BY <1>1, <1>5, AtRun DEF FirstNode, LoadMailContext
  <1>. HIDE DEF s
  <1>7. /\ IsState(x) /\ SameData(x, s)
        /\ x.status = s.status /\ x.node = FirstNode(s) /\ x.reason = s.reason
    BY <1>5, <1>6, NodeSet
  <1>. HIDE DEF x
  <1>8. ReasonKept(s) /\ ReasonKept(x)
    BY <1>1, <1>5, <1>7, AtRun DEF ReasonKept, SameData
  <1>9. /\ Passed(s) = s.node - 1 /\ Passed(s) <= Passed(st) /\ Passed(s) \in Int
        /\ Passed(x) = x.node - 1 /\ Passed(x) \in Int
        /\ Passed(x) = Passed(s) \/ Passed(x) = 0
    BY <1>1, <1>5, <1>6, <1>7, AtRun DEF Passed, PersistResult, FirstNode, LoadMailContext
  <1>10. Passed(s) >= GenerateCandidates => s.reason # "attachments"
    BY <1>1, <1>5, <1>9, AtRun DEF GenerateCandidates
  <1>11. Sound(factsRow, candidates, traces, run, s, Passed(s))
    BY <1>1, <1>5, <1>8, <1>9, <1>10, AtRun, SoundAlike DEF SoundNow
  <1>12. Sound(factsRow, candidates, traces, run, x, Passed(x))
    <2>1. CASE Passed(x) = Passed(s)
      BY <1>7, <1>8, <1>9, <1>10, <1>11, <2>1, SoundAlike
    <2>2. CASE Passed(x) = 0
      BY <1>7, <1>8, <2>2, SoundEarly DEF ExtractFacts
    <2>. QED
      BY <1>9, <2>1, <2>2
  <1>13. CASE Conflict(run, s)
    <2>1. Return /\ row' = row
      BY <1>3, <1>13
    <2>2. RowsOK'
      BY <1>2, <2>1, RowsStay DEF PipelineInv
    <2>. QED
      BY <1>2, <2>1, <2>2, Returns, RestKeeps
  <1>14. CASE ~Conflict(run, s)
    <2>1. Save(run, s) /\ pc' = "node" /\ run' = run /\ st' = x
      BY <1>3, <1>14
    <2>2. RowsOK' /\ row'[run].json = s
      BY <1>1, <1>2, <1>11, <2>1, AtRun, RowsSaved DEF PipelineInv, SoundNow
    <2>3. StateOK'
      BY <1>1, <1>2, <1>7, <1>12, <2>1, AtRun DEF StateOK, SoundNow, Executing
    <2>4. PlacedOK'
      BY <1>5, <1>6, <1>7, <2>1, <2>2 DEF PlacedOK, AtWork
    <2>. QED
      BY <1>2, <2>1, <2>2, <2>3, <2>4, RestKeeps
  <1>. QED
    BY <1>13, <1>14

LEMMA FinalKeeps ==
    ASSUME PipelineInv, Final
    PROVE  PipelineInv'
  <1>1. pc \in Executing /\ Save(run, st) /\ Return
    BY DEF Final, Executing
  <1>2. UNCHANGED <<created, factsRow, candidates, traces, assignment, next, query, active, policy>>
    BY DEF Final, Evidences, Working, others
  <1>3. RowsOK'
    BY <1>1, <1>2, AtRun, RowsSaved DEF PipelineInv
  <1>. QED
    BY <1>1, <1>2, <1>3, Returns, RestKeeps

LEMMA FailKeeps ==
    ASSUME PipelineInv, Fail
    PROVE  PipelineInv'
  <1>. DEFINE x == [st EXCEPT !.status = "failed"]
  <1>1. pc \in Executing /\ Save(run, x) /\ Return
    BY DEF Fail, Executing
  <1>2. UNCHANGED <<created, factsRow, candidates, traces, assignment, next, query, active, policy>>
    BY DEF Fail, Evidences, Working, others
  <1>3. "failed" \in Statuses
    BY DEF Statuses
  <1>4. /\ IsState(x) /\ SameData(x, st) /\ x.status = "failed" /\ x.node = st.node
        /\ x.reason = st.reason
    BY <1>1, <1>3, AtRun, StatusSet
  <1>. HIDE DEF x
  <1>5. ReasonKept(x)
    BY <1>1, <1>4, AtRun DEF ReasonKept, SameData
  <1>6. Passed(x) \in Int /\ Passed(x) <= Passed(st)
    BY <1>1, <1>4, AtRun DEF Passed, PersistResult
  <1>7. Passed(x) >= GenerateCandidates => x.reason # "attachments"
    BY <1>1, <1>4, <1>6, AtRun DEF GenerateCandidates
  <1>8. SoundNow(run, x, Passed(x))
    BY <1>1, <1>4, <1>5, <1>6, <1>7, AtRun, SoundAlike DEF SoundNow
  <1>9. RowsOK'
    BY <1>1, <1>2, <1>8, AtRun, RowsSaved DEF PipelineInv
  <1>. QED
    BY <1>1, <1>2, <1>9, Returns, RestKeeps

LEMMA CrashKeeps ==
    ASSUME PipelineInv, Crash \/ EnsureWork
    PROVE  PipelineInv'
  <1>1. Return /\ row' = row /\ next' \in {next, None} /\ query' \in {query, NoQuery}
    BY DEF Crash, EnsureWork, tables, Working
  <1>2. UNCHANGED <<created, factsRow, candidates, traces, active, policy, assignment>>
    BY DEF Crash, EnsureWork, tables, Evidences, others
  <1>3. RowsOK'
    BY <1>1, <1>2, RowsStay DEF PipelineInv
  <1>. QED
    BY <1>1, <1>2, <1>3, Returns, RestKeeps

LEMMA ManualKeeps ==
    ASSUME PipelineInv, ManualAssign
    PROVE  PipelineInv'
  <1>1. pc = "idle" /\ pc' = "ensure" /\ st' = st
    BY DEF ManualAssign
  <1>2. UNCHANGED <<created, factsRow, candidates, traces, next, query, active, policy>>
    BY DEF ManualAssign, Evidences, Working, others
  <1>3. PICK u \in active :
          assignment' = [user |-> u, status |-> "assigned", source |-> "user", fixed |-> TRUE]
    BY DEF ManualAssign
  <1>4. TablesOK'
    BY <1>2, <1>3 DEF PipelineInv, TablesOK
  <1>5. /\ DOMAIN row' = RunIds
        /\ \A q \in RunIds :
             /\ DOMAIN row'[q] = DOMAIN row[q] /\ row'[q].json = row[q].json
             /\ row'[q].status \in {row[q].status, "completed"}
    BY DEF ManualAssign, PipelineInv, RowsOK
  <1>6. RowsOK'
    BY <1>2, <1>5 DEF PipelineInv, RowsOK, SoundNow, RunIds, Active
  <1>7. StateOK' /\ PlacedOK'
    BY <1>1 DEF PipelineInv, StateOK, PlacedOK, Executing, AtWork
  <1>8. NextOK' /\ QueryOK'
    BY <1>1, <1>2, NextStays, QueryStays DEF PipelineInv
  <1>. QED
    BY <1>4, <1>6, <1>7, <1>8 DEF PipelineInv

LEMMA SettingsKeep ==
    ASSUME PipelineInv, SetUserStatus \/ SaveSettings
    PROVE  PipelineInv'
  <1>1. UNCHANGED <<created, row, factsRow, candidates, traces, assignment, pc, run, st, next, query>>
    BY DEF SetUserStatus, SaveSettings, tables, Working
  <1>2. active' \subseteq Users /\ policy' \in Policies
    BY DEF SetUserStatus, SaveSettings, PipelineInv, TablesOK
  <1>3. TablesOK' /\ RowsOK'
    BY <1>1, <1>2, RowsStay DEF PipelineInv, TablesOK
  <1>4. StateOK' /\ NextOK' /\ QueryOK' /\ PlacedOK'
    <2>1. StateOK' /\ PlacedOK'
      BY <1>1 DEF PipelineInv, StateOK, PlacedOK, SoundNow
    <2>2. NextOK'
      BY <1>1 DEF PipelineInv, NextOK, SoundNow
    <2>3. QueryOK'
      BY <1>1 DEF PipelineInv, QueryOK, Trace
    <2>. QED
      BY <2>1, <2>2, <2>3
  <1>. QED
    BY <1>3, <1>4 DEF PipelineInv

----------------------------------------------------------------------------
(* The facts, and faults.                                                   *)
LEMMA ExtractedAreFacts == Extracted \subseteq Facts
  <1>1. ASSUME NEW f \in Facts, NEW g \in Facts PROVE Merge(f, g) \in Facts
    BY DEF Merge, Facts
  <1>2. \A f \in Extracts : Merge(f, Grounded) \in Facts
    BY <1>1, FactsAssumption
  <1>3. [Grounded EXCEPT !.types = IF Grounded.types = {} THEN {General} ELSE Grounded.types] \in Facts
    BY FactsAssumption DEF Facts
  <1>. QED
    BY <1>2, <1>3 DEF Extracted

LEMMA StepErrorKeeps ==
    ASSUME PipelineInv, StepError
    PROVE  PipelineInv'
  <1>1. pc \in Executing /\ pc' = "fail" /\ run' = run /\ st' \in Broken
    BY DEF StepError, Executing, Goto
  <1>2. UNCHANGED <<created, row, factsRow, candidates, traces, assignment, active, policy>>
    BY DEF StepError, tables, others
  <1>3. next' = None /\ query' = NoQuery
    BY DEF StepError
  <1>4. IsState(st') /\ Sound(factsRow, candidates, traces, run, st', Passed(st'))
    <2>1. CASE st' = st
      BY <1>1, <2>1, AtRun DEF SoundNow
    <2>2. CASE pc = "handled" /\ st' = next
      <3>1. IsState(next) /\ next.status # "completed" /\ SoundNow(run, next, PassedAfter(next))
        BY <2>2 DEF PipelineInv, NextOK, SoundNow, Sound
      <3>2. Passed(next) <= PassedAfter(next) /\ Passed(next) \in Int /\ PassedAfter(next) \in Int
        BY <3>1, StateFields DEF Passed, PassedAfter
      <3>. QED
        BY <2>2, <3>1, <3>2, SoundLess DEF SoundNow
    <2>3. ASSUME NEW f \in Extracted, AtNode(ExtractFacts), st' = [st EXCEPT !.facts = f]
          PROVE  IsState(st') /\ Sound(factsRow, candidates, traces, run, st', Passed(st'))
      <3>. DEFINE x == [st EXCEPT !.facts = f]
      <3>1. /\ IsState(x) /\ x.status = st.status /\ x.node = st.node /\ x.reason = st.reason
            /\ x.incomplete = st.incomplete /\ x.warned = st.warned
        BY <1>1, <2>3, AtRun, ExtractedAreFacts, FactsSet
      <3>. HIDE DEF x
      <3>2. st.node = 3 /\ st.status # "completed"
        BY <2>3 DEF AtNode, ExtractFacts, PipelineInv, PlacedOK, AtWork
      <3>3. ReasonKept(x)
        BY <1>1, <3>1, AtRun DEF ReasonKept
      <3>4. Passed(x) = 2
        BY <3>1, <3>2 DEF Passed
      <3>. QED
        BY <2>3, <3>1, <3>3, <3>4, SoundEarly DEF x, ExtractFacts
    <2>. QED
      BY <1>1, <2>1, <2>2, <2>3 DEF Broken
  <1>5. RowsOK' /\ StateOK' /\ PlacedOK'
    <2>1. RowsOK'
      BY <1>2, RowsStay DEF PipelineInv
    <2>2. run' \in 1..created' /\ SoundNow(run, st, Passed(st))'
      BY <1>1, <1>2, <1>4, AtRun DEF SoundNow
    <2>. QED
      BY <1>1, <1>4, <2>1, <2>2 DEF StateOK, PlacedOK, Executing, AtWork
  <1>. QED
    BY <1>1, <1>2, <1>3, <1>5, RestKeeps

----------------------------------------------------------------------------
(* A handler returns a state, and has changed no tables.                    *)
LEMMA HandlerRuns ==
    ASSUME PipelineInv, pc \in AtWork
    PROVE  /\ pc \in Executing /\ run \in 1..created /\ IsState(st) /\ ReasonKept(st)
           /\ st.status # "completed" /\ st.node \in 1..10 /\ Passed(st) = st.node - 1
           /\ Sound(factsRow, candidates, traces, run, st, st.node - 1)
           /\ row[run].json.status # "completed" /\ row[run].json.node <= st.node
  <1>1. pc \in Executing
    BY DEF AtWork, Executing
  <1>2. st.status # "completed" /\ st.node >= 1
    BY DEF PipelineInv, PlacedOK
  <1>. QED
    BY <1>1, <1>2, AtRun DEF PipelineInv, PlacedOK, SoundNow

LEMMA HandledKeeps ==
    ASSUME PipelineInv, pc \in {"node", "query"}, NEW x, Handled(x),
           UNCHANGED <<created, row, run, st>>, RowsOK', TablesOK', QueryOK',
           Sound(factsRow', candidates', traces', run, st, st.node - 1),
           IsState(x), Sound(factsRow', candidates', traces', run, x, PassedAfter(x)),
           x.node = st.node, st.node # PersistResult, x.status # "completed"
    PROVE  PipelineInv'
  <1>1. pc' = "handled" /\ next' = x /\ pc \in AtWork
    BY DEF Handled, AtWork
  <1>2. /\ run \in 1..created /\ IsState(st) /\ Passed(st) = st.node - 1
        /\ st.status # "completed" /\ row[run].json.status # "completed"
        /\ st.node >= 1 /\ row[run].json.node <= st.node
    BY <1>1, HandlerRuns
  <1>3. StateOK' /\ PlacedOK'
    BY <1>1, <1>2 DEF StateOK, SoundNow, PlacedOK, Executing, AtWork
  <1>4. NextOK'
    BY <1>1, <1>2 DEF NextOK, SoundNow
  <1>. QED
    BY <1>3, <1>4 DEF PipelineInv

LEMMA HandledOnlyKeeps ==
    ASSUME PipelineInv, pc = "node", NEW x, HandledOnly(x),
           IsState(x), Sound(factsRow, candidates, traces, run, x, PassedAfter(x)),
           x.node = st.node, st.node # PersistResult, x.status # "completed"
    PROVE  PipelineInv'
  <1>1. /\ Handled(x) /\ pc' = "handled"
        /\ UNCHANGED <<created, row, run, st, factsRow, candidates, traces, assignment, query,
                       active, policy>>
    BY DEF HandledOnly, Handled, tables, others
  <1>2. Sound(factsRow, candidates, traces, run, st, st.node - 1)
    BY HandlerRuns DEF AtWork
  <1>3. RowsOK' /\ TablesOK' /\ QueryOK'
    BY <1>1, RowsStay, TablesStay, QueryStays DEF PipelineInv
  <1>. QED
    BY <1>1, <1>2, <1>3, HandledKeeps

LEMMA Placed ==
    ASSUME PipelineInv, NEW n, AtNode(n)
    PROVE  /\ pc = "node" /\ pc \in AtWork /\ st.node = n /\ st.status # "completed"
           /\ IsState(st) /\ ReasonKept(st) /\ run \in 1..created /\ n \in 1..10
           /\ Sound(factsRow, candidates, traces, run, st, n - 1)
  BY HandlerRuns DEF AtNode, AtWork

(* Where a claim is not about anything yet, or about nothing new.           *)
LEMMA LoadMailKeeps ==
    ASSUME PipelineInv, LoadMail
    PROVE  PipelineInv'
  <1>. DEFINE facts == [names |-> {}, types |-> {}, actions |-> FALSE, contradictory |-> FALSE]
              x == [st EXCEPT !.facts = facts]
  <1>1. AtNode(LoadMailContext) /\ HandledOnly(x)
    BY DEF LoadMail
  <1>2. facts \in Facts
    BY DEF Facts
  <1>. HIDE DEF facts
  <1>3. /\ IsState(x) /\ x.status = st.status /\ x.node = st.node /\ x.reason = st.reason
        /\ x.incomplete = st.incomplete /\ x.warned = st.warned
    BY <1>1, <1>2, Placed, FactsSet
  <1>. HIDE DEF x
  <1>4. ReasonKept(x)
    BY <1>1, <1>3, Placed DEF ReasonKept
  <1>5. x.node = 1 /\ x.status # "completed" /\ PassedAfter(x) \in {0, 1}
    BY <1>1, <1>3, Placed DEF LoadMailContext, PassedAfter
  <1>6. Sound(factsRow, candidates, traces, run, x, PassedAfter(x))
    BY <1>3, <1>4, <1>5, SoundEarly DEF ExtractFacts
  <1>. QED
    BY <1>1, <1>3, <1>5, <1>6, Placed, HandledOnlyKeeps DEF PersistResult

LEMMA AnalyzeKeeps ==
    ASSUME PipelineInv, AnalyzeAll
    PROVE  PipelineInv'
  <1>. DEFINE y == [st EXCEPT !.incomplete = TRUE, !.reason = "attachments"]
  <1>1. AtNode(AnalyzeAttachments) /\ (HandledOnly(y) \/ HandledOnly(st))
    BY DEF AnalyzeAll
  <1>2. IsState(y) /\ y.status = st.status /\ y.node = st.node /\ y.reason = "attachments"
    BY <1>1, Placed, IncompleteSet
  <1>. HIDE DEF y
  <1>3. st.node = 2
    BY <1>1, Placed DEF AnalyzeAttachments
  <1>4. ReasonKept(y)
    BY <1>1, <1>2, <1>3, Placed DEF ReasonKept, GenerateCandidates
  <1>5. ASSUME NEW x \in {y, st}
        PROVE  /\ IsState(x) /\ x.node = st.node /\ x.status # "completed"
               /\ Sound(factsRow, candidates, traces, run, x, PassedAfter(x))
    <2>1. IsState(x) /\ ReasonKept(x) /\ x.node = 2 /\ x.status # "completed"
      BY <1>1, <1>2, <1>3, <1>4, Placed
    <2>2. PassedAfter(x) \in {1, 2}
      BY <2>1 DEF PassedAfter
    <2>. QED
      BY <1>3, <2>1, <2>2, SoundEarly DEF ExtractFacts
  <1>6. PICK x \in {y, st} : HandledOnly(x)
    BY <1>1
  <1>. QED
    BY <1>1, <1>3, <1>5, <1>6, Placed, HandledOnlyKeeps DEF PersistResult

LEMMA PassedOn ==
    ASSUME NEW f, NEW c, NEW t, NEW r, NEW s, NEW n \in {PlanRetrieval, ValidateDecision},
           Sound(f, c, t, r, s, n - 1)
    PROVE  Sound(f, c, t, r, s, n)
  BY DEF Sound, PlanRetrieval, ValidateDecision, ExtractFacts, RetrieveContext,
         EvaluateContext, GenerateDecision, GenerateCandidates

LEMMA PlanKeeps ==
    ASSUME PipelineInv, PlanFirst \/ Validate
    PROVE  PipelineInv'
  <1>1. PICK n \in {PlanRetrieval, ValidateDecision} : AtNode(n) /\ HandledOnly(st)
    <2>1. CASE PlanFirst
      <3>1. AtNode(PlanRetrieval) /\ HandledOnly(Requires(st.facts # None, st))
        BY <2>1 DEF PlanFirst
      <3>2. st.facts # None
        BY <3>1, Placed DEF Sound, FactsAgree, PlanRetrieval, ExtractFacts
      <3>. QED
        BY <3>1, <3>2 DEF Requires
    <2>2. CASE Validate
      <3>1. /\ AtNode(ValidateDecision)
            /\ HandledOnly(Requires(st.routing # None /\ st.routing.choice \in Users, st))
        BY <2>2 DEF Validate
      <3>2. st.routing # None /\ st.routing.choice \in Users
        BY <3>1, Placed DEF Sound, RoutingStands, ValidateDecision, GenerateCandidates
      <3>. QED
        BY <3>1, <3>2 DEF Requires
    <2>. QED
      BY <2>1, <2>2
  <1>2. Sound(factsRow, candidates, traces, run, st, n) /\ Sound(factsRow, candidates, traces, run, st, n - 1)
    BY <1>1, Placed, PassedOn
  <1>3. st.node = n /\ n # PersistResult /\ (PassedAfter(st) = n \/ PassedAfter(st) = n - 1)
    BY <1>1, Placed DEF PassedAfter, PersistResult, PlanRetrieval, ValidateDecision
  <1>4. Sound(factsRow, candidates, traces, run, st, PassedAfter(st))
    BY <1>2, <1>3
  <1>. QED
    BY <1>1, <1>3, <1>4, Placed, HandledOnlyKeeps

(* The facts are stored for the run before its state is saved.              *)
LEMMA ExtractKeeps ==
    ASSUME PipelineInv, Extract
    PROVE  PipelineInv'
  <1>1. PICK f \in Extracted :
          Handled([st EXCEPT !.facts = f]) /\ factsRow' = [run |-> run, facts |-> f]
    BY DEF Extract
  <1>. DEFINE x == [st EXCEPT !.facts = f]
              g == [run |-> run, facts |-> f]
  <1>2. AtNode(ExtractFacts) /\ pc = "node" /\ st.node = 3 /\ f \in Facts /\ f # None
    BY ExtractedAreFacts, NoneAssumption DEF Extract, AtNode, ExtractFacts
  <1>3. /\ UNCHANGED <<created, row, run, st, candidates, traces, assignment, query, active, policy>>
        /\ pc' = "handled"
    BY <1>1 DEF Extract, others, Handled
  <1>4. /\ IsState(x) /\ x.facts = f /\ x.status = st.status /\ x.node = st.node
        /\ x.reason = st.reason /\ x.incomplete = st.incomplete /\ x.warned = st.warned
    BY <1>2, Placed, FactsSet
  <1>5. Handled(x) /\ factsRow' = g /\ g.run = run /\ g.facts = f
    BY <1>1
  <1>. HIDE DEF x, g
  <1>6. ASSUME NEW q \in RunIds PROVE Sound(g, candidates, traces, q, row[q].json, Passed(row[q].json))
    <2>1. Sound(factsRow, candidates, traces, q, row[q].json, Passed(row[q].json)) /\ Passed(row[q].json) \in Int
      BY StateFields DEF PipelineInv, RowsOK, SoundNow, Sound
    <2>2. CASE q # run
      BY <1>5, <2>1, <2>2, SoundTables
    <2>3. CASE q = run
      <3>1. row[q].json.status # "completed" /\ row[q].json.node <= 3 /\ row[q].json.node \in 0..10
        BY <1>2, <2>1, <2>3, HandlerRuns, StateFields DEF AtWork, Sound
      <3>2. Passed(row[q].json) < ExtractFacts
        BY <3>1 DEF Passed, ExtractFacts
      <3>. QED
        BY <2>1, <3>2, SoundTables DEF ExtractFacts, GenerateCandidates
    <2>. QED
      BY <2>2, <2>3
  <1>7. RowsOK'
    BY <1>3, <1>5, <1>6 DEF PipelineInv, RowsOK, SoundNow, RunIds
  <1>8. TablesOK'
    BY <1>2, <1>3, <1>5, Placed DEF PipelineInv, TablesOK
  <1>9. QueryOK'
    BY <1>3, QueryStays DEF PipelineInv
  <1>10. ReasonKept(st) /\ ReasonKept(x)
    BY <1>2, <1>4, Placed DEF ReasonKept
  <1>11. Sound(g, candidates, traces, run, st, st.node - 1)
    BY <1>2, <1>10, Placed, SoundEarly DEF ExtractFacts
  <1>12. Sound(g, candidates, traces, run, x, 3)
    BY <1>2, <1>4, <1>5, <1>10 DEF Sound, FactsAgree, ExtractFacts, RetrieveContext,
         EvaluateContext, GenerateDecision, GenerateCandidates
  <1>13. PassedAfter(x) \in {2, 3}
    BY <1>2, <1>4 DEF PassedAfter
  <1>14. Sound(g, candidates, traces, run, x, PassedAfter(x))
    BY <1>12, <1>13, SoundLess
  <1>15. st.node # PersistResult /\ x.status # "completed"
    BY <1>2, <1>4, Placed DEF PersistResult
  <1>16. pc \in {"node", "query"}
    BY <1>2
  <1>. QED
    BY <1>3, <1>4, <1>5, <1>7, <1>8, <1>9, <1>11, <1>14, <1>15, <1>16, HandledKeeps

----------------------------------------------------------------------------
(* Retrieval: everything that is found has a trace, and what reaches the    *)
(* prompt is marked.                                                        *)
LEMMA ResultsAreHits ==
    ASSUME NEW q, NEW users, NEW assignee \in Users \cup {Nobody},
           NEW hits \in Results(q, users, assignee)
    PROVE  hits \subseteq Hit
  <1>1. Answers(q, users) \subseteq Hit
    BY SourcesAssumption DEF Answers, Hit, Source
  <1>2. OwnHit(assignee) \in Hit
    BY DEF OwnHit, Hit, Hows
  <1>. QED
    BY <1>1, <1>2 DEF Results, Found

LEMMA TracedKeeps ==
    ASSUME PipelineInv, UNCHANGED <<created, row, factsRow, candidates>>,
           \A r, id : [run |-> r, id |-> id, included |-> TRUE] \in traces
                          => [run |-> r, id |-> id, included |-> TRUE] \in traces'
    PROVE  /\ RowsOK'
           /\ \A k \in Int : \A r, s : Sound(factsRow, candidates, traces, r, s, k)
                                      => Sound(factsRow', candidates', traces', r, s, k)
  <1>1. ASSUME NEW r, NEW s, NEW k \in Int, Sound(factsRow, candidates, traces, r, s, k)
        PROVE  Sound(factsRow', candidates', traces', r, s, k)
    BY <1>1, SoundTables
  <1>2. ASSUME NEW q \in RunIds PROVE Sound(factsRow', candidates', traces', q, row[q].json, Passed(row[q].json))
    BY <1>1, StateFields DEF PipelineInv, RowsOK, SoundNow, Sound
  <1>3. RowsOK'
    BY <1>2 DEF PipelineInv, RowsOK, SoundNow, RunIds
  <1>. QED
    BY <1>1, <1>3

LEMMA BeginKeeps ==
    ASSUME PipelineInv, BeginRetrieval
    PROVE  PipelineInv'
  <1>1. AtNode(RetrieveContext)
    BY DEF BeginRetrieval
  <1>2. st.node = 5 /\ st.facts # None /\ pc = "node"
    BY <1>1, Placed DEF Sound, FactsAgree, RetrieveContext, ExtractFacts
  <1>3. /\ pc' = "query" /\ query' = [cycle |-> 1, todo |-> Plan(st.facts, 1), hits |-> {}]
        /\ UNCHANGED <<created, row, factsRow, candidates, traces, assignment, run, st, next, active, policy>>
    BY <1>2 DEF BeginRetrieval, tables, others
  <1>4. RowsOK' /\ TablesOK' /\ NextOK'
    BY <1>3, RowsStay, TablesStay, NextStays DEF PipelineInv
  <1>5. QueryOK'
    BY <1>2, <1>3, LimitsAssumption DEF QueryOK, RetrieveContext
  <1>6. StateOK' /\ PlacedOK'
    BY <1>2, <1>3 DEF PipelineInv, StateOK, SoundNow, PlacedOK, Executing, AtWork
  <1>. QED
    BY <1>4, <1>5, <1>6 DEF PipelineInv

LEMMA QueryKeeps ==
    ASSUME PipelineInv, RunQuery \/ NextCycle
    PROVE  PipelineInv'
  <1>1. /\ pc = "query" /\ pc' = pc
        /\ UNCHANGED <<created, row, factsRow, candidates, assignment, run, st, next, active, policy>>
    BY DEF RunQuery, NextCycle, tables, others
  <1>2. /\ traces \subseteq traces'
        /\ \A t \in traces' \ traces : \E id : t = Trace(id, FALSE)
        /\ query'.cycle \in 0..MaxCycles /\ query'.hits \subseteq Hit
        /\ DOMAIN query' = {"cycle", "todo", "hits"}
        /\ \A h \in query'.hits : \E b \in BOOLEAN : Trace(h.id, b) \in traces'
    <2>1. CASE NextCycle
      <3>1. /\ query'.cycle = query.cycle + 1 /\ query'.hits = query.hits /\ traces' = traces
            /\ DOMAIN query' = {"cycle", "todo", "hits"} /\ query.cycle < MaxCycles
        BY <2>1 DEF NextCycle, tables, PipelineInv, QueryOK
      <3>2. \A h \in query.hits : \E b \in BOOLEAN : Trace(h.id, b) \in traces
        BY <1>1 DEF PipelineInv, QueryOK
      <3>3. query.cycle \in 0..MaxCycles /\ query.hits \subseteq Hit /\ MaxCycles \in Nat
        BY LimitsAssumption DEF PipelineInv, QueryOK
      <3>4. query'.cycle \in 0..MaxCycles
        BY <3>1, <3>3
      <3>. QED
        BY <3>1, <3>2, <3>3, <3>4
    <2>2. CASE RunQuery
      <3>1. PICK hits \in Results(Head(query.todo), active,
                                  IF assignment.user = "none" THEN Nobody ELSE assignment.user) :
              /\ query' = [query EXCEPT !.todo = Tail(query.todo), !.hits = query.hits \cup hits]
              /\ traces' = traces \cup {Trace(h.id, FALSE) :
                                           h \in {x \in hits : Trace(x.id, TRUE) \notin traces}}
        BY <2>2 DEF RunQuery
      <3>2. (IF assignment.user = "none" THEN Nobody ELSE assignment.user) \in Users \cup {Nobody}
        BY DEF PipelineInv, TablesOK
      <3>3. hits \subseteq Hit
        BY <3>2, ResultsAreHits
      <3>4. /\ query'.cycle = query.cycle /\ query'.hits = query.hits \cup hits
            /\ DOMAIN query' = {"cycle", "todo", "hits"}
        BY <3>1 DEF PipelineInv, QueryOK
      <3>5. \A h \in query.hits : \E b \in BOOLEAN : Trace(h.id, b) \in traces
        BY <1>1 DEF PipelineInv, QueryOK
      <3>6. \A h \in hits : \E b \in BOOLEAN : Trace(h.id, b) \in traces'
        BY <3>1
      <3>7. traces \subseteq traces' /\ \A t \in traces' \ traces : \E id : t = Trace(id, FALSE)
        BY <3>1
      <3>. QED
        BY <3>3, <3>4, <3>5, <3>6, <3>7 DEF PipelineInv, QueryOK
    <2>. QED
      BY <2>1, <2>2
  <1>3. RowsOK' /\ Sound(factsRow', candidates', traces', run, st, st.node - 1)
    <2>1. \A r, id : [run |-> r, id |-> id, included |-> TRUE] \in traces
                      => [run |-> r, id |-> id, included |-> TRUE] \in traces'
      BY <1>2
    <2>2. st.node - 1 \in Int /\ Sound(factsRow, candidates, traces, run, st, st.node - 1)
      BY <1>1, HandlerRuns DEF AtWork
    <2>. QED
      BY <1>1, <2>1, <2>2, TracedKeeps
  <1>4. TablesOK'
    <2>1. \A t \in traces' : t.run \in 1..created /\ t.included \in BOOLEAN
      <3>1. run \in 1..created
        BY <1>1, HandlerRuns DEF AtWork
      <3>2. \A t \in traces' \ traces : t.run = run /\ t.included = FALSE
        BY <1>2 DEF Trace
      <3>. QED
        BY <3>1, <3>2 DEF PipelineInv, TablesOK
    <2>. QED
      BY <1>1, <2>1 DEF PipelineInv, TablesOK
  <1>5. StateOK' /\ PlacedOK'
    <2>1. run \in 1..created /\ IsState(st) /\ Passed(st) = st.node - 1
      BY <1>1, HandlerRuns DEF AtWork
    <2>. QED
      BY <1>1, <1>3, <2>1 DEF PipelineInv, StateOK, SoundNow, PlacedOK, Executing, AtWork
  <1>6. NextOK'
    BY <1>1, NextStays DEF PipelineInv
  <1>7. QueryOK'
    BY <1>1, <1>2 DEF PipelineInv, QueryOK, Trace
  <1>. QED
    BY <1>3, <1>4, <1>5, <1>6, <1>7 DEF PipelineInv

LEMMA EndKeeps ==
    ASSUME PipelineInv, EndRetrieval
    PROVE  PipelineInv'
  <1>1. PICK sel \in Selections(query.hits) :
          /\ traces' = Mark(sel)
          /\ Handled([st EXCEPT !.context = [sufficient |-> Sufficient(st.facts, sel),
                                             selected |-> sel]])
    BY DEF EndRetrieval
  <1>. DEFINE context == [sufficient |-> Sufficient(st.facts, sel), selected |-> sel]
              x == [st EXCEPT !.context = context]
  <1>2. pc = "query" /\ pc \in AtWork /\ pc \in {"node", "query"}
    BY DEF EndRetrieval, AtWork
  <1>3. /\ UNCHANGED <<created, row, factsRow, candidates, assignment, run, st, active, policy>>
        /\ query' = NoQuery /\ pc' = "handled"
    BY <1>1 DEF EndRetrieval, others, Handled
  <1>4. st.node = 5 /\ query.hits \subseteq Hit
        /\ \A h \in query.hits : \E b \in BOOLEAN : Trace(h.id, b) \in traces
    BY <1>2 DEF PipelineInv, QueryOK, RetrieveContext
  <1>5. sel \subseteq query.hits
    BY DEF Selections, Best
  <1>6. Sufficient(st.facts, sel) \in BOOLEAN
    BY Zenon DEF Sufficient, HasAssignee
  <1>7. context.selected = sel /\ context.sufficient = Sufficient(st.facts, sel)
    OBVIOUS
  <1>8. context \in Context /\ context # None
    <2>1. context \in Context
      BY <1>4, <1>5, <1>6 DEF Context
    <2>. QED
      BY <2>1, NoneAssumption
  <1>. HIDE DEF context
  <1>9. /\ IsState(x) /\ x.context = context /\ x.facts = st.facts
        /\ x.status = st.status /\ x.node = st.node /\ x.reason = st.reason
        /\ x.incomplete = st.incomplete /\ x.warned = st.warned
    BY <1>2, <1>8, HandlerRuns, ContextSet
  <1>10. Handled(x)
    BY <1>1 DEF context
  <1>. HIDE DEF x
  <1>11. \A r, id : [run |-> r, id |-> id, included |-> TRUE] \in traces
                       => [run |-> r, id |-> id, included |-> TRUE] \in traces'
    <2>1. ASSUME NEW r, NEW id, [run |-> r, id |-> id, included |-> TRUE] \in traces
          PROVE  [run |-> r, id |-> id, included |-> TRUE] \in traces'
      <3>. DEFINE t == [run |-> r, id |-> id, included |-> TRUE]
                  u == IF t.run = run /\ t.id \in {h.id : h \in sel} THEN Trace(t.id, TRUE) ELSE t
      <3>1. u \in traces'
        BY <1>1, <2>1 DEF Mark
      <3>2. u = t
        BY DEF Trace
      <3>. QED
        BY <3>1, <3>2
    <2>. QED
      BY <2>1
  <1>12. \A h \in sel : Trace(h.id, TRUE) \in traces'
    <2>1. ASSUME NEW h \in sel PROVE Trace(h.id, TRUE) \in traces'
      <3>1. PICK b \in BOOLEAN : Trace(h.id, b) \in traces
        BY <1>4, <1>5
      <3>. DEFINE t == Trace(h.id, b)
                  u == IF t.run = run /\ t.id \in {i.id : i \in sel} THEN Trace(t.id, TRUE) ELSE t
      <3>2. u \in traces'
        BY <1>1, <3>1 DEF Mark
      <3>3. t.run = run /\ t.id = h.id
        BY DEF Trace
      <3>4. u = Trace(h.id, TRUE)
        BY <3>3
      <3>. QED
        BY <3>2, <3>4
    <2>. QED
      BY <2>1
  <1>13. RowsOK' /\ Sound(factsRow', candidates', traces', run, st, st.node - 1)
    <2>1. st.node - 1 \in Int /\ Sound(factsRow, candidates, traces, run, st, st.node - 1)
      BY <1>2, HandlerRuns
    <2>. QED
      BY <1>3, <1>11, <2>1, TracedKeeps
  <1>14. TablesOK'
    <2>1. \A t \in traces' : t.run \in 1..created /\ t.included \in BOOLEAN
      <3>1. \A t \in traces : t.run \in 1..created /\ t.included \in BOOLEAN
        BY DEF PipelineInv, TablesOK
      <3>2. run \in 1..created
        BY <1>2, HandlerRuns
      <3>3. \A id : Trace(id, TRUE).run = run /\ Trace(id, TRUE).included = TRUE
        BY DEF Trace
      <3>4. ASSUME NEW t \in traces' PROVE t \in traces \/ \E id : t = Trace(id, TRUE)
        BY <1>1 DEF Mark
      <3>. QED
        BY <3>1, <3>2, <3>3, <3>4
    <2>. QED
      BY <1>3, <2>1 DEF PipelineInv, TablesOK
  <1>15. QueryOK'
    BY <1>3, NoQueryOK
  <1>16. Sound(factsRow', candidates', traces', run, x, 5)
    <2>1. FactsAgree(factsRow', run, x)
      BY <1>4, <1>9, <1>13 DEF Sound, FactsAgree, ExtractFacts
    <2>2. ContextTraced(traces', run, x)
      BY <1>7, <1>8, <1>9, <1>12 DEF ContextTraced, Trace
    <2>3. ReasonKept(x)
      BY <1>2, <1>9, HandlerRuns DEF ReasonKept
    <2>. QED
      BY <1>9, <2>1, <2>2, <2>3 DEF Sound, ExtractFacts, RetrieveContext, EvaluateContext,
           GenerateDecision, GenerateCandidates
  <1>17. PassedAfter(x) \in {4, 5}
    BY <1>4, <1>9 DEF PassedAfter
  <1>18. Sound(factsRow', candidates', traces', run, x, PassedAfter(x))
    BY <1>16, <1>17, SoundLess
  <1>19. x.status # "completed" /\ st.node # PersistResult
    BY <1>2, <1>4, <1>9, HandlerRuns DEF PersistResult
  <1>. QED
    BY <1>2, <1>3, <1>9, <1>10, <1>13, <1>14, <1>15, <1>18, <1>19, HandledKeeps

----------------------------------------------------------------------------
(* Judging the context and deciding.                                        *)
LEMMA EvaluateKeeps ==
    ASSUME PipelineInv, Evaluate
    PROVE  PipelineInv'
  <1>. DEFINE y == [st EXCEPT !.blocked = TRUE]
  <1>1. AtNode(EvaluateContext) /\ st.node = 6
    BY DEF Evaluate, AtNode, EvaluateContext
  <1>2. Sound(factsRow, candidates, traces, run, st, 5) /\ st.context # None
    BY <1>1, Placed DEF EvaluateContext, Sound, ContextTraced, RetrieveContext
  <1>3. \/ st.context.sufficient /\ HandledOnly(st)
        \/ HandledOnly(y)
    BY <1>2 DEF Evaluate, Evaluated
  <1>4. /\ IsState(y) /\ y.blocked = TRUE /\ y.facts = st.facts /\ y.context = st.context
        /\ y.status = st.status /\ y.node = st.node /\ y.reason = st.reason
        /\ y.incomplete = st.incomplete /\ y.warned = st.warned
    BY <1>1, Placed, BlockedSet
  <1>. HIDE DEF y
  <1>5. PICK x \in {st, y} : HandledOnly(x) /\ BlockedUnlessSufficient(x)
    BY <1>3, <1>4 DEF BlockedUnlessSufficient
  <1>6. /\ IsState(x) /\ ReasonKept(x) /\ x.facts = st.facts /\ x.context = st.context
        /\ x.status # "completed" /\ x.node = st.node
    BY <1>1, <1>4, Placed DEF ReasonKept
  <1>7. Sound(factsRow, candidates, traces, run, x, 6)
    BY <1>2, <1>5, <1>6 DEF Sound, FactsAgree, ContextTraced, ExtractFacts, RetrieveContext,
         EvaluateContext, GenerateDecision, GenerateCandidates
  <1>8. PassedAfter(x) \in {5, 6}
    BY <1>1, <1>6 DEF PassedAfter
  <1>9. Sound(factsRow, candidates, traces, run, x, PassedAfter(x))
    BY <1>7, <1>8, SoundLess
  <1>10. pc = "node" /\ st.node # PersistResult
    BY <1>1, Placed DEF PersistResult
  <1>. QED
    BY <1>5, <1>6, <1>9, <1>10, HandledOnlyKeeps

LEMMA DecisionsAgree ==
    ASSUME NEW f \in Facts, NEW d \in Decide(f) \cup FallbackDecision(f, General)
    PROVE  d \in Decision /\ (~d.review => d.mode = "llm")
  <1>1. CASE d \in FallbackDecision(f, General)
    <2>1. PICK t \in IF f.types = {} THEN {General} ELSE f.types :
             d = [mode |-> "fallback", type |-> t, confidence |-> 45, review |-> TRUE]
      BY <1>1 DEF FallbackDecision
    <2>2. t \in Types
      BY FactsAssumption DEF Facts
    <2>. QED
      BY <2>1, <2>2 DEF Decision
  <1>2. CASE d \in Decide(f)
    <2>1. PICK t \in Types, c \in Confidences, asked \in BOOLEAN :
             d = [mode |-> "llm", type |-> Corrected(t, f), confidence |-> c,
                  review |-> asked \/ c < 78 \/ f.contradictory \/ Corrected(t, f) # t]
      BY <1>2 DEF Decide
    <2>2. Corrected(t, f) \in Types
      BY DEF Corrected
    <2>3. (asked \/ c < 78 \/ f.contradictory \/ Corrected(t, f) # t) \in BOOLEAN
      BY Zenon
    <2>4. d.mode = "llm" /\ c \in 0..100
      BY <2>1, ConfidencesAssumption
    <2>. QED
      BY <2>1, <2>2, <2>3, <2>4 DEF Decision
  <1>. QED
    BY <1>1, <1>2

LEMMA GenerateKeeps ==
    ASSUME PipelineInv, GenerateTheDecision
    PROVE  PipelineInv'
  <1>1. AtNode(GenerateDecision) /\ st.node = 7
    BY DEF GenerateTheDecision, AtNode, GenerateDecision
  <1>2. /\ Sound(factsRow, candidates, traces, run, st, 6) /\ IsState(st) /\ ReasonKept(st)
        /\ st.status # "completed"
    BY <1>1, Placed DEF GenerateDecision
  <1>3. /\ st.facts # None /\ st.context # None /\ st.facts \in Facts /\ st.blocked \in BOOLEAN
    BY <1>2, StateFields DEF Sound, FactsAgree, ContextTraced, RetrieveContext, ExtractFacts, IsState
  <1>4. PICK d \in Decide(st.facts) \cup FallbackDecision(st.facts, General) :
          HandledOnly(Decided(Blocking(d)))
    BY <1>3 DEF GenerateTheDecision
  <1>. DEFINE e == Blocking(d)
              y == [st EXCEPT !.decision = e]
  <1>5. d \in Decision /\ (~d.review => d.mode = "llm")
    BY <1>3, DecisionsAgree
  <1>6. e \in Decision /\ e.mode = d.mode /\ (~e.review => ~d.review /\ ~st.blocked)
    BY <1>3, <1>5 DEF Blocking, Decision
  <1>7. e # None
    BY <1>6, NoneAssumption
  <1>8. HandledOnly(IF e.review THEN ReviewFor(y, "decision") ELSE y)
    BY <1>4 DEF Decided
  <1>. HIDE DEF e
  <1>9. /\ IsState(y) /\ y.decision = e
        /\ y.facts = st.facts /\ y.context = st.context /\ y.blocked = st.blocked
        /\ y.status = st.status /\ y.node = st.node /\ y.reason = st.reason
        /\ y.incomplete = st.incomplete /\ y.warned = st.warned
    BY <1>2, <1>6, DecisionSet
  <1>. HIDE DEF y
  <1>10. ReasonKept(y)
    BY <1>2, <1>9 DEF ReasonKept
  <1>11. Sound(factsRow, candidates, traces, run, y, 6)
    BY <1>2, <1>9, <1>10 DEF Sound, FactsAgree, ContextTraced, BlockedUnlessSufficient,
         ExtractFacts, RetrieveContext, EvaluateContext, GenerateDecision, GenerateCandidates
  <1>12. pc = "node" /\ st.node # PersistResult
    BY <1>1, Placed DEF PersistResult
  <1>13. CASE e.review
    <2>. DEFINE x == ReviewFor(y, "decision")
    <2>1. /\ IsState(x) /\ SameData(x, y) /\ x.status = "review_required"
          /\ x.node = y.node /\ x.reason = "decision"
      BY <1>9, ReviewSet DEF Reasons
    <2>2. HandledOnly(x)
      BY <1>8, <1>13
    <2>. HIDE DEF x
    <2>3. ReasonKept(x)
      BY <2>1 DEF ReasonKept
    <2>4. PassedAfter(x) = 6
      BY <1>1, <1>9, <2>1 DEF PassedAfter
    <2>5. Sound(factsRow, candidates, traces, run, x, PassedAfter(x))
      BY <1>11, <2>1, <2>3, <2>4, SoundAlike DEF GenerateCandidates
    <2>. QED
      BY <1>9, <1>12, <2>1, <2>2, <2>5, HandledOnlyKeeps
  <1>14. CASE ~e.review
    <2>1. DecisionStands(y)
      BY <1>5, <1>6, <1>7, <1>9, <1>14 DEF DecisionStands
    <2>2. Sound(factsRow, candidates, traces, run, y, 7)
      BY <1>11, <2>1 DEF Sound, ExtractFacts, RetrieveContext, EvaluateContext,
           GenerateDecision, GenerateCandidates
    <2>3. PassedAfter(y) \in {6, 7}
      BY <1>1, <1>9 DEF PassedAfter
    <2>4. Sound(factsRow, candidates, traces, run, y, PassedAfter(y))
      BY <2>2, <2>3, SoundLess
    <2>5. HandledOnly(y)
      BY <1>8, <1>14
    <2>. QED
      BY <1>2, <1>9, <1>12, <2>4, <2>5, HandledOnlyKeeps
  <1>. QED
    BY <1>13, <1>14

----------------------------------------------------------------------------
(* Ranking, assigning and saving.                                           *)
LEMMA RankingsAreSequences ==
    ASSUME NEW users \in SUBSET Users, NEW f, NEW type, NEW hits,
           NEW r \in Rankings(users, f, type, hits)
    PROVE  r \in Seq(Users) /\ (r # <<>> => r[1] \in Users)
  <1>1. Cardinality(users) \in Nat
    BY UsersAssumption, FS_Subset, FS_CardinalityType
  <1>2. r \in [1..Cardinality(users) -> users]
    BY DEF Rankings, SetToSeqs
  <1>3. r \in [1..Cardinality(users) -> Users]
    BY <1>2
  <1>. DEFINE n == Cardinality(users)
  <1>. HIDE DEF n
  <1>4. n \in Nat /\ r \in [1..n -> Users]
    BY <1>1, <1>3 DEF n
  <1>5. r \in Seq(Users)
    BY <1>4, SeqDef
  <1>6. r # <<>> => r[1] \in Users
    BY <1>5, EmptySeq, ElementOfSeq
  <1>. QED
    BY <1>5, <1>6

LEMMA RankKeeps ==
    ASSUME PipelineInv, RankUsers
    PROVE  PipelineInv'
  <1>1. AtNode(GenerateCandidates) /\ st.node = 8
    BY DEF RankUsers, AtNode, GenerateCandidates
  <1>2. /\ Sound(factsRow, candidates, traces, run, st, 7) /\ IsState(st) /\ ReasonKept(st)
        /\ st.status # "completed" /\ pc = "node" /\ pc \in {"node", "query"} /\ run \in 1..created
    BY <1>1, Placed DEF GenerateCandidates
  <1>3. st.facts # None /\ st.context # None /\ st.decision # None
    BY <1>2 DEF Sound, FactsAgree, ContextTraced, DecisionStands, RetrieveContext, ExtractFacts,
         GenerateDecision
  <1>4. PICK r \in Rankings(active, st.facts, st.decision.type, st.context.selected) :
          LET s == [st EXCEPT !.routing = [choice |-> Chosen(r), ranking |-> r]] IN
              /\ StoreCandidates(r)
              /\ IF s.routing.choice = "review"
                 THEN Goto("apply", run, s) /\ UNCHANGED next
                 ELSE /\ Handled([Warned(s) EXCEPT !.status = "auto_assigned"])
                      /\ UNCHANGED <<run, st>>
              /\ UNCHANGED <<created, row, factsRow, traces, assignment, autoTo, workItem,
                             seen, query, others, budget>>
    BY <1>3 DEF RankUsers
  <1>. DEFINE routing == [choice |-> Chosen(r), ranking |-> r]
              s == [st EXCEPT !.routing = routing]
              y == Warned(s)
              x == [y EXCEPT !.status = "auto_assigned"]
  <1>5. r \in Seq(Users) /\ (r # <<>> => r[1] \in Users)
    BY RankingsAreSequences DEF PipelineInv, TablesOK
  <1>6. /\ Chosen(r) = "review" \/ (Chosen(r) \in Users /\ ~st.facts.contradictory)
    <2>1. CASE Assigns(r, st.facts, st.decision, st.context.selected, policy)
      BY <1>5, <2>1 DEF Chosen, Assigns
    <2>2. CASE ~Assigns(r, st.facts, st.decision, st.context.selected, policy)
      BY <2>2 DEF Chosen
    <2>. QED
      BY <2>1, <2>2
  <1>7. routing.choice = Chosen(r) /\ routing.ranking = r
    OBVIOUS
  <1>8. routing # None
    BY <1>5, <1>6, NoneAssumption DEF Routing
  <1>9. routing.choice \in Users \cup {"review"}
    BY <1>6
  <1>. HIDE DEF routing
  <1>10. /\ IsState(s) /\ s.routing = routing
         /\ s.facts = st.facts /\ s.context = st.context /\ s.blocked = st.blocked
         /\ s.decision = st.decision
         /\ s.status = st.status /\ s.node = st.node /\ s.reason = st.reason
         /\ s.incomplete = st.incomplete /\ s.warned = st.warned
    BY <1>2, <1>9, RoutingSet
  <1>11. /\ candidates' = [candidates EXCEPT ![run] = r]
         /\ UNCHANGED <<created, row, factsRow, traces, assignment, query, active, policy>>
    BY <1>4 DEF StoreCandidates, others
  <1>12. IF s.routing.choice = "review"
         THEN pc' = "apply" /\ run' = run /\ st' = s /\ next' = next
         ELSE Handled(x) /\ run' = run /\ st' = st
    BY <1>4 DEF Goto, routing
  <1>. HIDE DEF s
  <1>13. run \in RunIds /\ DOMAIN candidates = RunIds
    BY <1>2, RunsExist DEF PipelineInv, TablesOK
  <1>14. candidates'[run] = r /\ DOMAIN candidates' = RunIds
         /\ \A q \in RunIds : q # run => candidates'[q] = candidates[q]
    BY <1>11, <1>13
  <1>. DEFINE c == candidates'
  <1>. HIDE DEF c
  <1>15. c[run] = r /\ \A q \in RunIds : q # run => c[q] = candidates[q]
    BY <1>14 DEF c
  <1>16. ASSUME NEW q \in RunIds PROVE Sound(factsRow, c, traces, q, row[q].json, Passed(row[q].json))
    <2>1. Sound(factsRow, candidates, traces, q, row[q].json, Passed(row[q].json)) /\ Passed(row[q].json) \in Int
      BY StateFields DEF PipelineInv, RowsOK, SoundNow, Sound
    <2>2. CASE q # run
      BY <1>15, <2>1, <2>2, SoundTables
    <2>3. CASE q = run
      <3>1. row[q].json.status # "completed" /\ row[q].json.node <= 8 /\ row[q].json.node \in 0..10
        BY <1>1, <1>2, <2>1, <2>3, HandlerRuns, StateFields DEF AtWork, Sound
      <3>2. Passed(row[q].json) < GenerateCandidates
        BY <3>1 DEF Passed, GenerateCandidates
      <3>. QED
        BY <2>1, <3>2, SoundTables DEF GenerateCandidates
    <2>. QED
      BY <2>2, <2>3
  <1>17. RowsOK'
    BY <1>11, <1>16 DEF PipelineInv, RowsOK, SoundNow, RunIds, c
  <1>18. TablesOK'
    BY <1>11, <1>14 DEF PipelineInv, TablesOK, RunIds
  <1>19. Sound(factsRow, c, traces, run, st, 7)
    BY <1>2, SoundTables DEF GenerateCandidates
  <1>20. ReasonKept(s)
    BY <1>2, <1>10 DEF ReasonKept
  <1>21. Sound(factsRow, c, traces, run, s, 7)
    BY <1>10, <1>19, <1>20 DEF Sound, FactsAgree, ContextTraced, BlockedUnlessSufficient,
         DecisionStands, ExtractFacts, RetrieveContext, EvaluateContext, GenerateDecision,
         GenerateCandidates
  <1>22. Passed(s) = 7 /\ st.node - 1 = 7 /\ st.node # PersistResult
    BY <1>1, <1>2, <1>10 DEF Passed, PersistResult
  <1>23. CASE s.routing.choice = "review"
    <2>1. pc' = "apply" /\ run' = run /\ st' = s /\ next' = next
      BY <1>12, <1>23
    <2>2. SoundNow(run, st, Passed(st))'
      BY <1>11, <1>21, <1>22, <2>1 DEF SoundNow, c
    <2>3. StateOK'
      BY <1>2, <1>10, <1>11, <2>1, <2>2 DEF StateOK, Executing
    <2>4. row[run].json.status # "completed" /\ row[run].json.node <= st.node
      BY <1>2, HandlerRuns DEF AtWork
    <2>5. PlacedOK'
      BY <1>1, <1>2, <1>10, <1>11, <2>1, <2>4 DEF PlacedOK, AtWork, GenerateCandidates
    <2>6. NextOK' /\ QueryOK'
      BY <1>11, <2>1, NextStays, QueryStays DEF PipelineInv
    <2>. QED
      BY <1>17, <1>18, <2>3, <2>5, <2>6 DEF PipelineInv
  <1>24. CASE s.routing.choice # "review"
    <2>1. Handled(x) /\ run' = run /\ st' = st /\ pc' = "handled"
      BY <1>12, <1>24 DEF Handled
    <2>2. /\ IsState(y) /\ y.reason # "attachments" /\ ReasonKept(y)
          /\ y.facts = s.facts /\ y.context = s.context /\ y.blocked = s.blocked
          /\ y.decision = s.decision /\ y.routing = s.routing /\ y.node = s.node
      <3>1. CASE s.reason = "attachments"
        <4>. DEFINE z == [s EXCEPT !.warned = TRUE, !.reason = "none"]
        <4>1. y = z
          BY <3>1 DEF Warned
        <4>2. /\ IsState(z) /\ z.warned = TRUE /\ z.reason = "none"
              /\ z.facts = s.facts /\ z.context = s.context /\ z.blocked = s.blocked
              /\ z.decision = s.decision /\ z.routing = s.routing /\ z.node = s.node
          BY <1>10, WarnedSet
        <4>. HIDE DEF z, y
        <4>3. ReasonKept(z)
          BY <1>1, <1>10, <4>2 DEF ReasonKept, GenerateCandidates
        <4>. QED
          BY <4>1, <4>2, <4>3
      <3>2. CASE s.reason # "attachments"
        BY <1>10, <1>20, <3>2 DEF Warned
      <3>. QED
        BY <3>1, <3>2
    <2>. HIDE DEF y
    <2>3. "auto_assigned" \in Statuses
      BY DEF Statuses
    <2>4. /\ IsState(x) /\ SameData(x, y) /\ x.status = "auto_assigned" /\ x.node = y.node
          /\ x.reason = y.reason
      BY <2>2, <2>3, StatusSet
    <2>. HIDE DEF x
    <2>5. ReasonKept(x)
      BY <1>1, <1>10, <2>2, <2>4 DEF ReasonKept, SameData, GenerateCandidates
    <2>6. RoutingStands(c, run, x)
      <3>1. x.routing = routing /\ x.facts = st.facts /\ x.reason # "attachments"
        BY <1>10, <2>2, <2>4 DEF SameData
      <3>. QED
        BY <1>6, <1>7, <1>8, <1>10, <1>15, <1>24, <3>1 DEF RoutingStands
    <2>7. Sound(factsRow, c, traces, run, x, 8)
      <3>1. x.facts = s.facts /\ x.context = s.context /\ x.blocked = s.blocked /\ x.decision = s.decision
        BY <2>2, <2>4 DEF SameData
      <3>. QED
        BY <1>21, <2>4, <2>5, <2>6, <3>1 DEF Sound, FactsAgree, ContextTraced, BlockedUnlessSufficient,
           DecisionStands, ExtractFacts, RetrieveContext, EvaluateContext, GenerateDecision,
           GenerateCandidates
    <2>8. PassedAfter(x) = 8 /\ x.node = st.node /\ x.status # "completed"
      BY <1>1, <1>10, <2>2, <2>4 DEF PassedAfter
    <2>9. QueryOK'
      BY <1>11, <2>1, QueryStays DEF PipelineInv
    <2>10. /\ Sound(factsRow', candidates', traces', run, st, st.node - 1)
           /\ Sound(factsRow', candidates', traces', run, x, PassedAfter(x))
      BY <1>11, <1>19, <1>22, <2>7, <2>8 DEF c
    <2>. QED
      BY <1>2, <1>11, <1>17, <1>18, <1>22, <2>1, <2>4, <2>8, <2>9, <2>10, HandledKeeps
  <1>. QED
    BY <1>23, <1>24

LEMMA SaveKeeps ==
    ASSUME PipelineInv, SaveHandled \/ SaveAfter
    PROVE  PipelineInv'
  <1>1. pc \in AtWork
    BY DEF SaveHandled, SaveAfter, AtWork
  <1>2. /\ run \in 1..created /\ IsState(st) /\ st.status # "completed" /\ st.node \in 1..10
        /\ Sound(factsRow, candidates, traces, run, st, st.node - 1)
    BY <1>1, HandlerRuns
  <1>3. /\ UNCHANGED <<created, factsRow, candidates, traces, assignment, query, active, policy>>
        /\ next' \in {next, None}
    BY DEF SaveHandled, SaveAfter, Evidences, Working, others
  <1>4. PICK s \in {next, st} :
          /\ SaveNode(s) /\ SoundNow(run, s, PassedAfter(s)) /\ s.status # "completed" /\ s.node >= 1
    <2>1. CASE SaveHandled
      BY <1>2, <2>1 DEF SaveHandled, PipelineInv, NextOK
    <2>2. CASE SaveAfter
      <3>1. SaveNode(st) /\ (st.node = 10 \/ st.status = "review_required")
        BY <2>2 DEF SaveAfter, PipelineInv, PlacedOK, PersistResult
      <3>2. PassedAfter(st) = st.node - 1 \/ (st.node = 10 /\ PassedAfter(st) = 10)
        BY <3>1 DEF PassedAfter
      <3>3. st.node = 10 => Sound(factsRow, candidates, traces, run, st, 10)
        BY <1>2, SoundLess DEF GenerateCandidates
      <3>. QED
        BY <1>2, <3>1, <3>2, <3>3 DEF SoundNow
    <2>. QED
      BY <2>1, <2>2
  <1>5. RowsOK' /\ StateOK' /\ PlacedOK' /\ pc' \in {"fail", "idle", "final", "node"}
    BY <1>2, <1>3, <1>4, NodeSaved DEF PipelineInv
  <1>. QED
    BY <1>3, <1>5, RestKeeps

LEMMA AppliedKeeps ==
    ASSUME PipelineInv, ApplyReview \/ PersistAssign \/ MarkForward
    PROVE  PipelineInv'
  <1>1. pc \in AtWork
    BY DEF ApplyReview, PersistAssign, MarkForward, AtNode, AtWork
  <1>2. /\ run \in 1..created /\ IsState(st) /\ st.status # "completed" /\ st.node \in 1..10
        /\ Sound(factsRow, candidates, traces, run, st, st.node - 1) /\ Passed(st) = st.node - 1
        /\ row[run].json.status # "completed" /\ row[run].json.node <= st.node /\ ReasonKept(st)
    BY <1>1, HandlerRuns
  <1>3. UNCHANGED <<created, row, factsRow, candidates, traces, query, next, active, policy>>
    BY DEF ApplyReview, PersistAssign, MarkForward, Evidences, Working, others
  <1>4. /\ DOMAIN assignment' = {"user", "status", "source", "fixed"}
        /\ assignment'.user \in Users \cup {"none"}
    BY DEF ApplyReview, PersistAssign, MarkForward, ApplyDecision, PipelineInv, TablesOK
  <1>5. RowsOK' /\ TablesOK'
    BY <1>3, <1>4, RowsStay DEF PipelineInv, TablesOK
  <1>6. /\ run' = run /\ pc' \in {"save", "forward", "fail"} /\ IsState(st')
        /\ Sound(factsRow, candidates, traces, run, st', Passed(st'))
        /\ st'.status # "completed" /\ st'.node = st.node
        /\ pc' = "forward" => st'.node = 10
        /\ pc' = "save" => st'.node = 10 \/ st'.status = "review_required"
    <2>1. CASE ApplyReview
      <3>. DEFINE x == ReviewFor(st, "policy")
      <3>1. pc' = "save" /\ run' = run /\ st' = x /\ st.node = 8
        BY <2>1 DEF ApplyReview, Goto, PipelineInv, PlacedOK, GenerateCandidates
      <3>2. /\ IsState(x) /\ SameData(x, st) /\ x.status = "review_required"
            /\ x.node = st.node /\ x.reason = "policy"
        BY <1>2, ReviewSet DEF Reasons
      <3>. HIDE DEF x
      <3>3. ReasonKept(x) /\ Passed(x) = 7 /\ st.node - 1 = 7
        BY <3>1, <3>2 DEF ReasonKept, Passed
      <3>4. Sound(factsRow, candidates, traces, run, x, Passed(x))
        BY <1>2, <3>2, <3>3, SoundAlike DEF GenerateCandidates
      <3>. QED
        BY <3>1, <3>2, <3>4
    <2>2. CASE PersistAssign
      BY <1>2, <2>2 DEF PersistAssign, Goto, AtNode, PersistResult
    <2>3. CASE MarkForward
      <3>1. pc' \in {"save", "fail"} /\ run' = run /\ st' = st /\ st.node = 10
        BY <2>3 DEF MarkForward, Goto, PipelineInv, PlacedOK, PersistResult
      <3>. QED
        BY <1>2, <3>1
    <2>. QED
      BY <2>1, <2>2, <2>3
  <1>7. StateOK' /\ PlacedOK'
    BY <1>2, <1>3, <1>6 DEF StateOK, PlacedOK, SoundNow, Executing, AtWork, PersistResult
  <1>8. NextOK' /\ QueryOK'
    BY <1>3, <1>6, NextStays, QueryStays DEF PipelineInv
  <1>. QED
    BY <1>5, <1>7, <1>8 DEF PipelineInv

----------------------------------------------------------------------------
LEMMA PipelineHolds == Spec => []PipelineInv
  <1>1. Init => PipelineInv
    <2>. SUFFICES ASSUME Init PROVE PipelineInv
      OBVIOUS
    <2>1. RowsOK
      <3>1. created = 0 /\ row = [r \in RunIds |-> [status |-> "absent", json |-> NewState]]
        BY DEF Init
      <3>2. \A r \in RunIds : row[r].json = NewState /\ DOMAIN row[r] = {"status", "json"}
                              /\ row[r].status \notin Active
        BY <3>1 DEF Active
      <3>. QED
        BY <3>1, <3>2, NewIsSound, BoundsAssumption DEF RowsOK, SoundNow
    <2>2. TablesOK
      BY DEF Init, TablesOK
    <2>3. StateOK /\ PlacedOK
      BY DEF Init, StateOK, PlacedOK, Executing, AtWork
    <2>4. NextOK /\ QueryOK
      BY LimitsAssumption DEF Init, NextOK, QueryOK, NoQuery
    <2>. QED
      BY <2>1, <2>2, <2>3, <2>4 DEF PipelineInv
  <1>2. PipelineInv /\ [Next]_vars => PipelineInv'
    <2>. SUFFICES ASSUME PipelineInv, [Next]_vars PROVE PipelineInv'
      OBVIOUS
    <2>1. CASE UNCHANGED vars
      <3>1. UNCHANGED <<created, row, factsRow, candidates, traces, assignment, pc, run, st, next,
                        query, active, policy>>
        BY <2>1 DEF vars, tables, others
      <3>2. RowsOK' /\ TablesOK'
        BY <3>1, RowsStay, TablesStay DEF PipelineInv
      <3>3. StateOK' /\ PlacedOK'
        BY <3>1 DEF PipelineInv, StateOK, PlacedOK, SoundNow
      <3>4. NextOK'
        BY <3>1 DEF PipelineInv, NextOK, SoundNow
      <3>5. QueryOK'
        BY <3>1 DEF PipelineInv, QueryOK, Trace
      <3>. QED
        BY <3>2, <3>3, <3>4, <3>5 DEF PipelineInv
    <2>2. CASE Handler
      BY <2>2, LoadMailKeeps, AnalyzeKeeps, ExtractKeeps, PlanKeeps, BeginKeeps, QueryKeeps,
         EndKeeps, EvaluateKeeps, GenerateKeeps, RankKeeps DEF Handler
    <2>3. CASE Proceed
      BY <2>2, <2>3, ResetKeeps, StartKeeps, SaveKeeps, AppliedKeeps, FinalKeeps, FailKeeps,
         CrashKeeps DEF Proceed
    <2>4. CASE Next /\ ~Proceed
      BY <2>4, CreateKeeps, JoinKeeps, StepErrorKeeps, CrashKeeps, ManualKeeps, SettingsKeep
         DEF Next
    <2>. QED
      BY <2>1, <2>3, <2>4
  <1>. QED
    BY <1>1, <1>2, PTL DEF Spec

(* Whatever was resumed, repeated or changed on the way, a mail is assigned *)
(* by itself only on a decision of the model that asked for no review, from *)
(* facts without contradictions and on sufficient evidence.                 *)
THEOREM AutomaticIsSupported == Spec => []AutoAssignSupported
  <1>1. PipelineInv => AutoAssignSupported
    <2>. SUFFICES ASSUME PipelineInv, NEW s \in {row[r].json : r \in RunIds} \cup {st},
                         Past(GenerateCandidates, s)
                  PROVE  /\ s.decision.mode = "llm" /\ ~s.decision.review
                         /\ ~s.facts.contradictory /\ s.context.sufficient /\ ~s.blocked
      BY DEF AutoAssignSupported
    <2>1. PICK r, k : Sound(factsRow, candidates, traces, r, s, k) /\ k = Passed(s)
      <3>1. CASE s = st /\ pc \in Executing
        BY <3>1 DEF PipelineInv, StateOK, SoundNow
      <3>2. CASE s = NewState
        BY <3>2, NewIsSound
      <3>3. CASE s \in {row[r].json : r \in RunIds}
        BY <3>3 DEF PipelineInv, RowsOK, SoundNow
      <3>. QED
        BY <3>1, <3>2, <3>3 DEF PipelineInv, StateOK
    <2>2. k \in Int /\ k >= 8
      BY <2>1, StateFields DEF Sound, Passed, Past, GenerateCandidates, PersistResult
    <2>. QED
      BY <2>1, <2>2 DEF Sound, BlockedUnlessSufficient, DecisionStands, RoutingStands,
         EvaluateContext, GenerateDecision, GenerateCandidates
  <1>. QED
    BY <1>1, PipelineHolds, PTL

(* The tables say of a run what its saved state says: the facts, the        *)
(* candidates, and a marked trace for everything that was in the prompt.    *)
THEOREM TablesShowTheRun == Spec => []RowsMatchState
  <1>1. PipelineInv => RowsMatchState
    <2>. SUFFICES ASSUME PipelineInv, NEW r \in 1..created, NEW s, s = row[r].json
                  PROVE  /\ Past(ExtractFacts, s) /\ factsRow.run = r => factsRow.facts = s.facts
                         /\ Past(GenerateCandidates, s) => candidates[r] = s.routing.ranking
                         /\ Past(RetrieveContext, s) => \A h \in s.context.selected :
                               [run |-> r, id |-> h.id, included |-> TRUE] \in traces
      BY DEF RowsMatchState
    <2>1. Sound(factsRow, candidates, traces, r, s, Passed(s))
      BY RunsExist DEF PipelineInv, RowsOK, SoundNow
    <2>2. Passed(s) \in Int /\ \A n \in 1..10 : Past(n, s) => Passed(s) >= n
      BY <2>1, StateFields DEF Sound, Passed, Past, PersistResult
    <2>. QED
      BY <2>1, <2>2 DEF Sound, FactsAgree, ContextTraced, RoutingStands, ExtractFacts,
         RetrieveContext, GenerateCandidates
  <1>. QED
    BY <1>1, PipelineHolds, PTL

(* A mail with attachments that could not be read is assigned by itself     *)
(* only with a note about them, unless another reason had replaced theirs.  *)
THEOREM UnreadIsNoted == Spec => []IncompleteNoted
  <1>1. PipelineInv => IncompleteNoted
    <2>. SUFFICES ASSUME PipelineInv, NEW r \in 1..created, NEW s, s = row[r].json,
                         s.incomplete, s.status \in {"auto_assigned", "completed"}
                  PROVE  s.warned \/ s.reason \in {"decision", "policy"}
      BY DEF IncompleteNoted
    <2>1. Sound(factsRow, candidates, traces, r, s, Passed(s))
      BY RunsExist DEF PipelineInv, RowsOK, SoundNow
    <2>2. s.reason # "attachments"
      <3>1. CASE s.status = "auto_assigned"
        BY <2>1, <3>1 DEF Sound, ReasonKept
      <3>2. CASE s.status = "completed"
        BY <2>1, <3>2 DEF Sound, RoutingStands, Passed, PersistResult, GenerateCandidates
      <3>. QED
        BY <3>1, <3>2
    <2>. QED
      BY <2>1, <2>2 DEF Sound, ReasonKept
  <1>. QED
    BY <1>1, PipelineHolds, PTL

----------------------------------------------------------------------------
(* The plan of a cycle is a sequence within its limit.                      *)
SomeSeq(s) == \E S : s \in Seq(S)

LEMMA ConcatSome ==
    ASSUME NEW s, NEW t, SomeSeq(s), SomeSeq(t)
    PROVE  SomeSeq(s \o t)
  <1>1. PICK S : s \in Seq(S)
    BY DEF SomeSeq
  <1>2. PICK T : t \in Seq(T)
    BY DEF SomeSeq
  <1>3. s \in Seq(S \cup T) /\ t \in Seq(S \cup T)
    BY <1>1, <1>2, SeqMonotonic
  <1>4. s \o t \in Seq(S \cup T)
    BY <1>3, ConcatProperties
  <1>. QED
    BY <1>4 DEF SomeSeq

LEMMA QueriesSome ==
    ASSUME NEW how, NEW keys, IsFiniteSet(keys)
    PROVE  SomeSeq(Query(how, keys))
  <1>. DEFINE n == Cardinality(keys)
              q == Query(how, keys)
              S == {q[i] : i \in 1..n}
  <1>1. n \in Nat
    BY FS_CardinalityType
  <1>2. q \in [1..n -> S]
    BY DEF Query
  <1>. HIDE DEF q, n, S
  <1>3. q \in Seq(S)
    BY <1>1, <1>2, SeqDef
  <1>. QED
    BY <1>3 DEF SomeSeq, q

LEMMA PlannedSome ==
    ASSUME NEW f \in Facts, NEW cycle
    PROVE  SomeSeq(Planned(f, cycle))
  <1>1. \A kinds : IsFiniteSet(OfKind(f, kinds)) /\ IsFiniteSet(f.types)
    <2>1. f.types \subseteq Types /\ \A kinds : OfKind(f, kinds) \subseteq Names
      BY DEF Facts, OfKind
    <2>. QED
      BY <2>1, FS_Subset, NamesAssumption
  <1>2. \A kinds : IsFiniteSet(OfKind(f, kinds) \cup f.types)
    BY <1>1, FS_Union
  <1>3. IsFiniteSet({"sender"}) /\ IsFiniteSet({"text"}) /\ IsFiniteSet({"broad"})
    BY FS_Singleton
  <1>4. IsFiniteSet({k \in {"broad"} : cycle > 1})
    BY <1>3, FS_Subset
  <1>5. /\ SomeSeq(Query("exact", {"sender"}))
        /\ SomeSeq(Query("exact", OfKind(f, {"customer", "part", "project", "vessel"})))
        /\ SomeSeq(Query("rule", f.types))
        /\ SomeSeq(Query("capability", OfKind(f, {"customer", "group", "project"}) \cup f.types))
        /\ SomeSeq(Query("similar", {"text"}))
        /\ SomeSeq(Query("similar", {k \in {"broad"} : cycle > 1}))
    BY <1>1, <1>2, <1>3, <1>4, QueriesSome
  <1>. QED
    BY <1>5, ConcatSome DEF Planned

LEMMA PlanLimited ==
    ASSUME NEW f \in Facts, NEW cycle
    PROVE  SomeSeq(Plan(f, cycle)) /\ Len(Plan(f, cycle)) \in Nat /\ Len(Plan(f, cycle)) <= PlanLimit
  <1>. DEFINE p == Planned(f, cycle)
              n == IF PlanLimit < Len(p) THEN PlanLimit ELSE Len(p)
  <1>1. PICK S : p \in Seq(S)
    BY PlannedSome DEF SomeSeq
  <1>2. Plan(f, cycle) = SubSeq(p, 1, n)
    BY DEF Plan
  <1>. HIDE DEF p
  <1>3. Len(p) \in Nat /\ \A i \in 1..Len(p) : p[i] \in S
    BY <1>1, LenProperties, ElementOfSeq
  <1>4. n \in Nat /\ n <= PlanLimit /\ n <= Len(p)
    BY <1>3, LimitsAssumption
  <1>. HIDE DEF n
  <1>5. SubSeq(p, 1, n) \in Seq(S) /\ Len(SubSeq(p, 1, n)) = IF 1 <= n THEN n - 1 + 1 ELSE 0
    <2>1. \A i \in 1..n : p[i] \in S
      BY <1>3, <1>4
    <2>2. 1 \in Int /\ n \in Int
      BY <1>4
    <2>. QED
      BY <2>1, <2>2, SubSeqProperties
  <1>6. Len(SubSeq(p, 1, n)) \in Nat /\ Len(SubSeq(p, 1, n)) <= PlanLimit
    BY <1>4, <1>5
  <1>. QED
    BY <1>2, <1>5, <1>6 DEF SomeSeq

TodoOK == SomeSeq(query.todo) /\ Len(query.todo) \in Nat /\ Len(query.todo) <= PlanLimit

LEMMA TodoHolds == Spec => []TodoOK
  <1>1. SomeSeq(<<>>) /\ Len(<<>>) = 0 /\ PlanLimit \in Nat
    BY EmptySeq, LimitsAssumption DEF SomeSeq
  <1>2. Init => TodoOK
    BY <1>1 DEF Init, NoQuery, TodoOK
  <1>3. TodoOK /\ PipelineInv /\ [Next]_vars => TodoOK'
    <2>. SUFFICES ASSUME TodoOK, PipelineInv, [Next]_vars PROVE TodoOK'
      OBVIOUS
    <2>1. CASE query' \in {query, NoQuery}
      BY <1>1, <2>1 DEF TodoOK, NoQuery
    <2>2. CASE BeginRetrieval \/ NextCycle
      <3>1. CASE UNCHANGED query
        BY <2>1, <3>1
      <3>2. CASE ~UNCHANGED query
        <4>1. PICK k : query'.todo = Plan(st.facts, k) /\ st.facts # None /\ pc \in Executing
          <5>1. CASE BeginRetrieval
            BY <3>2, <5>1 DEF BeginRetrieval, AtNode, Executing
          <5>2. CASE NextCycle
            BY <5>2 DEF NextCycle, PipelineInv, QueryOK, Executing
          <5>. QED
            BY <2>2, <5>1, <5>2
        <4>2. st.facts \in Facts
          BY <4>1, AtRun DEF IsState
        <4>. QED
          BY <4>1, <4>2, PlanLimited DEF TodoOK
      <3>. QED
        BY <3>1, <3>2
    <2>3. CASE RunQuery
      <3>1. query'.todo = Tail(query.todo) /\ query.todo # <<>>
        BY <2>3 DEF RunQuery, PipelineInv, QueryOK
      <3>2. PICK S : query.todo \in Seq(S)
        BY DEF TodoOK, SomeSeq
      <3>3. Tail(query.todo) \in Seq(S) /\ Len(Tail(query.todo)) = Len(query.todo) - 1
            /\ Len(query.todo) \in Nat \ {0}
        BY <3>1, <3>2, HeadTailProperties, EmptySeq
      <3>4. Len(Tail(query.todo)) \in Nat /\ Len(Tail(query.todo)) <= PlanLimit
        BY <1>1, <3>3 DEF TodoOK
      <3>. QED
        BY <3>1, <3>3, <3>4 DEF TodoOK, SomeSeq
    <2>4. CASE Handler /\ ~BeginRetrieval /\ ~RunQuery /\ ~NextCycle
      BY <2>1, <2>4 DEF Handler, LoadMail, AnalyzeAll, Extract, PlanFirst, EndRetrieval, Evaluate,
         GenerateTheDecision, RankUsers, Validate, HandledOnly
    <2>5. CASE (Next /\ ~Handler) \/ UNCHANGED vars
      BY <2>1, <2>5 DEF Next, CreateRun, JoinRun, ResumeRun, Proceed, Reset, Start, SaveHandled,
         ApplyReview, PersistAssign, MarkForward, SaveAfter, Final, Fail, EnsureWork, StepError,
         Crash, ManualAssign, SetUserStatus, SaveSettings, Working, vars
    <2>. QED
      BY <2>2, <2>3, <2>4, <2>5 DEF Next, Proceed, Handler
  <1>. QED
    BY <1>1, <1>2, <1>3, PipelineHolds, PTL DEF Spec

(* The tables hold what the schema allows and the execution what it can     *)
(* hold in memory; a plan never has more queries than its limit.            *)
THEOREM WorkflowIsTyped == Spec => []TypeOK
  <1>1. PipelineInv /\ TodoOK => TypeOK
    <2>. SUFFICES ASSUME PipelineInv, TodoOK PROVE TypeOK
      OBVIOUS
    <2>1. \A r \in RunIds : IsState(row[r].json)
      BY DEF PipelineInv, RowsOK, SoundNow, Sound
    <2>2. IsState(st)
      <3>1. IsState(NewState)
        BY NewIsSound
      <3>. QED
        BY <3>1 DEF PipelineInv, StateOK
    <2>3. pc \in {"idle", "reset", "start", "node", "query", "handled", "apply",
               "forward", "save", "final", "fail", "ensure"}
      BY DEF PipelineInv, StateOK, Executing
    <2>. QED
      BY <2>1, <2>2, <2>3 DEF TypeOK, PipelineInv, RowsOK, TablesOK, NextOK, QueryOK, TodoOK
  <1>. QED
    BY <1>1, PipelineHolds, TodoHolds, PTL

----------------------------------------------------------------------------
(* The states of MailDecisionRun.                                           *)
LEMMA PlainFields ==
    ASSUME NEW s
    PROVE  /\ Plain(s).status = s.status /\ Plain(s).node = s.node
           /\ Plain(s).facts = (s.facts # None) /\ Plain(s).decision = (s.decision # None)
           /\ Plain(s).retrieval = (IF s.context = None THEN "none"
                                    ELSE IF s.context.sufficient THEN "sufficient" ELSE "insufficient")
           /\ Plain(s).routing = (IF s.routing = None THEN "none" ELSE s.routing.choice)
  BY DEF Plain

LEMMA PlainAlike ==
    ASSUME NEW s, NEW x, x.status = s.status, x.node = s.node, x.facts = s.facts,
           x.context = s.context, x.decision = s.decision, x.routing = s.routing
    PROVE  Plain(x) = Plain(s)
  BY DEF Plain

LEMMA PlainNew == Plain(NewState) = Run!NewState
  BY DEF Plain, NewState, Run!NewState, Run!NoNode

LEMMA FieldSet ==
    ASSUME NEW a, NEW b, NEW c, NEW d, NEW e, NEW k, NEW v
    PROVE  LET p == [status |-> a, node |-> b, facts |-> c, retrieval |-> d, decision |-> e,
                     routing |-> k]
           IN  /\ [p EXCEPT !.facts = v] = [status |-> a, node |-> b, facts |-> v,
                        retrieval |-> d, decision |-> e, routing |-> k]
               /\ [p EXCEPT !.decision = v] = [status |-> a, node |-> b, facts |-> c,
                        retrieval |-> d, decision |-> v, routing |-> k]
  OBVIOUS

LEMMA PlainUpdates ==
    ASSUME NEW s, IsState(s), NEW v
    PROVE  /\ Plain([s EXCEPT !.status = v]) = [Plain(s) EXCEPT !.status = v]
           /\ Plain([s EXCEPT !.node = v]) = [Plain(s) EXCEPT !.node = v]
           /\ Plain([s EXCEPT !.status = "completed", !.node = 0])
                = [Plain(s) EXCEPT !.status = "completed", !.node = 0]
           /\ v # None => Plain([s EXCEPT !.facts = v]) = [Plain(s) EXCEPT !.facts = TRUE]
           /\ v # None => Plain([s EXCEPT !.context = v])
                = [Plain(s) EXCEPT !.retrieval = IF v.sufficient THEN "sufficient" ELSE "insufficient"]
           /\ v # None => Plain([s EXCEPT !.decision = v]) = [Plain(s) EXCEPT !.decision = TRUE]
           /\ v # None => Plain([s EXCEPT !.routing = v]) = [Plain(s) EXCEPT !.routing = v.choice]
           /\ Plain(ReviewFor(s, v)) = Run!Review(Plain(s))
  <1>1. Plain([s EXCEPT !.status = v]) = [Plain(s) EXCEPT !.status = v]
    BY DEF Plain, IsState, NewState
  <1>2. Plain([s EXCEPT !.node = v]) = [Plain(s) EXCEPT !.node = v]
    BY DEF Plain, IsState, NewState
  <1>3. Plain([s EXCEPT !.status = "completed", !.node = 0])
          = [Plain(s) EXCEPT !.status = "completed", !.node = 0]
    <2>. DEFINE x == [s EXCEPT !.status = "completed"]
    <2>1. Plain(x) = [Plain(s) EXCEPT !.status = "completed"]
      BY DEF Plain, IsState, NewState
    <2>2. DOMAIN x = DOMAIN NewState /\ [x EXCEPT !.node = 0] = [s EXCEPT !.status = "completed", !.node = 0]
      BY DEF IsState, NewState
    <2>. HIDE DEF x
    <2>3. Plain([x EXCEPT !.node = 0]) = [Plain(x) EXCEPT !.node = 0]
      BY <2>2 DEF Plain, NewState
    <2>. QED
      BY <2>1, <2>2, <2>3
  <1>4. ASSUME v # None PROVE Plain([s EXCEPT !.facts = v]) = [Plain(s) EXCEPT !.facts = TRUE]
    <2>1. Plain([s EXCEPT !.facts = v]) =
            [status |-> s.status, node |-> s.node, facts |-> TRUE, retrieval |-> Plain(s).retrieval,
             decision |-> s.decision # None, routing |-> Plain(s).routing]
      BY <1>4 DEF Plain, IsState, NewState
    <2>2. PICK yes, f, g, d, k : /\ yes = TRUE /\ f = (s.facts # None) /\ g = (s.decision # None)
                                 /\ d = Plain(s).retrieval /\ k = Plain(s).routing
      OBVIOUS
    <2>3. Plain(s) = [status |-> s.status, node |-> s.node, facts |-> f, retrieval |-> d,
                      decision |-> g, routing |-> k]
      BY <2>2 DEF Plain
    <2>4. [Plain(s) EXCEPT !.facts = yes] = [status |-> s.status, node |-> s.node,
             facts |-> yes, retrieval |-> d, decision |-> g, routing |-> k]
      BY <2>3, FieldSet
    <2>. QED
      BY <2>1, <2>2, <2>4
  <1>5. v # None => Plain([s EXCEPT !.context = v])
          = [Plain(s) EXCEPT !.retrieval = IF v.sufficient THEN "sufficient" ELSE "insufficient"]
    BY DEF Plain, IsState, NewState
  <1>6. ASSUME v # None PROVE Plain([s EXCEPT !.decision = v]) = [Plain(s) EXCEPT !.decision = TRUE]
    <2>1. Plain([s EXCEPT !.decision = v]) =
            [status |-> s.status, node |-> s.node, facts |-> s.facts # None,
             retrieval |-> Plain(s).retrieval, decision |-> TRUE, routing |-> Plain(s).routing]
      BY <1>6 DEF Plain, IsState, NewState
    <2>2. PICK yes, f, g, d, k : /\ yes = TRUE /\ f = (s.facts # None) /\ g = (s.decision # None)
                                 /\ d = Plain(s).retrieval /\ k = Plain(s).routing
      OBVIOUS
    <2>3. Plain(s) = [status |-> s.status, node |-> s.node, facts |-> f, retrieval |-> d,
                      decision |-> g, routing |-> k]
      BY <2>2 DEF Plain
    <2>4. [Plain(s) EXCEPT !.decision = yes] = [status |-> s.status, node |-> s.node,
             facts |-> f, retrieval |-> d, decision |-> yes, routing |-> k]
      BY <2>3, FieldSet
    <2>. QED
      BY <2>1, <2>2, <2>4
  <1>7. v # None => Plain([s EXCEPT !.routing = v]) = [Plain(s) EXCEPT !.routing = v.choice]
    BY DEF Plain, IsState, NewState
  <1>8. Plain(ReviewFor(s, v)) = Run!Review(Plain(s))
    BY DEF Plain, IsState, NewState, ReviewFor, Run!Review
  <1>. QED
    BY <1>1, <1>2, <1>3, <1>4, <1>5, <1>6, <1>7, <1>8

(* Its variables.                                                           *)
LEMMA OneFields ==
    ASSUME NEW x, NEW y
    PROVE  One(x)[Executor] = x /\ [One(x) EXCEPT ![Executor] = y] = One(y)
  BY DEF One

LEMMA PlainRows ==
    /\ DOMAIN PlainRow = RunIds
    /\ \A r \in RunIds : /\ PlainRow[r].status = row[r].status
                         /\ PlainRow[r].json = Plain(row[r].json)
  BY DEF PlainRow

LEMMA GotoMaps ==
    ASSUME NEW where, where \notin {"query", "handled"}, NEW r, NEW s, Goto(where, r, s)
    PROVE  Run!Goto(Executor, where, r, Plain(s))
  BY OneFields DEF Goto, Run!Goto, PlainPc, PlainRun, PlainSt

LEMMA ReturnMaps ==
    ASSUME Return
    PROVE  Run!Return(Executor)
  BY GotoMaps, PlainNew, OneFields DEF Return, Run!Return, PlainSeen

LEMMA SaveMaps ==
    ASSUME RowsOK, NEW r \in RunIds, NEW s, Save(r, s)
    PROVE  Run!Save(r, Plain(s))
  <1>1. DOMAIN row = RunIds /\ row' = [row EXCEPT ![r] = [status |-> s.status, json |-> s]]
    BY DEF RowsOK, Save
  <1>2. row'[r] = [status |-> s.status, json |-> s] /\ \A q \in RunIds \ {r} : row'[q] = row[q]
    BY <1>1
  <1>3. PlainRow' = [q \in RunIds |-> [status |-> row'[q].status, json |-> Plain(row'[q].json)]]
    BY DEF PlainRow, RunIds, Plain
  <1>4. PlainRow' = [PlainRow EXCEPT ![r] = [status |-> s.status, json |-> Plain(s)]]
    <2>. DEFINE E == [PlainRow EXCEPT ![r] = [status |-> s.status, json |-> Plain(s)]]
                at(q) == [status |-> row'[q].status, json |-> Plain(row'[q].json)]
    <2>1. at(r) = [status |-> s.status, json |-> Plain(s)]
      BY <1>2
    <2>2. \A q \in RunIds \ {r} : at(q) = PlainRow[q]
      BY <1>2 DEF PlainRow
    <2>3. PlainRow' = [q \in RunIds |-> at(q)]
      BY <1>3
    <2>. HIDE DEF at
    <2>4. DOMAIN PlainRow = RunIds /\ PlainRow = [q \in RunIds |-> PlainRow[q]]
      BY DEF PlainRow
    <2>. QED
      BY <2>1, <2>2, <2>3, <2>4
  <1>. QED
    BY <1>4, PlainFields DEF Run!Save

LEMMA ConflictMaps ==
    ASSUME NEW r, NEW s
    PROVE  Run!Conflict(r, Plain(s)) <=> Conflict(r, s)
  BY PlainRows, PlainFields DEF Run!Conflict, Conflict, Run!Active, Active, Run!RunIds, RunIds

----------------------------------------------------------------------------
(* What a handler has returned is what the abstract node may return.        *)
HandledAllowed == pc = "handled" => Plain(next) \in Run!Outcomes(st.node, Plain(st))
BudgetsOK == calls \in Nat /\ changes \in Nat /\ crashes \in Nat /\ errors \in Nat
MapInv == PipelineInv /\ HandledAllowed /\ BudgetsOK

LEMMA NodesAgree ==
    /\ Run!LoadMailContext = 1 /\ Run!AnalyzeAttachments = 2 /\ Run!ExtractFacts = 3
    /\ Run!PlanRetrieval = 4 /\ Run!RetrieveContext = 5 /\ Run!EvaluateContext = 6
    /\ Run!GenerateDecision = 7 /\ Run!GenerateCandidates = 8 /\ Run!ValidateDecision = 9
    /\ Run!PersistResult = 10 /\ Run!NoNode = 0
  BY DEF Run!LoadMailContext, Run!AnalyzeAttachments, Run!ExtractFacts, Run!PlanRetrieval,
         Run!RetrieveContext, Run!EvaluateContext, Run!GenerateDecision,
         Run!GenerateCandidates, Run!ValidateDecision, Run!PersistResult, Run!NoNode

LEMMA InputsThere ==
    ASSUME PipelineInv, pc \in AtWork
    PROVE  Run!HasInputs(st.node, Plain(st))
  <1>1. Sound(factsRow, candidates, traces, run, st, st.node - 1) /\ st.node \in 1..10
    BY HandlerRuns
  <1>2. /\ st.node >= 4 => st.facts # None
        /\ st.node >= 6 => st.context # None
        /\ st.node >= 8 => st.decision # None
        /\ st.node >= 9 => st.routing # None /\ st.routing.choice \in Users
    BY <1>1 DEF Sound, FactsAgree, ContextTraced, DecisionStands, RoutingStands,
         ExtractFacts, RetrieveContext, EvaluateContext, GenerateDecision, GenerateCandidates
  <1>3. /\ st.node >= 4 => Plain(st).facts
        /\ st.node >= 6 => Plain(st).retrieval # "none"
        /\ st.node >= 8 => Plain(st).decision
        /\ st.node >= 9 => Plain(st).routing \in Users
    BY <1>2, PlainFields
  <1>. QED
    BY <1>1, <1>3, NodesAgree DEF Run!HasInputs

LEMMA OutcomeOf ==
    ASSUME PipelineInv, pc \in AtWork, NEW x, x \in Run!Results(st.node, Plain(st))
    PROVE  x \in Run!Outcomes(st.node, Plain(st))
  BY InputsThere DEF Run!Outcomes

LEMMA HandlersAllowed ==
    ASSUME PipelineInv, Handler, pc' = "handled"
    PROVE  Plain(next') \in Run!Outcomes(st.node, Plain(st))
  <1>1. pc \in AtWork
    BY DEF Handler, LoadMail, AnalyzeAll, Extract, PlanFirst, BeginRetrieval, RunQuery, NextCycle,
         EndRetrieval, Evaluate, GenerateTheDecision, RankUsers, Validate, AtNode, AtWork
  <1>2. IsState(st) /\ Sound(factsRow, candidates, traces, run, st, st.node - 1)
    BY <1>1, HandlerRuns
  <1>3. Plain(next') \in Run!Results(st.node, Plain(st))
    <2>1. CASE LoadMail
      <3>. DEFINE facts == [names |-> {}, types |-> {}, actions |-> FALSE, contradictory |-> FALSE]
      <3>1. next' = [st EXCEPT !.facts = facts] /\ st.node = 1
        BY <2>1 DEF LoadMail, HandledOnly, Handled, AtNode, LoadMailContext
      <3>2. facts # None
        <4>1. facts \in Facts
          BY DEF Facts
        <4>. QED
          BY <4>1, NoneAssumption
      <3>. HIDE DEF facts
      <3>3. Plain(next') = [Plain(st) EXCEPT !.facts = TRUE]
        BY <1>2, <3>1, <3>2, PlainUpdates
      <3>. QED
        BY <3>1, <3>3, NodesAgree DEF Run!Results
    <2>2. CASE AnalyzeAll
      <3>. DEFINE y == [st EXCEPT !.incomplete = TRUE, !.reason = "attachments"]
      <3>1. next' \in {y, st} /\ st.node = 2
        BY <2>2 DEF AnalyzeAll, HandledOnly, Handled, AtNode, AnalyzeAttachments
      <3>2. Plain(y) = Plain(st)
        BY <1>2, PlainAlike DEF IsState, NewState
      <3>. HIDE DEF y
      <3>3. Plain(next') = Plain(st)
        BY <3>1, <3>2
      <3>. QED
        BY <3>1, <3>3, NodesAgree DEF Run!Results
    <2>3. CASE Extract
      <3>1. PICK f \in Extracted : next' = [st EXCEPT !.facts = f]
        BY <2>3 DEF Extract, Handled
      <3>2. f # None /\ st.node = 3
        BY <2>3, ExtractedAreFacts, NoneAssumption DEF Extract, AtNode, ExtractFacts
      <3>3. Plain(next') = [Plain(st) EXCEPT !.facts = TRUE]
        BY <1>2, <3>1, <3>2, PlainUpdates
      <3>. QED
        BY <3>2, <3>3, NodesAgree DEF Run!Results
    <2>4. CASE PlanFirst
      <3>1. st.node = 4 /\ next' = Requires(st.facts # None, st)
        BY <2>4 DEF PlanFirst, HandledOnly, Handled, AtNode, PlanRetrieval
      <3>2. st.facts # None
        BY <1>2, <3>1 DEF Sound, FactsAgree, ExtractFacts
      <3>3. next' = st
        BY <3>1, <3>2 DEF Requires
      <3>. QED
        BY <3>1, <3>3, NodesAgree DEF Run!Results
    <2>5. CASE BeginRetrieval \/ RunQuery \/ NextCycle
      <3>1. st.facts # None \/ ~BeginRetrieval
        BY <1>2 DEF BeginRetrieval, AtNode, RetrieveContext, Sound, FactsAgree, ExtractFacts
      <3>. QED
        BY <2>5, <3>1 DEF BeginRetrieval, RunQuery, NextCycle
    <2>6. CASE EndRetrieval
      <3>1. PICK sel \in Selections(query.hits) :
              next' = [st EXCEPT !.context = [sufficient |-> Sufficient(st.facts, sel), selected |-> sel]]
        BY <2>6 DEF EndRetrieval, Handled
      <3>. DEFINE context == [sufficient |-> Sufficient(st.facts, sel), selected |-> sel]
      <3>2. st.node = 5 /\ query.hits \subseteq Hit
        BY <2>6 DEF EndRetrieval, PipelineInv, QueryOK, RetrieveContext
      <3>3. sel \subseteq Hit
        BY <3>2 DEF Selections, Best
      <3>4. Sufficient(st.facts, sel) \in BOOLEAN
        BY Zenon DEF Sufficient, HasAssignee
      <3>5. context # None
        <4>1. context \in Context
          BY <3>3, <3>4 DEF Context
        <4>. QED
          BY <4>1, NoneAssumption
      <3>6. next' = [st EXCEPT !.context = context]
        BY <3>1
      <3>. HIDE DEF context
      <3>7. PICK c \in {"sufficient", "insufficient"} : Plain(next') = [Plain(st) EXCEPT !.retrieval = c]
        BY <1>2, <3>5, <3>6, PlainUpdates
      <3>. QED
        BY <3>2, <3>7, NodesAgree DEF Run!Results
    <2>7. CASE Evaluate
      <3>. DEFINE y == [st EXCEPT !.blocked = TRUE]
      <3>1. st.node = 6
        BY <2>7 DEF Evaluate, AtNode, EvaluateContext
      <3>2. st.context # None
        BY <1>2, <3>1 DEF Sound, ContextTraced, RetrieveContext
      <3>3. next' \in {y, st}
        BY <2>7, <3>2 DEF Evaluate, HandledOnly, Handled, Evaluated
      <3>4. Plain(y) = Plain(st)
        BY <1>2, PlainAlike DEF IsState, NewState
      <3>. HIDE DEF y
      <3>5. Plain(next') = Plain(st)
        BY <3>3, <3>4
      <3>. QED
        BY <3>1, <3>5, NodesAgree DEF Run!Results
    <2>8. CASE GenerateTheDecision
      <3>1. st.node = 7
        BY <2>8 DEF GenerateTheDecision, AtNode, GenerateDecision
      <3>2. st.facts # None /\ st.context # None /\ st.facts \in Facts /\ st.blocked \in BOOLEAN
        BY <1>2, <3>1, StateFields DEF Sound, FactsAgree, ContextTraced, RetrieveContext, ExtractFacts, IsState
      <3>3. PICK d \in Decide(st.facts) \cup FallbackDecision(st.facts, General) :
              next' = Decided(Blocking(d))
        BY <2>8, <3>2 DEF GenerateTheDecision, HandledOnly, Handled
      <3>. DEFINE e == Blocking(d)
                  y == [st EXCEPT !.decision = e]
      <3>4. d \in Decision
        BY <3>2, DecisionsAgree
      <3>5. e \in Decision /\ (~e.review => ~st.blocked)
        BY <3>2, <3>4 DEF Blocking, Decision
      <3>6. e # None
        BY <3>5, NoneAssumption
      <3>7. next' = IF e.review THEN ReviewFor(y, "decision") ELSE y
        BY <3>3 DEF Decided
      <3>. HIDE DEF e
      <3>8. Plain(y) = [Plain(st) EXCEPT !.decision = TRUE]
        BY <1>2, <3>6, PlainUpdates
      <3>9. IsState(y)
        BY <1>2, <3>5, DecisionSet
      <3>. HIDE DEF y
      <3>10. Plain(ReviewFor(y, "decision")) = Run!Review(Plain(y))
        BY <3>9, PlainUpdates
      <3>11. ~e.review => Plain(st).retrieval = "sufficient"
        <4>1. st.context.sufficient \/ st.blocked
          BY <1>2, <3>1 DEF Sound, BlockedUnlessSufficient, EvaluateContext
        <4>. QED
          BY <3>2, <3>5, <4>1, PlainFields
      <3>12. Plain(next') \in Run!Decided(Plain(st))
        <4>1. CASE e.review
          BY <3>7, <3>8, <3>10, <4>1 DEF Run!Decided
        <4>2. CASE ~e.review
          BY <3>7, <3>8, <3>11, <4>2 DEF Run!Decided
        <4>. QED
          BY <4>1, <4>2
      <3>. QED
        BY <3>1, <3>12, NodesAgree DEF Run!Results
    <2>9. CASE RankUsers
      <3>1. st.node = 8
        BY <2>9 DEF RankUsers, AtNode, GenerateCandidates
      <3>2. st.facts # None /\ st.context # None /\ st.decision # None
        BY <1>2, <3>1 DEF Sound, FactsAgree, ContextTraced, DecisionStands, RetrieveContext,
             ExtractFacts, GenerateDecision
      <3>3. PICK r \in Rankings(active, st.facts, st.decision.type, st.context.selected) :
              LET s == [st EXCEPT !.routing = [choice |-> Chosen(r), ranking |-> r]]
              IN  IF s.routing.choice = "review"
                  THEN Goto("apply", run, s)
                  ELSE Handled([Warned(s) EXCEPT !.status = "auto_assigned"])
        BY <2>9, <3>2 DEF RankUsers
      <3>. DEFINE routing == [choice |-> Chosen(r), ranking |-> r]
                  s == [st EXCEPT !.routing = routing]
      <3>4. s.routing.choice # "review" /\ next' = [Warned(s) EXCEPT !.status = "auto_assigned"]
        BY <3>3 DEF Goto, Handled
      <3>5. routing.choice = Chosen(r) /\ routing.ranking = r
        OBVIOUS
      <3>6. r \in Seq(Users) /\ (r # <<>> => r[1] \in Users)
        BY RankingsAreSequences DEF PipelineInv, TablesOK
      <3>7. Chosen(r) \in Users \cup {"review"}
        BY <3>6 DEF Chosen, Assigns
      <3>8. routing # None
        BY <3>6, <3>7, NoneAssumption DEF Routing
      <3>. HIDE DEF routing
      <3>9. IsState(s) /\ s.routing = routing
        BY <1>2, <3>5, <3>7, RoutingSet
      <3>10. Plain(s) = [Plain(st) EXCEPT !.routing = routing.choice]
        BY <1>2, <3>8, PlainUpdates
      <3>. HIDE DEF s
      <3>11. IsState(Warned(s)) /\ Plain(Warned(s)) = Plain(s)
        <4>1. CASE s.reason = "attachments"
          <5>. DEFINE z == [s EXCEPT !.warned = TRUE, !.reason = "none"]
          <5>1. Warned(s) = z
            BY <4>1 DEF Warned
          <5>2. /\ IsState(z) /\ z.facts = s.facts /\ z.context = s.context
                /\ z.decision = s.decision /\ z.routing = s.routing
                /\ z.status = s.status /\ z.node = s.node
            BY <3>9, WarnedSet
          <5>. HIDE DEF z
          <5>. QED
            BY <5>1, <5>2, PlainAlike
        <4>2. CASE s.reason # "attachments"
          BY <3>9, <4>2 DEF Warned
        <4>. QED
          BY <4>1, <4>2
      <3>12. Plain(next') = [Plain(s) EXCEPT !.status = "auto_assigned"]
        <4>. DEFINE w == Warned(s)
        <4>1. next' = [w EXCEPT !.status = "auto_assigned"]
          BY <3>4
        <4>2. IsState(w) /\ Plain(w) = Plain(s)
          BY <3>11
        <4>. HIDE DEF w
        <4>3. Plain([w EXCEPT !.status = "auto_assigned"]) = [Plain(w) EXCEPT !.status = "auto_assigned"]
          BY <4>2, PlainUpdates
        <4>. QED
          BY <4>1, <4>2, <4>3
      <3>13. routing.choice \in Users
        BY <3>4, <3>5, <3>7, <3>9
      <3>14. Plain(next') = [Plain(st) EXCEPT !.routing = routing.choice, !.status = "auto_assigned"]
        BY <3>10, <3>12
      <3>. QED
        BY <3>1, <3>13, <3>14, NodesAgree DEF Run!Results
    <2>10. CASE Validate
      <3>1. st.node = 9 /\ next' = Requires(st.routing # None /\ st.routing.choice \in Users, st)
        BY <2>10 DEF Validate, HandledOnly, Handled, AtNode, ValidateDecision
      <3>2. st.routing # None /\ st.routing.choice \in Users
        BY <1>2, <3>1 DEF Sound, RoutingStands, GenerateCandidates
      <3>3. next' = st
        BY <3>1, <3>2 DEF Requires
      <3>. QED
        BY <3>1, <3>3, NodesAgree DEF Run!Results
    <2>. QED
      BY <2>1, <2>2, <2>3, <2>4, <2>5, <2>6, <2>7, <2>8, <2>9, <2>10 DEF Handler
  <1>. QED
    BY <1>1, <1>3, OutcomeOf

----------------------------------------------------------------------------
(* Each step is a step of MailDecisionRun, or none.                         *)
PlainVars == <<created, PlainRow, assignment, autoTo, workItem, PlainPc, PlainRun, PlainSt,
               PlainSeen, calls, crashes, errors>>

LEMMA PcMaps ==
    /\ PlainPc[Executor] = (IF pc \in {"query", "handled"} THEN "node" ELSE pc)
    /\ PlainRun[Executor] = run /\ PlainSt[Executor] = Plain(st) /\ PlainSeen[Executor] = seen
  BY OneFields DEF PlainPc, PlainRun, PlainSt, PlainSeen

LEMMA Stays ==
    /\ row' = row => PlainRow' = PlainRow
    /\ run' = run => PlainRun' = PlainRun
    /\ st' = st => PlainSt' = PlainSt
    /\ seen' = seen => PlainSeen' = PlainSeen
    /\ pc' = pc => PlainPc' = PlainPc
  BY DEF PlainRow, PlainRun, PlainSt, PlainSeen, PlainPc, RunIds, Plain, One

LEMMA CallMaps ==
    ASSUME BudgetsOK, Call
    PROVE  Run!Call
  <1>1. calls < MaxCalls /\ calls' = calls + 1
    BY BoundsAssumption DEF Call, BudgetsOK
  <1>. QED
    BY <1>1 DEF Run!Call

LEMMA ActiveRows ==
    \A r \in RunIds : PlainRow[r].status \in Run!Active <=> row[r].status \in Active
  BY PlainRows DEF Run!Active, Active

LEMMA CreateMaps ==
    ASSUME MapInv, CreateRun
    PROVE  Run!CreateRun(Executor)
  <1>1. created + 1 \in RunIds /\ RowsOK /\ created < MaxRuns
    BY BoundsAssumption DEF MapInv, PipelineInv, RowsOK, RunIds, CreateRun
  <1>2. Save(created + 1, NewState)
    BY DEF CreateRun, Save, NewState
  <1>3. Run!Save(created + 1, Run!NewState)
    BY <1>1, <1>2, SaveMaps, PlainNew
  <1>4. Run!Goto(Executor, "start", created + 1, Run!NewState)
    BY GotoMaps, PlainNew DEF CreateRun
  <1>5. Run!Call
    BY CallMaps DEF MapInv, CreateRun
  <1>6. PlainPc[Executor] = "idle" /\ PlainSeen' = PlainSeen
    BY PcMaps, Stays DEF CreateRun
  <1>7. /\ created' = created + 1
        /\ UNCHANGED <<assignment, autoTo, workItem, crashes, errors>>
    BY DEF CreateRun
  <1>8. \A r \in RunIds : PlainRow[r].status \notin Run!Active
    BY ActiveRows DEF CreateRun
  <1>9. PlainRow' = [PlainRow EXCEPT ![created + 1] = [status |-> "queued", json |-> Run!NewState]]
    BY <1>3 DEF Run!Save, Run!NewState
  <1>. QED
    BY <1>1, <1>4, <1>5, <1>6, <1>7, <1>8, <1>9 DEF Run!CreateRun, Run!RunIds, RunIds

LEMMA JoinMaps ==
    ASSUME MapInv, JoinRun \/ ResumeRun
    PROVE  Run!JoinRun(Executor) \/ Run!ResumeRun(Executor)
  <1>1. Run!Call
    BY CallMaps DEF MapInv, JoinRun, ResumeRun
  <1>2. PlainPc[Executor] = "idle" /\ PlainSeen' = PlainSeen /\ PlainRow' = PlainRow
    BY PcMaps, Stays DEF JoinRun, ResumeRun, tables
  <1>3. UNCHANGED <<created, assignment, autoTo, workItem, crashes, errors>>
    BY DEF JoinRun, ResumeRun, tables
  <1>4. CASE JoinRun
    <2>1. PICK r \in RunIds :
            /\ row[r].status \in Active
            /\ IF row[r].json.status = "review_required"
               THEN Goto("reset", r, NewState) ELSE Goto("start", r, row[r].json)
      BY <1>4 DEF JoinRun
    <2>2. PlainRow[r].status \in Run!Active /\ PlainRow[r].json = Plain(row[r].json)
          /\ PlainRow[r].json.status = row[r].json.status
      BY <2>1, ActiveRows, PlainRows, PlainFields
    <2>3. IF PlainRow[r].json.status = "review_required"
          THEN Run!Goto(Executor, "reset", r, Run!NewState)
          ELSE Run!Goto(Executor, "start", r, PlainRow[r].json)
      BY <2>1, <2>2, GotoMaps, PlainNew
    <2>. QED
      BY <1>1, <1>2, <1>3, <2>2, <2>3 DEF Run!JoinRun, Run!rows, Run!RunIds, RunIds
  <1>5. CASE ResumeRun
    <2>1. PICK r \in 1..created : row[r].json.status # "completed" /\ Goto("start", r, row[r].json)
      BY <1>5 DEF ResumeRun
    <2>2. r \in RunIds
      BY RunsExist DEF MapInv, PipelineInv
    <2>3. PlainRow[r].json = Plain(row[r].json) /\ PlainRow[r].json.status # "completed"
      BY <2>1, <2>2, PlainRows, PlainFields
    <2>4. Run!Goto(Executor, "start", r, PlainRow[r].json)
      BY <2>1, <2>3, GotoMaps
    <2>. QED
      BY <1>1, <1>2, <1>3, <2>1, <2>3, <2>4 DEF Run!ResumeRun, Run!rows
  <1>. QED
    BY <1>4, <1>5

LEMMA ResetMaps ==
    ASSUME MapInv, Reset
    PROVE  Run!Reset(Executor)
  <1>1. PlainPc[Executor] = "reset" /\ UNCHANGED <<created, assignment, autoTo, workItem, budget>>
    BY PcMaps DEF Reset
  <1>2. run \in RunIds /\ RowsOK
    BY RunsExist, AtRun DEF MapInv, PipelineInv, Reset, Executing
  <1>3. CASE Conflict(run, st)
    <2>1. Run!Return(Executor) /\ PlainRow' = PlainRow
      BY <1>3, ReturnMaps, Stays DEF Reset
    <2>2. Run!Conflict(PlainRun[Executor], PlainSt[Executor])
      BY <1>3, ConflictMaps, PcMaps
    <2>. QED
      BY <1>1, <2>1, <2>2 DEF Run!Reset, Run!budget, budget
  <1>4. CASE ~Conflict(run, st)
    <2>1. /\ Save(run, st) /\ pc' = "start" /\ UNCHANGED <<run, st, seen>>
      BY <1>4 DEF Reset
    <2>2. Run!Save(PlainRun[Executor], PlainSt[Executor])
      BY <1>2, <2>1, SaveMaps, PcMaps
    <2>3. PlainPc' = [PlainPc EXCEPT ![Executor] = "start"]
      BY <2>1, OneFields DEF PlainPc
    <2>4. UNCHANGED <<PlainRun, PlainSt, PlainSeen>>
      BY <2>1, Stays
    <2>5. ~Run!Conflict(PlainRun[Executor], PlainSt[Executor])
      BY <1>4, ConflictMaps, PcMaps
    <2>. QED
      BY <1>1, <2>2, <2>3, <2>4, <2>5 DEF Run!Reset, Run!budget, budget
  <1>. QED
    BY <1>3, <1>4

LEMMA StartMaps ==
    ASSUME MapInv, Start
    PROVE  Run!Start(Executor)
  <1>. DEFINE s == [st EXCEPT !.status = "running"]
              x == [s EXCEPT !.node = FirstNode(s)]
              S == [PlainSt[Executor] EXCEPT !.status = "running"]
  <1>1. PlainPc[Executor] = "start" /\ UNCHANGED <<created, assignment, autoTo, workItem, budget>>
    BY PcMaps DEF Start
  <1>2. run \in RunIds /\ RowsOK /\ IsState(st)
    BY RunsExist, AtRun DEF MapInv, PipelineInv, Start, Executing
  <1>3. IsState(s)
    BY <1>2, StatusSet DEF Statuses, Active
  <1>4. IF Conflict(run, s) THEN Return /\ row' = row
                            ELSE Save(run, s) /\ Goto("node", run, x) /\ seen' = seen
    BY DEF Start
  <1>5. S = Plain(s)
    <2>1. Plain([st EXCEPT !.status = "running"]) = [Plain(st) EXCEPT !.status = "running"]
      BY <1>2, PlainUpdates
    <2>2. PlainSt[Executor] = Plain(st)
      BY PcMaps
    <2>. QED
      BY <2>1, <2>2
  <1>. HIDE DEF s
  <1>6. Plain(x) = [Plain(s) EXCEPT !.node = FirstNode(s)]
    BY <1>3, PlainUpdates
  <1>. HIDE DEF x
  <1>7. FirstNode(s) = Run!FirstNode(Plain(s))
    BY PlainFields, NodesAgree DEF FirstNode, Run!FirstNode, LoadMailContext
  <1>8. Run!Conflict(PlainRun[Executor], S) <=> Conflict(run, s)
    BY <1>5, ConflictMaps, PcMaps
  <1>9. CASE Conflict(run, s)
    <2>1. Run!Return(Executor) /\ PlainRow' = PlainRow
      BY <1>4, <1>9, ReturnMaps, Stays
    <2>. QED
      BY <1>1, <1>8, <1>9, <2>1 DEF Run!Start, Run!budget, budget
  <1>10. CASE ~Conflict(run, s)
    <2>1. Run!Save(PlainRun[Executor], S)
      BY <1>2, <1>4, <1>5, <1>10, SaveMaps, PcMaps
    <2>2. Run!Goto(Executor, "node", run, Plain(x))
      BY <1>4, <1>10, GotoMaps
    <2>3. Run!Goto(Executor, "node", PlainRun[Executor], [S EXCEPT !.node = Run!FirstNode(S)])
      BY <1>5, <1>6, <1>7, <2>2, PcMaps
    <2>4. PlainSeen' = PlainSeen
      BY <1>4, <1>10, Stays
    <2>. QED
      BY <1>1, <1>8, <1>10, <2>1, <2>3, <2>4 DEF Run!Start, Run!budget, budget
  <1>. QED
    BY <1>9, <1>10

LEMMA NodeMaps ==
    ASSUME RowsOK, run \in RunIds, NEW s, IsState(s), SaveNode(s)
    PROVE  Run!SaveNode(Executor, Plain(s))
  <1>. DEFINE e == [s EXCEPT !.status = "completed", !.node = 0]
              n == [s EXCEPT !.node = s.node + 1]
  <1>1. Plain(e) = [Plain(s) EXCEPT !.status = "completed", !.node = 0]
    BY PlainUpdates
  <1>2. Plain(n) = [Plain(s) EXCEPT !.node = s.node + 1]
    <2>1. PICK k : k = s.node + 1
      OBVIOUS
    <2>2. Plain([s EXCEPT !.node = k]) = [Plain(s) EXCEPT !.node = k]
      BY PlainUpdates
    <2>. QED
      BY <2>1, <2>2
  <1>3. IF Conflict(run, s)
        THEN Goto("fail", run, s) /\ UNCHANGED <<row, seen>>
        ELSE /\ Save(run, s)
             /\ IF s.status = "review_required"
                THEN Return
                ELSE /\ IF s.node = PersistResult THEN Goto("final", run, e) ELSE Goto("node", run, n)
                     /\ UNCHANGED seen
    BY DEF SaveNode
  <1>. HIDE DEF e, n
  <1>4. PlainRun[Executor] = run /\ (Run!Conflict(PlainRun[Executor], Plain(s)) <=> Conflict(run, s))
    BY ConflictMaps, PcMaps
  <1>5. Plain(s).status = s.status /\ Plain(s).node = s.node
    BY PlainFields
  <1>6. CASE Conflict(run, s)
    <2>1. Run!Goto(Executor, "fail", run, Plain(s)) /\ UNCHANGED <<PlainRow, PlainSeen>>
      BY <1>3, <1>6, GotoMaps, Stays
    <2>. QED
      BY <1>4, <1>6, <2>1 DEF Run!SaveNode
  <1>7. CASE ~Conflict(run, s)
    <2>1. Run!Save(run, Plain(s))
      BY <1>3, <1>7, SaveMaps
    <2>2. s.status = "review_required" => Run!Return(Executor)
      BY <1>3, <1>7, ReturnMaps
    <2>3. s.status # "review_required" => PlainSeen' = PlainSeen
      BY <1>3, <1>7, Stays
    <2>4. s.status # "review_required" /\ s.node = 10
             => Run!Goto(Executor, "final", run, [Plain(s) EXCEPT !.status = "completed", !.node = 0])
      BY <1>1, <1>3, <1>7, GotoMaps DEF PersistResult
    <2>5. s.status # "review_required" /\ s.node # 10
             => Run!Goto(Executor, "node", run, [Plain(s) EXCEPT !.node = s.node + 1])
      BY <1>2, <1>3, <1>7, GotoMaps DEF PersistResult
    <2>. QED
      BY <1>4, <1>5, <1>7, <2>1, <2>2, <2>3, <2>4, <2>5, NodesAgree DEF Run!SaveNode
  <1>. QED
    BY <1>6, <1>7

LEMMA SaveHandledMaps ==
    ASSUME MapInv, SaveHandled
    PROVE  Run!NodeStep(Executor)
  <1>1. /\ SaveNode(next) /\ pc = "handled" /\ UNCHANGED <<created, assignment, autoTo, workItem, budget>>
    BY DEF SaveHandled
  <1>2. IsState(next) /\ st.node # 10 /\ Plain(next) \in Run!Outcomes(st.node, Plain(st))
    BY <1>1 DEF MapInv, PipelineInv, NextOK, HandledAllowed, SoundNow, Sound, PersistResult
  <1>3. RowsOK /\ run \in RunIds
    BY <1>1, RunsExist, AtRun DEF MapInv, PipelineInv, Executing
  <1>4. Run!SaveNode(Executor, Plain(next))
    BY <1>1, <1>2, <1>3, NodeMaps
  <1>5. PlainPc[Executor] = "node" /\ PlainSt[Executor] = Plain(st) /\ Plain(st).node = st.node
    BY <1>1, PcMaps, PlainFields
  <1>. QED
    BY <1>1, <1>2, <1>4, <1>5, NodesAgree DEF Run!NodeStep, Run!budget, budget

LEMMA SaveAfterMaps ==
    ASSUME MapInv, SaveAfter
    PROVE  Run!SaveAfter(Executor)
  <1>1. SaveNode(st) /\ pc = "save" /\ UNCHANGED <<created, assignment, autoTo, workItem, budget>>
    BY DEF SaveAfter
  <1>2. RowsOK /\ run \in RunIds /\ IsState(st)
    BY <1>1, RunsExist, AtRun DEF MapInv, PipelineInv, Executing
  <1>3. Run!SaveNode(Executor, Plain(st))
    BY <1>1, <1>2, NodeMaps
  <1>4. PlainPc[Executor] = "save" /\ PlainSt[Executor] = Plain(st)
    BY <1>1, PcMaps
  <1>. QED
    BY <1>1, <1>3, <1>4 DEF Run!SaveAfter, Run!budget, budget

LEMMA FinalMaps ==
    ASSUME MapInv, Final \/ Fail
    PROVE  Run!Final(Executor) \/ Run!Fail(Executor)
  <1>1. UNCHANGED <<created, assignment, autoTo, workItem, budget>> /\ Run!Return(Executor)
    BY ReturnMaps DEF Final, Fail
  <1>2. RowsOK /\ run \in RunIds /\ IsState(st)
    BY RunsExist, AtRun DEF MapInv, PipelineInv, Executing, Final, Fail
  <1>3. PlainRun[Executor] = run /\ PlainSt[Executor] = Plain(st)
    BY PcMaps
  <1>4. CASE Final
    <2>1. Run!Save(run, Plain(st)) /\ PlainPc[Executor] = "final"
      BY <1>2, <1>4, SaveMaps, PcMaps DEF Final
    <2>. QED
      BY <1>1, <1>3, <2>1 DEF Run!Final, Run!budget, budget
  <1>5. CASE Fail
    <2>1. Save(run, [st EXCEPT !.status = "failed"]) /\ PlainPc[Executor] = "fail"
      BY <1>5, PcMaps DEF Fail
    <2>2. Run!Save(run, Plain([st EXCEPT !.status = "failed"]))
      BY <1>2, <2>1, SaveMaps
    <2>3. Plain([st EXCEPT !.status = "failed"]) = [Plain(st) EXCEPT !.status = "failed"]
      BY <1>2, PlainUpdates
    <2>4. Run!Save(run, [Plain(st) EXCEPT !.status = "failed"])
      BY <2>2, <2>3
    <2>. QED
      BY <1>1, <1>3, <2>1, <2>4 DEF Run!Fail, Run!budget, budget
  <1>. QED
    BY <1>4, <1>5

LEMMA ApplyMaps ==
    ASSUME MapInv, ApplyReview
    PROVE  Run!ApplyReview(Executor)
  <1>1. /\ pc = "apply" /\ Goto("save", run, ReviewFor(st, "policy")) /\ ApplyDecision("none", "review_required")
        /\ UNCHANGED <<created, row, autoTo, workItem, seen, budget>>
    BY DEF ApplyReview
  <1>2. IsState(st)
    BY <1>1, AtRun DEF MapInv, Executing
  <1>3. PlainPc[Executor] = "apply" /\ PlainRun[Executor] = run /\ PlainSt[Executor] = Plain(st)
    BY <1>1, PcMaps
  <1>4. Run!Goto(Executor, "save", run, Plain(ReviewFor(st, "policy")))
    BY <1>1, GotoMaps
  <1>5. Plain(ReviewFor(st, "policy")) = Run!Review(Plain(st))
    BY <1>2, PlainUpdates
  <1>6. UNCHANGED <<created, PlainRow, autoTo, workItem, PlainSeen, budget>>
    BY <1>1, Stays
  <1>7. Run!ApplyDecision("none", "review_required")
    BY <1>1 DEF ApplyDecision, Run!ApplyDecision
  <1>. QED
    BY <1>3, <1>4, <1>5, <1>6, <1>7 DEF Run!ApplyReview, Run!rows, Run!budget, budget

LEMMA AssignMaps ==
    ASSUME MapInv, PersistAssign \/ MarkForward
    PROVE  Run!PersistAssign(Executor) \/ Run!MarkForward(Executor)
  <1>1. UNCHANGED <<created, row, workItem, seen, budget>> /\ pc \in {"node", "forward"} /\ st.node = 10
    BY DEF PersistAssign, MarkForward, AtNode, MapInv, PipelineInv, PlacedOK, PersistResult
  <1>2. /\ st.routing # None /\ st.routing.choice \in Users
    <2>1. Sound(factsRow, candidates, traces, run, st, 9)
      BY <1>1, HandlerRuns DEF MapInv, AtWork
    <2>. QED
      BY <2>1 DEF Sound, RoutingStands, GenerateCandidates
  <1>3. PlainSt[Executor] = Plain(st) /\ Plain(st).node = 10 /\ Plain(st).routing = st.routing.choice
        /\ PlainRun[Executor] = run
    BY <1>1, <1>2, PcMaps, PlainFields
  <1>4. UNCHANGED <<created, PlainRow, workItem, PlainSeen, budget>>
    BY <1>1, Stays
  <1>5. CASE PersistAssign
    <2>1. ApplyDecision(st.routing.choice, "assigned") /\ Goto("forward", run, st) /\ autoTo' = autoTo
      BY <1>5 DEF PersistAssign
    <2>2. Run!ApplyDecision(Plain(st).routing, "assigned")
      BY <1>3, <2>1 DEF ApplyDecision, Run!ApplyDecision
    <2>3. Run!Goto(Executor, "forward", run, Plain(st))
      BY <2>1, GotoMaps
    <2>4. PlainPc[Executor] = "node"
      BY <1>5, PcMaps DEF PersistAssign, AtNode
    <2>. QED
      BY <1>2, <1>3, <1>4, <2>1, <2>2, <2>3, <2>4, NodesAgree DEF Run!PersistAssign, Run!rows,
         Run!budget, budget
  <1>6. CASE MarkForward
    <2>1. PlainPc[Executor] = "forward"
      BY <1>6, PcMaps DEF MarkForward
    <2>2. CASE autoTo = "none"
      <3>1. /\ autoTo' = st.routing.choice /\ assignment' = [assignment EXCEPT !.status = "forwarded"]
            /\ Goto("save", run, st)
        BY <1>6, <2>2 DEF MarkForward
      <3>2. Run!Forward(Plain(st).routing)
        BY <1>3, <2>2, <3>1 DEF Run!Forward
      <3>3. Run!Goto(Executor, "save", run, Plain(st))
        BY <3>1, GotoMaps
      <3>. QED
        BY <1>3, <1>4, <2>1, <3>2, <3>3 DEF Run!MarkForward, Run!rows, Run!budget, budget
    <2>3. CASE autoTo # "none"
      <3>1. Goto("fail", run, st) /\ UNCHANGED <<autoTo, assignment>>
        BY <1>6, <2>3 DEF MarkForward
      <3>2. Run!Goto(Executor, "fail", run, Plain(st))
        BY <3>1, GotoMaps
      <3>. QED
        BY <1>3, <1>4, <2>1, <2>3, <3>1, <3>2 DEF Run!MarkForward, Run!rows, Run!budget, budget
    <2>. QED
      BY <2>2, <2>3
  <1>. QED
    BY <1>5, <1>6

LEMMA StepErrorMaps ==
    ASSUME MapInv, StepError
    PROVE  Run!StepError(Executor)
  <1>1. PICK s \in Broken : Goto("fail", run, s)
    BY DEF StepError
  <1>2. /\ pc \in {"node", "query", "handled", "apply", "forward", "save", "final"}
        /\ errors' = errors + 1 /\ errors < MaxFaults
        /\ UNCHANGED <<created, row, assignment, autoTo, workItem, seen, calls, crashes>>
    BY BoundsAssumption DEF StepError, Fault, MapInv, BudgetsOK, tables
  <1>3. PlainPc[Executor] \in {"node", "apply", "forward", "save", "final"}
        /\ (PlainPc[Executor] = "node" <=> pc \in {"node", "query", "handled"})
    BY <1>2, PcMaps
  <1>4. Run!Goto(Executor, "fail", run, Plain(s))
    BY <1>1, GotoMaps
  <1>5. \/ Plain(s) = Plain(st)
        \/ /\ PlainPc[Executor] = "node" /\ st.node # 10
           /\ Plain(s) \in Run!Outcomes(st.node, Plain(st))
    <2>1. CASE s = st
      BY <2>1
    <2>2. CASE pc = "handled" /\ s = next
      BY <1>3, <2>2 DEF MapInv, PipelineInv, NextOK, HandledAllowed, PersistResult
    <2>3. ASSUME NEW f \in Extracted, AtNode(ExtractFacts), s = [st EXCEPT !.facts = f]
          PROVE  /\ PlainPc[Executor] = "node" /\ st.node # 10
                 /\ Plain(s) \in Run!Outcomes(st.node, Plain(st))
      <3>1. f # None /\ IsState(st) /\ st.node = 3 /\ pc \in AtWork /\ pc = "node"
        BY <2>3, ExtractedAreFacts, NoneAssumption, Placed DEF MapInv, AtNode, ExtractFacts
      <3>2. Plain(s) = [Plain(st) EXCEPT !.facts = TRUE]
        BY <2>3, <3>1, PlainUpdates
      <3>3. Plain(s) \in Run!Results(st.node, Plain(st))
        BY <3>1, <3>2, NodesAgree DEF Run!Results
      <3>. QED
        BY <1>3, <3>1, <3>3, OutcomeOf DEF MapInv
    <2>. QED
      BY <2>1, <2>2, <2>3 DEF Broken
  <1>6. PlainSt[Executor] = Plain(st) /\ Plain(st).node = st.node /\ PlainRun[Executor] = run
    BY PcMaps, PlainFields
  <1>7. UNCHANGED <<PlainRow, PlainSeen>>
    BY <1>2, Stays
  <1>8. \E x \in {PlainSt[Executor]} \cup
                (IF PlainPc[Executor] = "node" /\ PlainSt[Executor].node # Run!PersistResult
                 THEN Run!Outcomes(PlainSt[Executor].node, PlainSt[Executor]) ELSE {}) :
           Run!Goto(Executor, "fail", PlainRun[Executor], x)
    BY <1>4, <1>5, <1>6, NodesAgree
  <1>. QED
    BY <1>2, <1>3, <1>7, <1>8 DEF Run!StepError, Run!rows

LEMMA CrashMaps ==
    ASSUME MapInv, Crash \/ EnsureWork
    PROVE  Run!Crash(Executor) \/ Run!EnsureWork(Executor)
  <1>1. Run!Return(Executor)
    BY ReturnMaps DEF Crash, EnsureWork
  <1>2. UNCHANGED <<created, PlainRow, assignment, autoTo>>
    BY Stays DEF Crash, EnsureWork, tables
  <1>3. CASE Crash
    <2>1. /\ crashes' = crashes + 1 /\ crashes < MaxFaults /\ UNCHANGED <<workItem, calls, errors>>
      BY <1>3, BoundsAssumption DEF Crash, Fault, MapInv, BudgetsOK, tables
    <2>2. PlainPc[Executor] # "idle"
      BY <1>3, PcMaps DEF Crash
    <2>. QED
      BY <1>1, <1>2, <2>1, <2>2 DEF Run!Crash, Run!rows
  <1>4. CASE EnsureWork
    <2>1. PlainPc[Executor] = "ensure" /\ workItem' = PlainSeen[Executor] /\ UNCHANGED budget
      BY <1>4, PcMaps DEF EnsureWork
    <2>. QED
      BY <1>1, <1>2, <2>1 DEF Run!EnsureWork, Run!rows, Run!budget, budget
  <1>. QED
    BY <1>3, <1>4

LEMMA ManualMaps ==
    ASSUME MapInv, ManualAssign
    PROVE  \E u \in Users : Run!ManualAssign(Executor, u)
  <1>1. PICK u \in active :
          /\ assignment' = [user |-> u, status |-> "assigned", source |-> "user", fixed |-> TRUE]
          /\ seen' = u
    BY DEF ManualAssign
  <1>2. u \in Users /\ Run!Call
    BY CallMaps DEF ManualAssign, MapInv, PipelineInv, TablesOK
  <1>3. /\ UNCHANGED <<created, autoTo, workItem, PlainRun, PlainSt, crashes, errors>>
        /\ PlainPc[Executor] = "idle"
    BY PcMaps, Stays DEF ManualAssign
  <1>4. PlainPc' = [PlainPc EXCEPT ![Executor] = "ensure"] /\ PlainSeen' = [PlainSeen EXCEPT ![Executor] = u]
    BY <1>1, OneFields DEF ManualAssign, PlainPc, PlainSeen
  <1>5. created > 0 => created \in RunIds
    BY BoundsAssumption DEF MapInv, PipelineInv, RowsOK, RunIds
  <1>6. Run!LatestInReview <=> LatestInReview
    BY <1>5, PlainRows DEF Run!LatestInReview, LatestInReview, Run!Latest
  <1>7. PlainRow' = IF LatestInReview THEN [PlainRow EXCEPT ![created].status = "completed"] ELSE PlainRow
    <2>1. CASE ~LatestInReview
      BY <2>1, Stays DEF ManualAssign
    <2>2. CASE LatestInReview
      <3>1. created \in RunIds /\ row' = [row EXCEPT ![created].status = "completed"] /\ DOMAIN row = RunIds
            /\ DOMAIN row[created] = {"status", "json"}
        BY <1>5, <2>2 DEF ManualAssign, LatestInReview, MapInv, PipelineInv, RowsOK, RunIds
      <3>2. row'[created].status = "completed" /\ row'[created].json = row[created].json
            /\ \A q \in RunIds \ {created} : row'[q] = row[q]
        BY <3>1
      <3>. DEFINE at(q) == [status |-> row'[q].status, json |-> Plain(row'[q].json)]
      <3>3. PlainRow' = [q \in RunIds |-> at(q)]
        BY DEF PlainRow, RunIds, Plain
      <3>4. \A q \in RunIds \ {created} : at(q) = PlainRow[q]
        BY <3>2 DEF PlainRow
      <3>5. at(created) = [status |-> "completed", json |-> Plain(row[created].json)]
        BY <3>2
      <3>6. PlainRow[created] = [status |-> row[created].status, json |-> Plain(row[created].json)]
        BY <3>1 DEF PlainRow
      <3>7. at(created) = [PlainRow[created] EXCEPT !.status = "completed"]
        BY <3>5, <3>6
      <3>8. DOMAIN PlainRow = RunIds /\ PlainRow = [q \in RunIds |-> PlainRow[q]]
        BY DEF PlainRow
      <3>. HIDE DEF at
      <3>9. PlainRow' = [PlainRow EXCEPT ![created] = at(created)]
        BY <3>1, <3>3, <3>4, <3>8
      <3>. QED
        BY <2>2, <3>7, <3>9
    <2>. QED
      BY <2>1, <2>2
  <1>8. assignment.status = "review_required" \/ LatestInReview
    BY DEF ManualAssign
  <1>. QED
    BY <1>1, <1>2, <1>3, <1>4, <1>6, <1>7, <1>8 DEF Run!ManualAssign

LEMMA HandlersMap ==
    ASSUME MapInv, Handler
    PROVE  Run!RouteToReview(Executor) \/ UNCHANGED PlainVars
  <1>1. CASE pc' \in {"query", "handled"}
    <2>1. pc \in {"node", "query"}
      BY DEF Handler, LoadMail, AnalyzeAll, Extract, PlanFirst, BeginRetrieval, RunQuery, NextCycle,
         EndRetrieval, Evaluate, GenerateTheDecision, RankUsers, Validate, AtNode
    <2>2. UNCHANGED <<created, row, assignment, autoTo, workItem, run, st, seen, budget>>
      BY <1>1 DEF Handler, LoadMail, AnalyzeAll, Extract, PlanFirst, BeginRetrieval, RunQuery, NextCycle,
         EndRetrieval, Evaluate, GenerateTheDecision, RankUsers, Validate, HandledOnly, tables, others, Goto
    <2>3. PlainPc' = PlainPc
      BY <1>1, <2>1 DEF PlainPc
    <2>. QED
      BY <2>2, <2>3, Stays DEF PlainVars, budget
  <1>2. CASE pc' \notin {"query", "handled"}
    <2>1. RankUsers
      BY <1>2 DEF Handler, LoadMail, AnalyzeAll, Extract, PlanFirst, BeginRetrieval, RunQuery, NextCycle,
         EndRetrieval, Evaluate, GenerateTheDecision, Validate, HandledOnly, Handled
    <2>2. pc = "node" /\ st.node = 8 /\ pc \in AtWork
      BY <2>1 DEF RankUsers, AtNode, GenerateCandidates, AtWork
    <2>3. IsState(st) /\ Sound(factsRow, candidates, traces, run, st, 7) /\ Run!HasInputs(8, Plain(st))
      BY <2>2, HandlerRuns, InputsThere DEF MapInv
    <2>4. st.facts # None /\ st.context # None /\ st.decision # None
      BY <2>3 DEF Sound, FactsAgree, ContextTraced, DecisionStands, RetrieveContext,
           ExtractFacts, GenerateDecision
    <2>5. PICK r \in Rankings(active, st.facts, st.decision.type, st.context.selected) :
            LET s == [st EXCEPT !.routing = [choice |-> Chosen(r), ranking |-> r]]
            IN  /\ IF s.routing.choice = "review"
                   THEN Goto("apply", run, s)
                   ELSE Handled([Warned(s) EXCEPT !.status = "auto_assigned"])
                /\ UNCHANGED <<created, row, assignment, autoTo, workItem, seen, budget>>
      BY <2>1, <2>4 DEF RankUsers
    <2>. DEFINE routing == [choice |-> Chosen(r), ranking |-> r]
                s == [st EXCEPT !.routing = routing]
    <2>6. s.routing.choice = "review" /\ Goto("apply", run, s)
      BY <1>2, <2>5 DEF Handled
    <2>7. routing.choice = Chosen(r) /\ routing.ranking = r
      OBVIOUS
    <2>8. r \in Seq(Users) /\ (r # <<>> => r[1] \in Users)
      BY RankingsAreSequences DEF MapInv, PipelineInv, TablesOK
    <2>9. Chosen(r) \in Users \cup {"review"}
      BY <2>8 DEF Chosen, Assigns
    <2>10. routing # None
      BY <2>8, <2>9, NoneAssumption DEF Routing
    <2>. HIDE DEF routing
    <2>11. s.routing = routing
      BY <2>3, <2>7, <2>9, RoutingSet
    <2>12. Plain(s) = [Plain(st) EXCEPT !.routing = routing.choice]
      BY <2>3, <2>10, PlainUpdates
    <2>. HIDE DEF s
    <2>13. Run!Goto(Executor, "apply", run, [Plain(st) EXCEPT !.routing = "review"])
      BY <2>6, <2>11, <2>12, GotoMaps
    <2>14. UNCHANGED <<created, PlainRow, assignment, autoTo, workItem, PlainSeen, budget>>
      BY <2>5, Stays
    <2>15. PlainPc[Executor] = "node" /\ PlainSt[Executor] = Plain(st) /\ PlainRun[Executor] = run
           /\ Plain(st).node = 8
      BY <2>2, PcMaps, PlainFields
    <2>. QED
      BY <2>3, <2>13, <2>14, <2>15, NodesAgree DEF Run!RouteToReview, Run!rows, Run!budget, budget
  <1>. QED
    BY <1>1, <1>2

LEMMA SettingsMap ==
    ASSUME SetUserStatus \/ SaveSettings \/ UNCHANGED vars
    PROVE  UNCHANGED PlainVars
  BY Stays DEF SetUserStatus, SaveSettings, vars, tables, others, budget, PlainVars

----------------------------------------------------------------------------
LEMMA MapHolds == Spec => []MapInv
  <1>1. Init => HandledAllowed /\ BudgetsOK
    BY DEF Init, HandledAllowed, BudgetsOK
  <1>2. MapInv /\ PipelineInv' /\ [Next]_vars => MapInv'
    <2>. SUFFICES ASSUME MapInv, PipelineInv', [Next]_vars PROVE HandledAllowed' /\ BudgetsOK'
      BY DEF MapInv
    <2>1. BudgetsOK'
      <3>1. CASE CreateRun \/ JoinRun \/ ResumeRun \/ ManualAssign
        BY <3>1 DEF MapInv, BudgetsOK, CreateRun, JoinRun, ResumeRun, ManualAssign, Call, others
      <3>2. CASE StepError \/ Crash \/ SetUserStatus \/ SaveSettings
        BY <3>2 DEF MapInv, BudgetsOK, StepError, Crash, SetUserStatus, SaveSettings, Change,
           others, budget
      <3>3. CASE Proceed \/ UNCHANGED vars
        <4>1. CASE Handler
          BY <4>1 DEF Handler, LoadMail, AnalyzeAll, Extract, PlanFirst, BeginRetrieval, RunQuery,
             NextCycle, EndRetrieval, Evaluate, GenerateTheDecision, RankUsers, Validate,
             HandledOnly, MapInv, BudgetsOK, others, budget
        <4>2. CASE ~Handler
          BY <3>3, <4>2 DEF Proceed, Reset, Start, SaveHandled, ApplyReview, PersistAssign,
             MarkForward, SaveAfter, Final, Fail, EnsureWork, vars, MapInv, BudgetsOK, others, budget
        <4>. QED
          BY <4>1, <4>2
      <3>. QED
        BY <3>1, <3>2, <3>3 DEF Next
    <2>2. HandledAllowed'
      <3>1. CASE pc' # "handled"
        BY <3>1 DEF HandledAllowed
      <3>2. CASE pc' = "handled"
        <4>1. CASE Handler
          <5>1. Plain(next') \in Run!Outcomes(st.node, Plain(st))
            BY <3>2, <4>1, HandlersAllowed DEF MapInv
          <5>2. st' = st
            BY <3>2, <4>1 DEF Handler, LoadMail, AnalyzeAll, Extract, PlanFirst, BeginRetrieval,
               RunQuery, NextCycle, EndRetrieval, Evaluate, GenerateTheDecision, RankUsers, Validate,
               HandledOnly, Goto
          <5>. QED
            BY <5>1, <5>2 DEF HandledAllowed
        <4>2. CASE SetUserStatus \/ SaveSettings \/ UNCHANGED vars
          <5>1. next' = next /\ st' = st /\ pc' = pc
            BY <4>2 DEF SetUserStatus, SaveSettings, vars, Working
          <5>. QED
            BY <5>1 DEF MapInv, HandledAllowed
        <4>3. CASE Next /\ ~Handler /\ ~SetUserStatus /\ ~SaveSettings
          BY <3>2, <4>3 DEF Next, CreateRun, JoinRun, ResumeRun, Proceed, Reset, Start, SaveHandled,
             ApplyReview, PersistAssign, MarkForward, SaveAfter, SaveNode, Final, Fail, EnsureWork,
             StepError, Crash, ManualAssign, Goto, Return
        <4>. QED
          BY <4>1, <4>2, <4>3
      <3>. QED
        BY <3>1, <3>2
    <2>. QED
      BY <2>1, <2>2
  <1>. QED
    BY <1>1, <1>2, PipelineHolds, PTL DEF Spec, MapInv

(* With the data left out, the workflow is a single execution of            *)
(* MailDecisionRun: initial states are mapped to initial states, steps to   *)
(* steps, and what only concerns the data to none.                          *)
THEOREM WorkflowImplementsRun == Spec => ImplementsRun
  <1>1. Init => Run!Init
    <2>. SUFFICES ASSUME Init PROVE Run!Init
      OBVIOUS
    <2>1. PlainRow = [r \in RunIds |-> [status |-> "absent", json |-> Run!NewState]]
      <3>1. \A r \in RunIds : row[r].status = "absent" /\ row[r].json = NewState
        BY DEF Init
      <3>. QED
        BY <3>1, PlainNew DEF PlainRow
    <2>2. PlainPc = One("idle") /\ PlainRun = One(0) /\ PlainSt = One(Run!NewState) /\ PlainSeen = One("none")
      BY PlainNew DEF Init, PlainPc, PlainRun, PlainSt, PlainSeen
    <2>. QED
      BY <2>1, <2>2 DEF Init, One, Run!Init, Run!Absent, Run!Unassigned, Run!RunIds, RunIds
  <1>2. MapInv /\ [Next]_vars => [Run!Next]_(Run!vars)
    <2>. SUFFICES ASSUME MapInv, [Next]_vars PROVE Run!Next \/ UNCHANGED PlainVars
      BY DEF PlainVars, Run!vars, Run!rows, Run!local, Run!budget
    <2>1. CASE Handler
      BY <2>1, HandlersMap DEF Run!Next, Run!Proceed
    <2>2. CASE Reset \/ Start \/ SaveHandled
      BY <2>2, ResetMaps, StartMaps, SaveHandledMaps DEF Run!Next, Run!Proceed
    <2>3. CASE ApplyReview \/ PersistAssign \/ MarkForward \/ SaveAfter
      BY <2>3, ApplyMaps, AssignMaps, SaveAfterMaps DEF Run!Next, Run!Proceed
    <2>4. CASE Final \/ Fail \/ EnsureWork \/ Crash
      BY <2>4, FinalMaps, CrashMaps DEF Run!Next, Run!Proceed
    <2>5. CASE CreateRun \/ JoinRun \/ ResumeRun \/ StepError \/ ManualAssign
      BY <2>5, CreateMaps, JoinMaps, StepErrorMaps, ManualMaps DEF Run!Next
    <2>6. CASE SetUserStatus \/ SaveSettings \/ UNCHANGED vars
      BY <2>6, SettingsMap
    <2>. QED
      BY <2>1, <2>2, <2>3, <2>4, <2>5, <2>6 DEF Next, Proceed
  <1>. QED
    BY <1>1, <1>2, MapHolds, PTL DEF Spec, ImplementsRun, Run!Spec
=============================================================================
