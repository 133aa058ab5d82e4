----------------------- MODULE MailDecisionRunProofs -----------------------
(* Theorems about MailDecisionRun, for all executions, users and bounds.    *)
EXTENDS MailDecisionRun, TLAPS

(* Where an execution stands says what it holds: the id of an existing run  *)
(* while it still has to save it, a decision to apply, a recipient.         *)
Driving == {"reset", "start", "node", "apply", "forward", "save", "final", "fail"}

Placed(n, where, r, s) ==
    /\ where \in Driving => r \in 1..n
    /\ where = "apply" => s.node = GenerateCandidates
    /\ where = "forward" => s.node = PersistResult /\ s.routing \in Users
    /\ where = "save" =>
         \/ s.node = PersistResult
         \/ s.node = GenerateCandidates /\ s.status = "review_required"
    /\ where = "final" => s.status = "completed"
    /\ s.status = "completed" => where \in {"final", "fail"}

ControlOK == \A p \in Procs : Placed(created, pc[p], run[p], st[p])

(* A run that create_or_get_active_run can return is not finished.          *)
ActiveUnfinished ==
    \A r \in RunIds : row[r].status \in Active => row[r].json.status # "completed"

TypeInv == TypeOK /\ ControlOK /\ ActiveUnfinished

USE BoundsAssumption

LEMMA ReviewType ==
    ASSUME NEW s \in State
    PROVE  Review(s) \in State /\ Review(s).node = s.node
           /\ Review(s).status = "review_required"
  BY DEF Review, State, Status

LEMMA DecidedType ==
    ASSUME NEW s \in State, NEW x \in Decided(s)
    PROVE  x \in State /\ x.node = s.node
           /\ (s.status # "completed" => x.status # "completed")
  <1> DEFINE d == [s EXCEPT !.decision = TRUE]
  <1>1. d \in State /\ d.node = s.node /\ d.status = s.status
    BY DEF State
  <1>2. x = Review(d) \/ x = d
    BY DEF Decided
  <1>3. QED
    BY <1>1, <1>2, ReviewType

(* Whatever a handler returns is a MailDecisionRunState of the same node.   *)
LEMMA OutcomesType ==
    ASSUME NEW n, NEW s \in State, NEW x \in Outcomes(n, s)
    PROVE  x \in State /\ x.node = s.node
           /\ (s.status # "completed" => x.status # "completed")
  <1>1. CASE ~HasInputs(n, s)
    BY <1>1, ReviewType DEF Outcomes
  <1>2. CASE HasInputs(n, s)
    <2>1. x \in Results(n, s)
      BY <1>2 DEF Outcomes
    <2>2. \/ x = [s EXCEPT !.facts = TRUE]
          \/ \E c \in {"sufficient", "insufficient"} : x = [s EXCEPT !.retrieval = c]
          \/ x \in Decided(s)
          \/ \E u \in Users : x = [s EXCEPT !.routing = u, !.status = "auto_assigned"]
          \/ x = s
      BY <2>1 DEF Results
    <2>3. QED
      BY <2>2, DecidedType DEF State, Status
  <1>3. QED
    BY <1>1, <1>2

LEMMA NewStateType == NewState \in State
  BY DEF NewState, State, Status, NoNode

LEMMA InitType == Init => TypeInv
  <1> SUFFICES ASSUME Init PROVE TypeInv
    OBVIOUS
  <1>1. RowsOK
    BY NewStateType DEF Init, RowsOK, Absent, RunIds, Status
  <1>2. RoutingOK /\ LocalOK /\ BudgetOK
    BY NewStateType DEF Init, RoutingOK, LocalOK, BudgetOK, Unassigned, Someone, Where
  <1>3. ControlOK
    BY DEF Init, ControlOK, Placed, Driving, NewState
  <1>4. ActiveUnfinished
    BY DEF Init, ActiveUnfinished, Absent, Active
  <1>5. QED
    BY <1>1, <1>2, <1>3, <1>4 DEF TypeInv, TypeOK

(* Saving a well-formed state into an existing row keeps the table typed.   *)
LEMMA SaveType ==
    ASSUME RowsOK, NEW r \in 1..created, NEW s \in State, Save(r, s), created' = created
    PROVE  RowsOK'
  BY DEF RowsOK, Save, State, Status, RunIds

LEMMA PlacedMonotone ==
    ASSUME NEW n \in Nat, NEW m \in Nat, m >= n, NEW where, NEW r, NEW s,
           Placed(n, where, r, s)
    PROVE  Placed(m, where, r, s)
  BY DEF Placed

LEMMA GotoType ==
    ASSUME LocalOK, ControlOK, NEW p \in Procs, NEW where \in Where,
           NEW r \in 0..MaxRuns, NEW s \in State, Goto(p, where, r, s),
           Placed(created', where, r, s),
           created \in Nat, created' \in Nat, created' >= created, seen' = seen
    PROVE  LocalOK' /\ ControlOK'
  <1>1. LocalOK'
    BY DEF LocalOK, Goto
  <1>2. \A q \in Procs : q # p => pc'[q] = pc[q] /\ run'[q] = run[q] /\ st'[q] = st[q]
    BY DEF LocalOK, Goto
  <1>3. pc'[p] = where /\ run'[p] = r /\ st'[p] = s
    BY DEF LocalOK, Goto
  <1>4. ControlOK'
    BY <1>2, <1>3, PlacedMonotone DEF ControlOK
  <1>5. QED
    BY <1>1, <1>4

LEMMA ReturnType ==
    ASSUME LocalOK, ControlOK, NEW p \in Procs, Return(p), created' = created
    PROVE  LocalOK' /\ ControlOK'
  BY NewStateType DEF LocalOK, ControlOK, Placed, Return, Goto, NewState, Where, Someone, Driving

LEMMA SaveNodeType ==
    ASSUME TypeInv, NEW p \in Procs, run[p] \in 1..created, NEW s \in State,
           s.status # "completed", SaveNode(p, s), created' = created
    PROVE  RowsOK' /\ LocalOK' /\ ControlOK'
  <1> USE DEF TypeInv, TypeOK
  <1>0. created \in Nat /\ run[p] \in 0..MaxRuns
    BY DEF RowsOK, LocalOK
  <1>1. CASE Conflict(run[p], s)
    <2>1. Goto(p, "fail", run[p], s) /\ row' = row /\ seen' = seen
      BY <1>1 DEF SaveNode
    <2>2. Placed(created', "fail", run[p], s)
      BY DEF Placed
    <2>3. LocalOK' /\ ControlOK'
      BY <1>0, <2>1, <2>2, GotoType DEF Where
    <2>4. QED
      BY <2>1, <2>3 DEF RowsOK
  <1>2. CASE ~Conflict(run[p], s)
    <2>1. RowsOK'
      BY <1>2, SaveType DEF SaveNode
    <2>2. CASE s.status = "review_required"
      BY <1>2, <2>1, <2>2, ReturnType DEF SaveNode
    <2>3. CASE s.status # "review_required" /\ s.node = PersistResult
      <3> DEFINE t == [s EXCEPT !.status = "completed", !.node = NoNode]
      <3>1. t \in State
        BY DEF State, Status, NoNode
      <3>2. Goto(p, "final", run[p], t) /\ seen' = seen
        BY <1>2, <2>3 DEF SaveNode
      <3>3. Placed(created', "final", run[p], t)
        BY DEF Placed, State
      <3>4. QED
        BY <1>0, <2>1, <3>1, <3>2, <3>3, GotoType DEF Where
    <2>4. CASE s.status # "review_required" /\ s.node # PersistResult
      <3> DEFINE t == [s EXCEPT !.node = s.node + 1]
      <3>1. t \in State
        BY <2>4 DEF State, Status, NoNode, Nodes, PersistResult
      <3>2. Goto(p, "node", run[p], t) /\ seen' = seen
        BY <1>2, <2>4 DEF SaveNode
      <3>3. Placed(created', "node", run[p], t)
        BY DEF Placed, State
      <3>4. QED
        BY <1>0, <2>1, <3>1, <3>2, <3>3, GotoType DEF Where
    <2>5. QED
      BY <2>2, <2>3, <2>4
  <1>3. QED
    BY <1>1, <1>2

LEMMA TypeStep == TypeInv /\ [Next]_vars => TypeOK' /\ ControlOK'
  <1> SUFFICES ASSUME TypeInv, [Next]_vars PROVE TypeOK' /\ ControlOK'
    OBVIOUS
  <1> USE DEF TypeInv, TypeOK
  <1>a. /\ created \in Nat
        /\ \A p \in Procs : /\ run[p] \in 0..MaxRuns
                            /\ st[p] \in State
                            /\ Placed(created, pc[p], run[p], st[p])
                            /\ pc[p] \in Driving => run[p] \in 1..created
    BY DEF RowsOK, LocalOK, ControlOK, Placed
  <1>b. \A r \in RunIds : row[r].json \in State
    BY DEF RowsOK
  <1>1. ASSUME NEW p \in Procs, CreateRun(p) PROVE TypeOK' /\ ControlOK'
    <2> USE <1>1 DEF CreateRun
    <2>1. created + 1 \in RunIds /\ created' = created + 1
      BY <1>a DEF RunIds
    <2>2. RowsOK'
      BY <2>1, NewStateType DEF RowsOK, RunIds, State, Status
    <2>3. LocalOK' /\ ControlOK'
      <3>1. Placed(created', "start", created + 1, NewState)
        BY <1>a, <2>1 DEF Placed, NewState
      <3>2. QED
        BY <1>a, <2>1, <3>1, NewStateType, GotoType DEF Where, RunIds
    <2>4. RoutingOK' /\ BudgetOK'
      BY DEF RoutingOK, BudgetOK, Call
    <2>5. QED
      BY <2>2, <2>3, <2>4
  <1>2. ASSUME NEW p \in Procs, JoinRun(p) PROVE TypeOK' /\ ControlOK'
    <2> USE <1>2 DEF JoinRun
    <2>1. PICK r \in RunIds :
            /\ row[r].status \in Active
            /\ IF row[r].json.status = "review_required"
               THEN Goto(p, "reset", r, NewState)
               ELSE Goto(p, "start", r, row[r].json)
      OBVIOUS
    <2>2. r \in 1..created
      BY <2>1 DEF RowsOK, RunIds, Active
    <2>3. created' = created /\ seen' = seen /\ r \in 0..MaxRuns
      BY DEF RunIds, rows
    <2>4. LocalOK' /\ ControlOK'
      <3>1. Placed(created', "reset", r, NewState)
        BY <2>2, <2>3 DEF Placed, NewState
      <3>2. Placed(created', "start", r, row[r].json)
        BY <2>1, <2>2, <2>3 DEF Placed, ActiveUnfinished
      <3>3. QED
        BY <1>a, <1>b, <2>1, <2>3, <3>1, <3>2, NewStateType, GotoType DEF Where
    <2>5. RowsOK' /\ RoutingOK' /\ BudgetOK'
      BY DEF RowsOK, RoutingOK, BudgetOK, Call, rows
    <2>6. QED
      BY <2>4, <2>5
  <1>3. ASSUME NEW p \in Procs, ResumeRun(p) PROVE TypeOK' /\ ControlOK'
    <2> USE <1>3 DEF ResumeRun
    <2>1. PICK r \in 1..created : /\ row[r].json.status # "completed"
                                  /\ Goto(p, "start", r, row[r].json)
      OBVIOUS
    <2>2. r \in RunIds /\ r \in 0..MaxRuns /\ created' = created /\ seen' = seen
      BY DEF RowsOK, RunIds, rows
    <2>3. LocalOK' /\ ControlOK'
      <3>1. Placed(created', "start", r, row[r].json)
        BY <2>1, <2>2 DEF Placed
      <3>2. QED
        BY <1>a, <1>b, <2>1, <2>2, <3>1, GotoType DEF Where
    <2>4. RowsOK' /\ RoutingOK' /\ BudgetOK'
      BY DEF RowsOK, RoutingOK, BudgetOK, Call, rows
    <2>5. QED
      BY <2>3, <2>4
  <1>4. ASSUME NEW p \in Procs, Reset(p) PROVE TypeOK' /\ ControlOK'
    <2> USE <1>4 DEF Reset
    <2>1. RoutingOK' /\ BudgetOK' /\ run[p] \in 1..created
      BY <1>a DEF RoutingOK, BudgetOK, budget, Driving
    <2>2. CASE Conflict(run[p], st[p])
      BY <2>1, <2>2, ReturnType DEF RowsOK
    <2>3. CASE ~Conflict(run[p], st[p])
      <3>1. RowsOK'
        BY <1>a, <2>1, <2>3, SaveType
      <3>2. LocalOK' /\ ControlOK'
        BY <2>1, <2>3 DEF LocalOK, ControlOK, Placed, Where, Driving
      <3>3. QED
        BY <2>1, <3>1, <3>2
    <2>4. QED
      BY <2>2, <2>3
  <1>5. ASSUME NEW p \in Procs, Start(p) PROVE TypeOK' /\ ControlOK'
    <2> DEFINE s == [st[p] EXCEPT !.status = "running"]
               t == [s EXCEPT !.node = FirstNode(s)]
    <2>0. s \in State /\ t \in State
      <3>1. s \in State
        BY <1>a DEF State, Status
      <3>2. FirstNode(s) \in Nodes
        BY <3>1 DEF FirstNode, State, Nodes, NoNode, LoadMailContext
      <3>3. QED
        BY <3>1, <3>2 DEF State
    <2>1. RoutingOK' /\ BudgetOK' /\ run[p] \in 1..created /\ created' = created
      BY <1>5, <1>a DEF Start, RoutingOK, BudgetOK, budget, Driving
    <2>2. CASE Conflict(run[p], s)
      BY <1>5, <2>1, <2>2, ReturnType DEF RowsOK, Start
    <2>3. CASE ~Conflict(run[p], s)
      <3>1. Save(run[p], s) /\ Goto(p, "node", run[p], t) /\ seen' = seen
        BY <1>5, <2>3 DEF Start
      <3>2. RowsOK'
        BY <2>0, <2>1, <3>1, SaveType
      <3>3. LocalOK' /\ ControlOK'
        <4>1. Placed(created', "node", run[p], t)
          BY <1>a, <2>1 DEF Placed, State
        <4>2. QED
          BY <1>a, <2>0, <2>1, <3>1, <4>1, GotoType DEF Where
      <3>4. QED
        BY <2>1, <3>2, <3>3
    <2>4. QED
      BY <2>2, <2>3
  <1>6. ASSUME NEW p \in Procs, NodeStep(p) PROVE TypeOK' /\ ControlOK'
    <2>0. run[p] \in 1..created /\ created' = created
      BY <1>a, <1>6 DEF NodeStep, Driving
    <2>1. PICK s \in Outcomes(st[p].node, st[p]) : SaveNode(p, s)
      BY <1>6 DEF NodeStep
    <2>2. s \in State /\ s.status # "completed"
      BY <1>a, <1>6, <2>1, OutcomesType DEF NodeStep, Placed
    <2>3. RowsOK' /\ LocalOK' /\ ControlOK'
      BY <2>0, <2>1, <2>2, SaveNodeType
    <2>4. QED
      BY <1>6, <2>3 DEF NodeStep, RoutingOK, BudgetOK, budget
  <1>7. ASSUME NEW p \in Procs, RouteToReview(p) PROVE TypeOK' /\ ControlOK'
    <2> DEFINE t == [st[p] EXCEPT !.routing = "review"]
    <2>1. t \in State
      BY <1>a DEF State
    <2>2. Goto(p, "apply", run[p], t) /\ seen' = seen /\ created' = created
          /\ run[p] \in 1..created
      BY <1>7, <1>a DEF RouteToReview, rows, Driving
    <2>3. LocalOK' /\ ControlOK'
      <3>1. Placed(created', "apply", run[p], t)
        BY <1>7, <1>a, <2>2 DEF RouteToReview, Placed, State
      <3>2. QED
        BY <1>a, <2>1, <2>2, <3>1, GotoType DEF Where
    <2>4. QED
      BY <1>7, <2>3 DEF RouteToReview, RowsOK, RoutingOK, BudgetOK, rows, budget
  <1>8. ASSUME NEW p \in Procs, ApplyReview(p) PROVE TypeOK' /\ ControlOK'
    <2>1. Goto(p, "save", run[p], Review(st[p])) /\ seen' = seen /\ created' = created
          /\ run[p] \in 1..created
      BY <1>8, <1>a DEF ApplyReview, rows, Driving
    <2>2. LocalOK' /\ ControlOK'
      <3>1. Placed(created', "save", run[p], Review(st[p]))
        BY <1>8, <1>a, <2>1, ReviewType DEF ApplyReview, Placed
      <3>2. QED
        BY <1>a, <2>1, <3>1, ReviewType, GotoType DEF Where
    <2>3. RoutingOK'
      BY <1>8 DEF ApplyReview, ApplyDecision, RoutingOK, Someone
    <2>4. QED
      BY <1>8, <2>2, <2>3 DEF ApplyReview, RowsOK, BudgetOK, rows, budget
  <1>9. ASSUME NEW p \in Procs, PersistAssign(p) PROVE TypeOK' /\ ControlOK'
    <2>1. Goto(p, "forward", run[p], st[p]) /\ seen' = seen /\ created' = created
          /\ run[p] \in 1..created /\ st[p].routing \in Users
      BY <1>9, <1>a DEF PersistAssign, rows, Driving
    <2>2. LocalOK' /\ ControlOK'
      <3>1. Placed(created', "forward", run[p], st[p])
        BY <1>9, <1>a, <2>1 DEF PersistAssign, Placed
      <3>2. QED
        BY <1>a, <2>1, <3>1, GotoType DEF Where
    <2>3. RoutingOK'
      BY <1>9 DEF PersistAssign, ApplyDecision, RoutingOK, Someone
    <2>4. QED
      BY <1>9, <2>2, <2>3 DEF PersistAssign, RowsOK, BudgetOK, rows, budget
  <1>10. ASSUME NEW p \in Procs, MarkForward(p) PROVE TypeOK' /\ ControlOK'
    <2>1. PICK where \in {"save", "fail"} : Goto(p, where, run[p], st[p])
      BY <1>10 DEF MarkForward
    <2>2. seen' = seen /\ created' = created /\ run[p] \in 1..created
      BY <1>10, <1>a DEF MarkForward, rows, Driving
    <2>3. LocalOK' /\ ControlOK'
      <3>1. pc[p] = "forward" /\ Placed(created, pc[p], run[p], st[p])
        BY <1>10, <1>a DEF MarkForward
      <3>2. Placed(created', where, run[p], st[p])
        BY <2>1, <2>2, <3>1 DEF Placed
      <3>3. QED
        BY <1>a, <2>1, <2>2, <3>2, GotoType DEF Where
    <2>4. RoutingOK'
      BY <1>10, <1>a DEF MarkForward, Forward, RoutingOK, Placed, Someone
    <2>5. QED
      BY <1>10, <2>3, <2>4 DEF MarkForward, RowsOK, BudgetOK, rows, budget
  <1>11. ASSUME NEW p \in Procs, SaveAfter(p) PROVE TypeOK' /\ ControlOK'
    <2>1. run[p] \in 1..created /\ created' = created /\ st[p].status # "completed"
      BY <1>a, <1>11 DEF SaveAfter, Driving, Placed
    <2>2. RowsOK' /\ LocalOK' /\ ControlOK'
      BY <1>a, <1>11, <2>1, SaveNodeType DEF SaveAfter
    <2>3. QED
      BY <1>11, <2>2 DEF SaveAfter, RoutingOK, BudgetOK, budget
  <1>12. ASSUME NEW p \in Procs, Final(p) PROVE TypeOK' /\ ControlOK'
    <2>1. run[p] \in 1..created /\ created' = created
      BY <1>a, <1>12 DEF Final, Driving
    <2>2. RowsOK' /\ LocalOK' /\ ControlOK'
      BY <1>a, <1>12, <2>1, SaveType, ReturnType DEF Final
    <2>3. QED
      BY <1>12, <2>2 DEF Final, RoutingOK, BudgetOK, budget
  <1>13. ASSUME NEW p \in Procs, Fail(p) PROVE TypeOK' /\ ControlOK'
    <2> DEFINE t == [st[p] EXCEPT !.status = "failed"]
    <2>1. run[p] \in 1..created /\ created' = created /\ t \in State
      BY <1>a, <1>13 DEF Fail, Driving, State, Status
    <2>2. RowsOK' /\ LocalOK' /\ ControlOK'
      BY <1>a, <1>13, <2>1, SaveType, ReturnType DEF Fail
    <2>3. QED
      BY <1>13, <2>2 DEF Fail, RoutingOK, BudgetOK, budget
  <1>14. ASSUME NEW p \in Procs, StepError(p) PROVE TypeOK' /\ ControlOK'
    <2>1. PICK s \in {st[p]} \cup Outcomes(st[p].node, st[p]) :
            Goto(p, "fail", run[p], s)
      BY <1>14 DEF StepError
    <2>2. s \in State
      BY <1>a, <2>1, OutcomesType
    <2>3. run[p] \in 1..created /\ created' = created /\ seen' = seen
      BY <1>a, <1>14 DEF StepError, Driving, rows
    <2>4. LocalOK' /\ ControlOK'
      <3>1. Placed(created', "fail", run[p], s)
        BY <2>3 DEF Placed
      <3>2. QED
        BY <1>a, <2>1, <2>2, <2>3, <3>1, GotoType DEF Where
    <2>5. QED
      BY <1>14, <2>4 DEF StepError, RowsOK, RoutingOK, BudgetOK, rows
  <1>15. ASSUME NEW p \in Procs, Crash(p) PROVE TypeOK' /\ ControlOK'
    BY <1>15, ReturnType DEF Crash, RowsOK, RoutingOK, BudgetOK, rows
  <1>16. ASSUME NEW p \in Procs, NEW u \in Users, ManualAssign(p, u) PROVE TypeOK' /\ ControlOK'
    <2>1. RowsOK'
      <3>1. CASE LatestInReview
        <4>1. created \in RunIds
          BY <3>1 DEF LatestInReview, RowsOK, RunIds
        <4>2. QED
          BY <1>16, <3>1, <4>1 DEF ManualAssign, RowsOK, RunIds, Status, LatestInReview, Latest
      <3>2. QED
        BY <1>16, <3>1 DEF ManualAssign, RowsOK
    <2>2. LocalOK' /\ ControlOK'
      BY <1>16 DEF ManualAssign, LocalOK, ControlOK, Placed, Where, Driving, Someone
    <2>3. RoutingOK' /\ BudgetOK'
      BY <1>16 DEF ManualAssign, RoutingOK, BudgetOK, Call, Someone
    <2>4. QED
      BY <2>1, <2>2, <2>3
  <1>17. ASSUME NEW p \in Procs, EnsureWork(p) PROVE TypeOK' /\ ControlOK'
    <2>1. RoutingOK'
      BY <1>17 DEF EnsureWork, RoutingOK, LocalOK
    <2>2. QED
      BY <1>17, <2>1, ReturnType DEF EnsureWork, RowsOK, BudgetOK, rows, budget
  <1>18. ASSUME NEW p \in Procs, SweepRead(p) PROVE TypeOK' /\ ControlOK'
    <2>1. LocalOK' /\ ControlOK'
      BY <1>18 DEF SweepRead, LocalOK, ControlOK, Placed, RoutingOK, Where, Driving, rows
    <2>2. QED
      BY <1>18, <2>1 DEF SweepRead, RowsOK, RoutingOK, BudgetOK, Call, rows
  <1>19. ASSUME NEW p \in Procs, SweepMark(p) PROVE TypeOK' /\ ControlOK'
    <2>1. RoutingOK'
      BY <1>19 DEF SweepMark, Forward, RoutingOK, LocalOK
    <2>2. QED
      BY <1>19, <2>1, ReturnType DEF SweepMark, RowsOK, BudgetOK, rows, budget
  <1>20. CASE UNCHANGED vars
    BY <1>20 DEF vars, rows, local, budget, RowsOK, RoutingOK, LocalOK, BudgetOK, ControlOK, Placed
  <1>21. QED
    BY <1>1, <1>2, <1>3, <1>4, <1>5, <1>6, <1>7, <1>8, <1>9, <1>10, <1>11, <1>12,
       <1>13, <1>14, <1>15, <1>16, <1>17, <1>18, <1>19, <1>20 DEF Next, Proceed

----------------------------------------------------------------------------
(* One active run.                                                          *)

(* All the ways a step changes mail_decision_runs.                          *)
RowStep ==
    \/ row' = row
    \/ /\ \A r \in RunIds : row[r].status \notin Active
       /\ row' = [row EXCEPT ![created + 1] = [status |-> "queued", json |-> NewState]]
    \/ \E r \in 1..created, s \in State : ~Conflict(r, s) /\ Save(r, s)
    \/ row' = [row EXCEPT ![created].status = "completed"]

LEMMA SaveNodeRow ==
    ASSUME NEW p \in Procs, NEW s \in State, run[p] \in 1..created, SaveNode(p, s)
    PROVE  RowStep
  BY DEF SaveNode, RowStep

LEMMA RowSteps == TypeInv /\ [Next]_vars => RowStep
  <1> SUFFICES ASSUME TypeInv, [Next]_vars PROVE RowStep
    OBVIOUS
  <1>a. \A p \in Procs : st[p] \in State
    BY DEF TypeInv, TypeOK, LocalOK
  <1>b. \A p \in Procs : pc[p] \in Driving => run[p] \in 1..created
    BY DEF TypeInv, ControlOK, Placed
  <1>1. ASSUME NEW p \in Procs, CreateRun(p) PROVE RowStep
    BY <1>1 DEF CreateRun, RowStep
  <1>2. ASSUME NEW p \in Procs, Reset(p) PROVE RowStep
    BY <1>a, <1>b, <1>2 DEF Reset, RowStep, Driving
  <1>3. ASSUME NEW p \in Procs, Start(p) PROVE RowStep
    <2> DEFINE s == [st[p] EXCEPT !.status = "running"]
    <2>1. s \in State
      BY <1>a DEF State, Status
    <2>2. QED
      BY <1>b, <1>3, <2>1 DEF Start, RowStep, Driving
  <1>4. ASSUME NEW p \in Procs, NodeStep(p) PROVE RowStep
    BY <1>a, <1>b, <1>4, OutcomesType, SaveNodeRow DEF NodeStep, Driving
  <1>5. ASSUME NEW p \in Procs, SaveAfter(p) PROVE RowStep
    BY <1>a, <1>b, <1>5, SaveNodeRow DEF SaveAfter, Driving
  <1>6. ASSUME NEW p \in Procs, Final(p) PROVE RowStep
    BY <1>a, <1>b, <1>6
    DEF TypeInv, ControlOK, Placed, Final, RowStep, Conflict, Driving, Active
  <1>7. ASSUME NEW p \in Procs, Fail(p) PROVE RowStep
    <2> DEFINE s == [st[p] EXCEPT !.status = "failed"]
    <2>1. s \in State /\ s.status \notin Active
      BY <1>a DEF State, Status, Active
    <2>2. QED
      BY <1>b, <1>7, <2>1 DEF Fail, RowStep, Conflict, Driving
  <1>8. ASSUME NEW p \in Procs, NEW u \in Users, ManualAssign(p, u) PROVE RowStep
    BY <1>8 DEF ManualAssign, RowStep
  <1>9. CASE UNCHANGED row
    BY <1>9 DEF RowStep
  <1>10. QED
    BY <1>1, <1>2, <1>3, <1>4, <1>5, <1>6, <1>7, <1>8, <1>9
    DEF Next, Proceed, vars, rows, JoinRun, ResumeRun, RouteToReview, ApplyReview,
        PersistAssign, MarkForward, StepError, Crash, EnsureWork, SweepRead, SweepMark

LEMMA UnfinishedStep == TypeInv /\ [Next]_vars => ActiveUnfinished'
  <1> SUFFICES ASSUME TypeInv, [Next]_vars, NEW r \in RunIds, row'[r].status \in Active
               PROVE  row'[r].json.status # "completed"
    BY DEF ActiveUnfinished
  <1>1. row \in [RunIds -> [status : Status \cup {"absent"}, json : State]]
    BY DEF TypeInv, TypeOK, RowsOK
  <1>2. CASE row'[r] = row[r]
    BY <1>2 DEF TypeInv, ActiveUnfinished
  <1>3. CASE row'[r] = [status |-> "queued", json |-> NewState]
    BY <1>3 DEF NewState
  <1>4. CASE \E s \in State : row'[r] = [status |-> s.status, json |-> s]
    BY <1>4 DEF Active
  <1>5. CASE row'[r].status = "completed"
    BY <1>5 DEF Active
  <1>6. QED
    BY RowSteps, <1>1, <1>2, <1>3, <1>4, <1>5 DEF RowStep, Save

(* The tables and the memories keep their types, and no execution saves a   *)
(* run that was never created.                                              *)
THEOREM TypeCorrect == Spec => []TypeInv
  BY InitType, TypeStep, UnfinishedStep, PTL DEF Spec, TypeInv

(* In particular every reachable state is well typed.                       *)
THEOREM TypesHold == Spec => []TypeOK
  BY TypeCorrect, PTL DEF TypeInv

(* The partial unique index keeps one run of the mail active, whoever saves. *)
LEMMA OneActiveStep == TypeInv /\ OneActiveRun /\ [Next]_vars => OneActiveRun'
  <1> SUFFICES ASSUME TypeInv, OneActiveRun, [Next]_vars PROVE OneActiveRun'
    OBVIOUS
  <1>0. row \in [RunIds -> [status : Status \cup {"absent"}, json : State]]
    BY DEF TypeInv, TypeOK, RowsOK
  <1>1. CASE row' = row
    BY <1>1 DEF OneActiveRun
  <1>2. CASE /\ \A r \in RunIds : row[r].status \notin Active
             /\ row' = [row EXCEPT ![created + 1] = [status |-> "queued", json |-> NewState]]
    <2>1. \A r \in RunIds : row'[r].status \in Active => r = created + 1
      BY <1>0, <1>2
    <2>2. QED
      BY <2>1 DEF OneActiveRun
  <1>3. ASSUME NEW r \in 1..created, NEW s \in State, ~Conflict(r, s), Save(r, s)
        PROVE  OneActiveRun'
    <2>1. \A q \in RunIds : q # r => row'[q] = row[q]
      BY <1>0, <1>3 DEF Save
    <2>2. r \in RunIds => row'[r].status = s.status
      BY <1>0, <1>3 DEF Save
    <2>3. CASE s.status \in Active
      <3>1. \A q \in RunIds : row'[q].status \in Active => q = r
        BY <1>3, <2>1, <2>3 DEF Conflict
      <3>2. QED
        BY <3>1 DEF OneActiveRun
    <2>4. CASE s.status \notin Active
      BY <2>1, <2>2, <2>4 DEF OneActiveRun
    <2>5. QED
      BY <2>3, <2>4
  <1>4. CASE row' = [row EXCEPT ![created].status = "completed"]
    <2>1. \A r \in RunIds : row'[r].status \in Active => row[r].status \in Active
      BY <1>0, <1>4 DEF Active
    <2>2. QED
      BY <2>1 DEF OneActiveRun
  <1>5. QED
    BY RowSteps, <1>1, <1>2, <1>3, <1>4 DEF RowStep

(* No interleaving of saves gives a mail two active runs.                   *)
THEOREM ActiveRunUnique == Spec => []OneActiveRun
  <1>1. Init => OneActiveRun
    BY DEF Init, OneActiveRun, Absent, Active
  <1>2. QED
    BY <1>1, OneActiveStep, TypeCorrect, PTL DEF Spec

----------------------------------------------------------------------------
(* A run can be resumed from what was saved of it.                          *)

RowsComplete == \A r \in RunIds : Complete(row[r].json)
MemoryComplete == \A p \in Procs : Complete(st[p])

LEMMA NewStateComplete == Complete(NewState)
  BY DEF Complete, NewState, NoNode, LoadMailContext, RetrieveContext, GenerateDecision,
         GenerateCandidates, ValidateDecision

LEMMA GotoComplete ==
    ASSUME TypeOK, MemoryComplete, NEW p \in Procs, NEW where, NEW r, NEW s \in State,
           Goto(p, where, r, s), Complete(s)
    PROVE  MemoryComplete'
  BY DEF TypeOK, LocalOK, MemoryComplete, Goto

LEMMA SaveComplete ==
    ASSUME TypeOK, RowsComplete, NEW r, NEW s \in State, Save(r, s), Complete(s)
    PROVE  RowsComplete'
  BY DEF TypeOK, RowsOK, RowsComplete, Save

LEMMA EarlyComplete ==
    ASSUME NEW s \in State, s.node \in {0, 1}
    PROVE  Complete(s)
  BY DEF Complete, LoadMailContext, RetrieveContext, GenerateDecision, GenerateCandidates,
         ValidateDecision

LEMMA FirstNodeComplete ==
    ASSUME NEW s \in State, Complete(s)
    PROVE  LET t == [s EXCEPT !.node = FirstNode(s)] IN t \in State /\ Complete(t)
  <1>1. CASE s.node = NoNode
    <2> DEFINE l == [s EXCEPT !.node = LoadMailContext]
    <2>1. l \in State /\ l.node = 1
      BY DEF State, LoadMailContext, Nodes
    <2>2. QED
      BY <1>1, <2>1, EarlyComplete DEF FirstNode
  <1>2. CASE s.node # NoNode
    <2>1. [s EXCEPT !.node = FirstNode(s)] = s
      BY <1>2 DEF FirstNode, State
    <2>2. QED
      BY <2>1
  <1>3. QED
    BY <1>1, <1>2

(* A handler that does not stop for review has produced what its successors *)
(* read, from inputs it checked.                                            *)
LEMMA OutcomeComplete ==
    ASSUME NEW s \in State, Complete(s), NEW x \in Outcomes(s.node, s)
    PROVE  /\ Complete(x)
           /\ x.status = "review_required" \/ Complete([x EXCEPT !.node = x.node + 1])
  <1> USE DEF NoNode, LoadMailContext, AnalyzeAttachments, ExtractFacts, PlanRetrieval,
              RetrieveContext, EvaluateContext, GenerateDecision, GenerateCandidates,
              ValidateDecision, PersistResult, Nodes
  <1>1. CASE ~HasInputs(s.node, s)
    BY <1>1, ReviewType DEF Outcomes, Review, Complete, State
  <1>2. CASE HasInputs(s.node, s)
    <2>1. x \in Results(s.node, s)
      BY <1>2 DEF Outcomes
    <2>2. CASE s.node \in {1, 3} /\ x = [s EXCEPT !.facts = TRUE]
      BY <2>2 DEF Complete, State
    <2>3. CASE s.node = 5 /\ \E c \in {"sufficient", "insufficient"} :
                                x = [s EXCEPT !.retrieval = c]
      BY <1>2, <2>3 DEF Complete, State, HasInputs
    <2>4. CASE s.node = 7 /\ x \in Decided(s)
      <3> DEFINE d == [s EXCEPT !.decision = TRUE]
      <3>1. x = Review(d) \/ x = d
        BY <2>4 DEF Decided
      <3>2. /\ d \in State /\ d.decision /\ s.facts /\ s.retrieval # "none"
            /\ d.node = 7 /\ d.facts /\ d.retrieval # "none"
        BY <1>2, <2>4 DEF State, HasInputs
      <3>3. CASE x = d
        BY <3>2, <3>3 DEF Complete, State
      <3>4. CASE x = Review(d)
        BY <3>2, <3>4 DEF Complete, State, Review
      <3>5. QED
        BY <3>1, <3>3, <3>4
    <2>5. CASE s.node = 8 /\ \E u \in Users :
                                x = [s EXCEPT !.routing = u, !.status = "auto_assigned"]
      BY <1>2, <2>5, UsersAssumption DEF Complete, State, HasInputs
    <2>6. CASE s.node \in {2, 4, 6, 9} /\ x = s
      BY <1>2, <2>6, UsersAssumption DEF Complete, State, HasInputs
    <2>7. QED
      BY <2>1, <2>2, <2>3, <2>4, <2>5, <2>6 DEF Results
  <1>3. QED
    BY <1>1, <1>2

LEMMA SaveNodeComplete ==
    ASSUME TypeOK, ResumeContextComplete, NEW p \in Procs, NEW s \in State, Complete(s),
           \/ s.status = "review_required"
           \/ s.node = PersistResult
           \/ Complete([s EXCEPT !.node = s.node + 1]),
           SaveNode(p, s)
    PROVE  ResumeContextComplete'
  <1> DEFINE done == [s EXCEPT !.status = "completed", !.node = NoNode]
             next == [s EXCEPT !.node = s.node + 1]
  <1>0. RowsComplete /\ MemoryComplete
    BY DEF ResumeContextComplete, RowsComplete, MemoryComplete
  <1>1. RowsComplete'
    <2>1. CASE row' = row
      BY <1>0, <2>1 DEF RowsComplete
    <2>2. CASE Save(run[p], s)
      BY <1>0, <2>2, SaveComplete
    <2>3. row' = row \/ Save(run[p], s)
      BY DEF SaveNode
    <2>4. QED
      BY <2>1, <2>2, <2>3
  <1>2. done \in State /\ Complete(done)
    <2>1. done \in State /\ done.node = 0
      BY DEF State, Status, NoNode
    <2>2. QED
      BY <2>1, EarlyComplete
  <1>3. s.status # "review_required" /\ s.node # PersistResult =>
          next \in State /\ Complete(next)
    BY DEF State, Nodes, NoNode, PersistResult
  <1>4. MemoryComplete'
    BY <1>0, <1>2, <1>3, NewStateType, NewStateComplete, GotoComplete
    DEF SaveNode, Return
  <1>5. QED
    BY <1>1, <1>4 DEF ResumeContextComplete, RowsComplete, MemoryComplete

(* A step that saves no run and reloads no memory changes neither.          *)
LEMMA CompleteStutter ==
    ASSUME ResumeContextComplete, row' = row, st' = st
    PROVE  ResumeContextComplete'
  BY DEF ResumeContextComplete

LEMMA CompleteStep ==
    TypeInv /\ ResumeContextComplete /\ [Next]_vars => ResumeContextComplete'
  <1> SUFFICES ASSUME TypeInv, ResumeContextComplete, [Next]_vars
               PROVE  ResumeContextComplete'
    OBVIOUS
  <1>a. TypeOK /\ RowsComplete /\ MemoryComplete
    BY DEF TypeInv, ResumeContextComplete, RowsComplete, MemoryComplete
  <1>b. \A p \in Procs : st[p] \in State /\ Complete(st[p])
                         /\ Placed(created, pc[p], run[p], st[p])
    BY DEF TypeInv, TypeOK, LocalOK, ControlOK, ResumeContextComplete
  <1>c. \A r \in RunIds : row[r].json \in State /\ Complete(row[r].json)
    BY DEF TypeInv, TypeOK, RowsOK, ResumeContextComplete
  <1>d. ASSUME RowsComplete', MemoryComplete' PROVE ResumeContextComplete'
    BY <1>d DEF ResumeContextComplete, RowsComplete, MemoryComplete
  <1>e. ASSUME row' = row PROVE RowsComplete'
    BY <1>a, <1>e DEF RowsComplete
  <1>f. ASSUME NEW p \in Procs, Return(p) PROVE MemoryComplete'
    BY <1>a, <1>f, NewStateType, NewStateComplete, GotoComplete DEF Return
  <1>1. ASSUME NEW p \in Procs, CreateRun(p) PROVE ResumeContextComplete'
    <2>1. RowsComplete'
      BY <1>1, <1>a, NewStateComplete DEF CreateRun, TypeOK, RowsOK, RowsComplete
    <2>2. MemoryComplete'
      BY <1>1, <1>a, NewStateType, NewStateComplete, GotoComplete DEF CreateRun
    <2>3. QED
      BY <1>d, <2>1, <2>2
  <1>2. ASSUME NEW p \in Procs, JoinRun(p) PROVE ResumeContextComplete'
    <2>1. MemoryComplete'
      BY <1>2, <1>a, <1>c, NewStateType, NewStateComplete, GotoComplete DEF JoinRun
    <2>2. QED
      BY <1>2, <1>d, <1>e, <2>1 DEF JoinRun, rows
  <1>3. ASSUME NEW p \in Procs, ResumeRun(p) PROVE ResumeContextComplete'
    <2>1. 1..created \subseteq RunIds
      BY <1>a DEF TypeOK, RowsOK, RunIds
    <2>2. MemoryComplete'
      BY <1>3, <1>a, <1>c, <2>1, GotoComplete DEF ResumeRun
    <2>3. QED
      BY <1>3, <1>d, <1>e, <2>2 DEF ResumeRun, rows
  <1>4. ASSUME NEW p \in Procs, Reset(p) PROVE ResumeContextComplete'
    <2>1. RowsComplete'
      BY <1>4, <1>a, <1>b, <1>e, SaveComplete DEF Reset
    <2>2. CASE st' = st
      BY <1>a, <1>d, <2>1, <2>2 DEF MemoryComplete
    <2>3. QED
      BY <1>4, <1>d, <1>f, <2>1, <2>2 DEF Reset
  <1>5. ASSUME NEW p \in Procs, Start(p) PROVE ResumeContextComplete'
    <2> DEFINE s == [st[p] EXCEPT !.status = "running"]
               t == [s EXCEPT !.node = FirstNode(s)]
    <2>1. s \in State /\ Complete(s)
      BY <1>b DEF State, Status, Complete
    <2>1a. t \in State /\ Complete(t)
      BY <2>1, FirstNodeComplete
    <2>2. CASE Conflict(run[p], s)
      BY <1>5, <1>d, <1>e, <1>f, <2>2 DEF Start
    <2>3. CASE ~Conflict(run[p], s)
      <3>1. Save(run[p], s) /\ Goto(p, "node", run[p], t)
        BY <1>5, <2>3 DEF Start
      <3>2. QED
        BY <1>a, <1>d, <2>1, <2>1a, <3>1, SaveComplete, GotoComplete
    <2>4. QED
      BY <2>2, <2>3
  <1>6. ASSUME NEW p \in Procs, NodeStep(p) PROVE ResumeContextComplete'
    <2>1. PICK s \in Outcomes(st[p].node, st[p]) : SaveNode(p, s)
      BY <1>6 DEF NodeStep
    <2>2. s \in State
      BY <1>b, <2>1, OutcomesType
    <2>3. QED
      BY <1>a, <1>b, <2>1, <2>2, OutcomeComplete, SaveNodeComplete
  <1>7. ASSUME NEW p \in Procs, RouteToReview(p) PROVE ResumeContextComplete'
    <2> DEFINE t == [st[p] EXCEPT !.routing = "review"]
    <2>1. t \in State /\ Complete(t)
      BY <1>7, <1>b DEF RouteToReview, State, Complete, ValidateDecision, GenerateCandidates
    <2>2. MemoryComplete'
      BY <1>7, <1>a, <2>1, GotoComplete DEF RouteToReview
    <2>3. QED
      BY <1>7, <1>d, <1>e, <2>2 DEF RouteToReview, rows
  <1>8. ASSUME NEW p \in Procs, ApplyReview(p) PROVE ResumeContextComplete'
    <2>1. Complete(Review(st[p]))
      BY <1>b DEF Review, Complete, State
    <2>2. MemoryComplete'
      BY <1>8, <1>a, <1>b, <2>1, ReviewType, GotoComplete DEF ApplyReview
    <2>3. QED
      BY <1>8, <1>d, <1>e, <2>2 DEF ApplyReview, rows
  <1>9. ASSUME NEW p \in Procs, PersistAssign(p) PROVE ResumeContextComplete'
    <2>1. MemoryComplete'
      BY <1>9, <1>a, <1>b, GotoComplete DEF PersistAssign
    <2>2. QED
      BY <1>9, <1>d, <1>e, <2>1 DEF PersistAssign, rows
  <1>10. ASSUME NEW p \in Procs, MarkForward(p) PROVE ResumeContextComplete'
    <2>1. MemoryComplete'
      BY <1>10, <1>a, <1>b, GotoComplete DEF MarkForward
    <2>2. QED
      BY <1>10, <1>d, <1>e, <2>1 DEF MarkForward, rows
  <1>11. ASSUME NEW p \in Procs, SaveAfter(p) PROVE ResumeContextComplete'
    <2>1. st[p].status = "review_required" \/ st[p].node = PersistResult
      BY <1>11, <1>b DEF SaveAfter, Placed
    <2>2. QED
      BY <1>11, <1>a, <1>b, <2>1, SaveNodeComplete DEF SaveAfter
  <1>12. ASSUME NEW p \in Procs, Final(p) PROVE ResumeContextComplete'
    BY <1>12, <1>a, <1>b, <1>d, <1>f, SaveComplete DEF Final
  <1>13. ASSUME NEW p \in Procs, Fail(p) PROVE ResumeContextComplete'
    <2> DEFINE t == [st[p] EXCEPT !.status = "failed"]
    <2>1. t \in State /\ Complete(t)
      BY <1>b DEF State, Status, Complete
    <2>2. QED
      BY <1>13, <1>a, <1>d, <1>f, <2>1, SaveComplete DEF Fail
  <1>14. ASSUME NEW p \in Procs, StepError(p) PROVE ResumeContextComplete'
    <2>1. PICK s \in {st[p]} \cup Outcomes(st[p].node, st[p]) :
            Goto(p, "fail", run[p], s)
      BY <1>14 DEF StepError
    <2>2. s \in State /\ Complete(s)
      BY <1>b, <2>1, OutcomesType, OutcomeComplete
    <2>3. MemoryComplete'
      BY <1>a, <2>1, <2>2, GotoComplete
    <2>4. QED
      BY <1>14, <1>d, <1>e, <2>3 DEF StepError, rows
  <1>15. ASSUME NEW p \in Procs, Crash(p) PROVE ResumeContextComplete'
    BY <1>15, <1>d, <1>e, <1>f DEF Crash, rows
  <1>16. ASSUME NEW p \in Procs, NEW u \in Users, ManualAssign(p, u)
         PROVE  ResumeContextComplete'
    <2>1. \A r \in RunIds : row'[r].json = row[r].json
      BY <1>16, <1>a DEF ManualAssign, TypeOK, RowsOK
    <2>2. st' = st
      BY <1>16 DEF ManualAssign
    <2>3. QED
      BY <2>1, <2>2 DEF ResumeContextComplete
  <1>17. ASSUME NEW p \in Procs, EnsureWork(p) PROVE ResumeContextComplete'
    BY <1>17, <1>d, <1>e, <1>f DEF EnsureWork, rows
  <1>18. ASSUME NEW p \in Procs, SweepRead(p) PROVE ResumeContextComplete'
    BY <1>18, CompleteStutter DEF SweepRead, rows
  <1>19. ASSUME NEW p \in Procs, SweepMark(p) PROVE ResumeContextComplete'
    BY <1>19, <1>d, <1>e, <1>f DEF SweepMark, rows
  <1>20. CASE UNCHANGED vars
    BY <1>20, CompleteStutter DEF vars, rows, local
  <1>21. QED
    BY <1>1, <1>2, <1>3, <1>4, <1>5, <1>6, <1>7, <1>8, <1>9, <1>10, <1>11, <1>12,
       <1>13, <1>14, <1>15, <1>16, <1>17, <1>18, <1>19, <1>20 DEF Next, Proceed

(* Wherever an execution stopped, the saved run has all the results of the  *)
(* nodes before the one it will be resumed at.                              *)
THEOREM ResumeContext == Spec => []ResumeContextComplete
  <1>1. Init => ResumeContextComplete
    BY NewStateComplete DEF Init, ResumeContextComplete, Absent
  <1>2. QED
    BY <1>1, CompleteStep, TypeCorrect, PTL DEF Spec

----------------------------------------------------------------------------
(* At most one automatic completion.  The notification is a token: whoever  *)
(* inserted it is the only execution on its way to "completed", and the run *)
(* it completes the only completed one.                                     *)

Holds(p) == pc[p] = "final" \/ (pc[p] = "save" /\ st[p].node = PersistResult)
Done(r) == row[r].json.status = "completed"

Token ==
    /\ \A p \in Procs : Holds(p) => autoTo # "none"
    /\ \A r \in RunIds : Done(r) => autoTo # "none"
    /\ \A p, q \in Procs : Holds(p) /\ Holds(q) => p = q
    /\ \A q, r \in RunIds : Done(q) /\ Done(r) => q = r
    /\ \A p \in Procs, r \in RunIds : ~(Holds(p) /\ Done(r))

(* A step that gives nobody the token and completes no run.                 *)
NoNewHolder == \A p \in Procs : Holds(p)' => Holds(p)
NoNewDone == \A r \in RunIds : Done(r)' => Done(r)
KeyKept == autoTo # "none" => autoTo' # "none"

LEMMA TokenShrinks ==
    ASSUME Token, NoNewHolder, NoNewDone, KeyKept
    PROVE  Token'
  BY DEF Token, NoNewHolder, NoNewDone, KeyKept

LEMMA GotoHolds ==
    ASSUME TypeOK, NEW p \in Procs, NEW where, NEW r, NEW s, Goto(p, where, r, s),
           where \notin {"final", "save"}
    PROVE  NoNewHolder
  BY DEF TypeOK, LocalOK, Goto, NoNewHolder, Holds

LEMMA SaveDone ==
    ASSUME TypeOK, NEW r, NEW s, Save(r, s), s.status # "completed"
    PROVE  NoNewDone
  BY DEF TypeOK, RowsOK, Save, NoNewDone, Done

LEMMA SaveNodeToken ==
    ASSUME TypeOK, NEW p \in Procs, NEW s \in State, SaveNode(p, s),
           s.status # "completed", s.node = PersistResult => Holds(p)
    PROVE  NoNewHolder /\ NoNewDone
  <1>1. CASE Conflict(run[p], s)
    <2>1. Goto(p, "fail", run[p], s) /\ row' = row
      BY <1>1 DEF SaveNode
    <2>2. QED
      BY <2>1, GotoHolds DEF NoNewDone, Done
  <1>2. CASE ~Conflict(run[p], s)
    <2>1. NoNewDone
      BY <1>2, SaveDone DEF SaveNode
    <2>2. CASE s.status # "review_required" /\ s.node = PersistResult
      BY <1>2, <2>1, <2>2 DEF SaveNode, Goto, NoNewHolder, Holds, TypeOK, LocalOK
    <2>3. CASE s.status # "review_required" /\ s.node # PersistResult
      <3>1. Goto(p, "node", run[p], [s EXCEPT !.node = s.node + 1])
        BY <1>2, <2>3 DEF SaveNode
      <3>2. QED
        BY <2>1, <3>1, GotoHolds
    <2>4. CASE s.status = "review_required"
      BY <1>2, <2>1, <2>4, GotoHolds DEF SaveNode, Return
    <2>5. QED
      BY <2>2, <2>3, <2>4
  <1>3. QED
    BY <1>1, <1>2

LEMMA TokenStep == TypeInv /\ Token /\ [Next]_vars => Token'
  <1> SUFFICES ASSUME TypeInv, Token, [Next]_vars PROVE Token'
    OBVIOUS
  <1>a. TypeOK
    BY DEF TypeInv
  <1>b. \A p \in Procs : st[p] \in State /\ Placed(created, pc[p], run[p], st[p])
    BY DEF TypeInv, TypeOK, LocalOK, ControlOK
  <1>c. row' = row => NoNewDone
    BY DEF NoNewDone, Done
  <1>d. autoTo' = autoTo => KeyKept
    BY DEF KeyKept
  <1>e. \A p \in Procs : Return(p) => NoNewHolder
    BY <1>a, GotoHolds DEF Return
  <1>1. ASSUME NEW p \in Procs, CreateRun(p) PROVE Token'
    <2>1. NoNewDone
      BY <1>1, <1>a DEF CreateRun, TypeOK, RowsOK, NoNewDone, Done, NewState
    <2>2. QED
      BY <1>1, <1>a, <1>d, <2>1, GotoHolds, TokenShrinks DEF CreateRun
  <1>2. ASSUME NEW p \in Procs, JoinRun(p) PROVE Token'
    <2>1. NoNewHolder
      BY <1>2, <1>a, GotoHolds DEF JoinRun
    <2>2. QED
      BY <1>2, <1>c, <1>d, <2>1, TokenShrinks DEF JoinRun, rows
  <1>3. ASSUME NEW p \in Procs, ResumeRun(p) PROVE Token'
    <2>1. NoNewHolder
      BY <1>3, <1>a, GotoHolds DEF ResumeRun
    <2>2. QED
      BY <1>3, <1>c, <1>d, <2>1, TokenShrinks DEF ResumeRun, rows
  <1>4. ASSUME NEW p \in Procs, Reset(p) PROVE Token'
    <2>1. NoNewHolder
      BY <1>4, <1>a, <1>e DEF Reset, NoNewHolder, Holds, TypeOK, LocalOK
    <2>2. NoNewDone
      BY <1>4, <1>a, <1>b, <1>c, SaveDone DEF Reset, Placed
    <2>3. QED
      BY <1>4, <1>d, <2>1, <2>2, TokenShrinks DEF Reset
  <1>5. ASSUME NEW p \in Procs, Start(p) PROVE Token'
    <2> DEFINE s == [st[p] EXCEPT !.status = "running"]
    <2>1. s.status # "completed"
      BY <1>b DEF State
    <2>2. NoNewHolder
      BY <1>5, <1>a, <1>e, GotoHolds DEF Start
    <2>3. NoNewDone
      BY <1>5, <1>a, <1>c, <2>1, SaveDone DEF Start
    <2>4. QED
      BY <1>5, <1>d, <2>2, <2>3, TokenShrinks DEF Start
  <1>6. ASSUME NEW p \in Procs, NodeStep(p) PROVE Token'
    <2>1. PICK s \in Outcomes(st[p].node, st[p]) : SaveNode(p, s)
      BY <1>6 DEF NodeStep
    <2>2. s \in State /\ s.status # "completed" /\ s.node # PersistResult
      BY <1>6, <1>b, <2>1, OutcomesType DEF NodeStep, Placed
    <2>3. NoNewHolder /\ NoNewDone
      BY <1>a, <2>1, <2>2, SaveNodeToken
    <2>4. QED
      BY <1>6, <1>d, <2>3, TokenShrinks DEF NodeStep
  <1>7. ASSUME NEW p \in Procs, RouteToReview(p) PROVE Token'
    <2>1. NoNewHolder
      BY <1>7, <1>a, GotoHolds DEF RouteToReview
    <2>2. QED
      BY <1>7, <1>c, <1>d, <2>1, TokenShrinks DEF RouteToReview, rows
  <1>8. ASSUME NEW p \in Procs, ApplyReview(p) PROVE Token'
    <2>1. Review(st[p]).node = GenerateCandidates
      BY <1>8, <1>b, ReviewType DEF ApplyReview, Placed
    <2>2. NoNewHolder
      BY <1>8, <1>a, <2>1
      DEF ApplyReview, Goto, NoNewHolder, Holds, TypeOK, LocalOK, GenerateCandidates,
          PersistResult
    <2>3. QED
      BY <1>8, <1>c, <1>d, <2>2, TokenShrinks DEF ApplyReview, rows
  <1>9. ASSUME NEW p \in Procs, PersistAssign(p) PROVE Token'
    <2>1. NoNewHolder
      BY <1>9, <1>a, GotoHolds DEF PersistAssign
    <2>2. QED
      BY <1>9, <1>c, <1>d, <2>1, TokenShrinks DEF PersistAssign, rows
  <1>10. ASSUME NEW p \in Procs, MarkForward(p) PROVE Token'
    <2>0. row' = row
      BY <1>10 DEF MarkForward, rows
    <2>1. CASE autoTo # "none"
      <3>1. Goto(p, "fail", run[p], st[p]) /\ autoTo' = autoTo
        BY <1>10, <2>1 DEF MarkForward, Forward
      <3>2. QED
        BY <1>a, <1>c, <1>d, <2>0, <3>1, GotoHolds, TokenShrinks
    <2>2. CASE autoTo = "none"
      <3>1. autoTo' # "none" /\ Goto(p, "save", run[p], st[p])
        BY <1>10, <1>b, <2>2, UsersAssumption DEF MarkForward, Forward, Placed
      <3>2. \A q \in Procs : Holds(q)' => q = p
        BY <1>a, <2>2, <3>1 DEF Token, Goto, Holds, TypeOK, LocalOK
      <3>3. \A r \in RunIds : ~Done(r)'
        BY <2>0, <2>2 DEF Token, Done
      <3>4. QED
        BY <3>1, <3>2, <3>3 DEF Token
    <2>3. QED
      BY <2>1, <2>2
  <1>11. ASSUME NEW p \in Procs, SaveAfter(p) PROVE Token'
    <2>1. st[p].status # "completed" /\ (st[p].node = PersistResult => Holds(p))
      BY <1>11, <1>b DEF SaveAfter, Placed, Holds
    <2>2. NoNewHolder /\ NoNewDone
      BY <1>11, <1>a, <1>b, <2>1, SaveNodeToken DEF SaveAfter
    <2>3. QED
      BY <1>11, <1>d, <2>2, TokenShrinks DEF SaveAfter
  <1>12. ASSUME NEW p \in Procs, Final(p) PROVE Token'
    <2>1. Holds(p) /\ autoTo' = autoTo
      BY <1>12 DEF Final, Holds
    <2>2. \A q \in Procs : ~Holds(q)'
      <3>1. ~Holds(p)'
        BY <1>12, <1>a DEF Final, Return, Goto, Holds, TypeOK, LocalOK
      <3>2. NoNewHolder
        BY <1>12, <1>e DEF Final
      <3>3. QED
        BY <2>1, <3>1, <3>2 DEF Token, NoNewHolder
    <2>3. \A r \in RunIds : Done(r)' => r = run[p]
      BY <1>12, <1>a, <2>1 DEF Final, Save, Token, Done, TypeOK, RowsOK
    <2>4. QED
      BY <2>1, <2>2, <2>3 DEF Token
  <1>13. ASSUME NEW p \in Procs, Fail(p) PROVE Token'
    <2> DEFINE s == [st[p] EXCEPT !.status = "failed"]
    <2>1. s.status # "completed"
      BY <1>b DEF State
    <2>2. QED
      BY <1>13, <1>a, <1>d, <1>e, <2>1, SaveDone, TokenShrinks DEF Fail
  <1>14. ASSUME NEW p \in Procs, StepError(p) PROVE Token'
    <2>1. NoNewHolder
      BY <1>14, <1>a, GotoHolds DEF StepError
    <2>2. QED
      BY <1>14, <1>c, <1>d, <2>1, TokenShrinks DEF StepError, rows
  <1>15. ASSUME NEW p \in Procs, Crash(p) PROVE Token'
    BY <1>15, <1>c, <1>d, <1>e, TokenShrinks DEF Crash, rows
  <1>16. ASSUME NEW p \in Procs, NEW u \in Users, ManualAssign(p, u) PROVE Token'
    <2>1. NoNewDone
      BY <1>16, <1>a DEF ManualAssign, TypeOK, RowsOK, NoNewDone, Done
    <2>2. NoNewHolder
      BY <1>16, <1>a DEF ManualAssign, TypeOK, LocalOK, NoNewHolder, Holds
    <2>3. QED
      BY <1>16, <1>d, <2>1, <2>2, TokenShrinks DEF ManualAssign
  <1>17. ASSUME NEW p \in Procs, EnsureWork(p) PROVE Token'
    BY <1>17, <1>c, <1>d, <1>e, TokenShrinks DEF EnsureWork, rows
  <1>18. ASSUME NEW p \in Procs, SweepRead(p) PROVE Token'
    <2>1. NoNewHolder
      BY <1>18, <1>a DEF SweepRead, TypeOK, LocalOK, NoNewHolder, Holds
    <2>2. QED
      BY <1>18, <1>c, <1>d, <2>1, TokenShrinks DEF SweepRead, rows
  <1>19. ASSUME NEW p \in Procs, SweepMark(p) PROVE Token'
    <2>1. KeyKept
      BY <1>19 DEF SweepMark, Forward, KeyKept
    <2>2. QED
      BY <1>19, <1>c, <1>e, <2>1, TokenShrinks DEF SweepMark, rows
  <1>20. CASE UNCHANGED vars
    BY <1>20 DEF vars, rows, local, Token, Holds, Done
  <1>21. QED
    BY <1>1, <1>2, <1>3, <1>4, <1>5, <1>6, <1>7, <1>8, <1>9, <1>10, <1>11, <1>12,
       <1>13, <1>14, <1>15, <1>16, <1>17, <1>18, <1>19, <1>20 DEF Next, Proceed

LEMMA TokenAlways == Spec => []Token
  <1>1. Init => Token
    BY DEF Init, Token, Holds, Done, Absent, NewState
  <1>2. QED
    BY <1>1, TokenStep, TypeCorrect, PTL DEF Spec

(* Two runs of a mail never both complete automatically.                    *)
THEOREM CompletionUnique == Spec => []AtMostOneCompletion
  <1>1. Token => AtMostOneCompletion
    BY DEF Token, Done, AtMostOneCompletion
  <1>2. QED
    BY <1>1, TokenAlways, PTL

(* A run is completed only after the mail was forwarded to somebody.        *)
THEOREM CompletionForwards == Spec => []CompletedRunForwarded
  <1>1. Token => CompletedRunForwarded
    BY DEF Token, Done, CompletedRunForwarded
  <1>2. QED
    BY <1>1, TokenAlways, PTL
=============================================================================
