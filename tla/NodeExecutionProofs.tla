------------------------ MODULE NodeExecutionProofs ------------------------
(***************************************************************************)
(* Theorems about NodeExecution, for every workflow graph, every limit and *)
(* every number of attempts.                                               *)
(***************************************************************************)
EXTENDS NodeExecution, WorkflowGraphProofs

-----------------------------------------------------------------------------
(* Types.                                                                  *)

LEMMA FocusType ==
  ASSUME NEW st \in Statuses
  PROVE  Focus(st) \in Nodes \cup {NoNode}
<1> DEFINE open       == {n \in Nodes : st[n] \notin DoneStatus}
           candidates == IF Active(st) # {} THEN Active(st) ELSE open
<1>1. CASE candidates = {}
  BY <1>1 DEF Focus
<1>2. CASE candidates # {}
  <2>1. candidates \subseteq Nodes
    BY DEF Active
  <2>2. \E n \in candidates : \A m \in candidates : Order[n] <= Order[m]
    <3> HIDE DEF candidates
    <3> QED BY <1>2, <2>1, FirstExists
  <2>3. Focus(st) \in candidates
    BY <1>2, <2>2 DEF Focus
  <2> QED BY <2>1, <2>3
<1> QED BY <1>1, <1>2

LEMMA FinishedType ==
  ASSUME TypeOK, NEW n \in Nodes, NEW s \in NodeStatus
  PROVE  Finished(n, s) \in Statuses
<1>1. [node EXCEPT ![n] = s] \in Statuses /\ limit \in Int
  BY ExecutionAssumption DEF TypeOK, Statuses, ExecutionAssumption
<1> QED BY <1>1, AdmitShape DEF Finished

\* What TypeOK says of the NodeRuns, of a table that is about to be written.
RunsTyped(runs) ==
  /\ runs \in [NodeRunIds -> RunRecord]
  /\ \A id \in NodeRunIds : runs[id].status = "none" <=> id[2] > latest[id[1]]

LEMMA WriteRun ==
  ASSUME TypeOK, NEW id \in NodeRunIds, Status(id) # "none",
         NEW s \in NodeStatus, NEW r \in AiRuns \cup {NoRun}
  PROVE  /\ RunsTyped([run EXCEPT ![id] = [status |-> s, ai |-> r]])
         /\ RunsTyped([run EXCEPT ![id].status = s])
         /\ RunsTyped([run EXCEPT ![id].ai = r])
<1>1. s # "none"
  BY DEF NodeStatus
<1>2. /\ run \in [NodeRunIds -> RunRecord]
      /\ \A i \in NodeRunIds : run[i].status = "none" <=> i[2] > latest[i[1]]
  BY DEF TypeOK, Status
<1>3. /\ [status |-> s, ai |-> r] \in RunRecord
      /\ [run[id] EXCEPT !.status = s] \in RunRecord
      /\ [run[id] EXCEPT !.ai = r] \in RunRecord
  BY <1>2 DEF RunRecord, RunStatus
<1> QED BY <1>1, <1>2, <1>3 DEF RunsTyped, Status, RunRecord

LEMMA ActivatedType ==
  ASSUME TypeOK, NEW st \in Statuses, NEW runs, RunsTyped(runs)
  PROVE  RunsTyped(Activated(st, runs))
<1>1. \A n \in Nodes : latest[n] \in Nat
  BY ExecutionAssumption DEF TypeOK, Attempts, ExecutionAssumption
<1>2. ASSUME NEW id \in NodeRunIds PROVE Activated(st, runs)[id] \in RunRecord
  <2>1. [runs[id] EXCEPT !.status = "ready"] \in RunRecord
    BY DEF RunsTyped, RunRecord, RunStatus, NodeStatus
  <2> QED BY <2>1 DEF Activated, RunsTyped
<1>3. ASSUME NEW id \in NodeRunIds
      PROVE  Activated(st, runs)[id].status = "none" <=> id[2] > latest[id[1]]
  <2>1. CASE id[1] \in Admitted(st) /\ id = Latest(id[1])
    <3>1. Activated(st, runs)[id].status = "ready"
      BY <2>1 DEF Activated, RunsTyped, RunRecord
    <3>2. ~(id[2] > latest[id[1]])
      BY <2>1, <1>1 DEF Latest, NodeRunIds
    <3> QED BY <3>1, <3>2
  <2>2. CASE ~(id[1] \in Admitted(st) /\ id = Latest(id[1]))
    BY <2>2 DEF Activated, RunsTyped
  <2> QED BY <2>1, <2>2
<1>4. Activated(st, runs) \in [NodeRunIds -> RunRecord]
  BY <1>2 DEF Activated
<1> QED BY <1>3, <1>4 DEF RunsTyped

LEMMA LatestRun ==
  ASSUME TypeOK, NEW n \in Nodes
  PROVE  Latest(n) \in NodeRunIds /\ Status(Latest(n)) # "none"
<1>1. Latest(n) \in NodeRunIds /\ latest[n] \in Nat
  BY ExecutionAssumption DEF TypeOK, Latest, NodeRunIds, Attempts, ExecutionAssumption
<1> QED BY <1>1 DEF TypeOK, Latest

LEMMA TransitionType ==
  ASSUME TypeOK, NEW id \in NodeRunIds, NEW from, "none" \notin from,
         NEW to \in NodeStatus, NEW r \in AiRuns \cup {NoRun},
         Transition(id, from, to, r)
  PROVE  /\ node' \in Statuses
         /\ exec' \in ExecutionStatus
         /\ current' \in Nodes \cup {NoNode}
         /\ RunsTyped(run')
<1>1. [node EXCEPT ![id[1]] = to] \in Statuses
  BY DEF TypeOK, Statuses
<1>2. Status(id) # "none"
  BY DEF Transition, CanTransition
<1> QED BY <1>1, <1>2, WriteRun, FocusType, ProjectionCompleted DEF Transition, Commit

LEMMA DispatchesType ==
  ASSUME TypeOK, NEW st
  PROVE  Dispatched(st) \subseteq NodeRunIds /\ StillCurrent \subseteq NodeRunIds
BY LatestRun DEF TypeOK, Dispatched, StillCurrent, Admitted

\* A transaction that keeps the attempts keeps the types of the rest.
LEMMA TypeFrom ==
  ASSUME TypeOK, node' \in Statuses, limit' \in 1..MaxLimit,
         exec' \in ExecutionStatus, current' \in Nodes \cup {NoNode},
         req' \in {"pending", "active", "completed"},
         RunsTyped(run'), latest' = latest,
         asked' \subseteq NodeRunIds, auto' \subseteq NodeRunIds,
         recov' \subseteq NodeRunIds
  PROVE  TypeOK'
BY DEF TypeOK, Statuses, RunsTyped, Status

LEMMA TypeInit ==
  ASSUME Init
  PROVE  TypeOK
<1>1. [n \in Nodes |-> "pending"] \in Statuses
  BY DEF Statuses, NodeStatus
<1>2. InstantiatedStatus \in Statuses
  BY <1>1, AdmitShape DEF InstantiatedStatus
<1>3. 1 \in Attempts /\ 1 \in 1..MaxLimit /\ \A k \in Attempts : k # 1 <=> k > 1
  BY ExecutionAssumption DEF ExecutionAssumption, Attempts
<1>4. \A n \in Nodes : InstantiatedStatus[n] # "none"
  BY <1>2 DEF Statuses, NodeStatus
<1>5. run \in [NodeRunIds -> RunRecord]
  BY <1>2 DEF Init, RunRecord, RunStatus, Statuses, NodeRunIds
<1>6. \A id \in NodeRunIds : Status(id) = "none" <=> id[2] > latest[id[1]]
  BY <1>3, <1>4 DEF Init, Status, NodeRunIds
<1>7. Focus(InstantiatedStatus) \in Nodes \cup {NoNode}
  BY <1>2, FocusType
<1> QED
  BY <1>2, <1>3, <1>5, <1>6, <1>7 DEF Init, TypeOK, Statuses, ExecutionStatus

LEMMA TypeStep ==
  ASSUME TypeOK, [Next]_vars
  PROVE  TypeOK'
<1> USE DEF TypeOK
<1>1. ASSUME NEW id \in NodeRunIds, ReserveNode(id) PROVE TypeOK'
  <2>1. "none" \notin {"ready", "waiting_user", "interrupted", "failed", "cancelled"}
    OBVIOUS
  <2> QED
    BY <1>1, <2>1, TransitionType, TypeFrom, DispatchesType
    DEF ReserveNode, Transition, NodeStatus
<1>2. ASSUME NEW id \in NodeRunIds, NEW r \in AiRuns, BindAiRun(id, r) PROVE TypeOK'
  <2>1. Status(id) # "none" /\ RunsTyped([run EXCEPT ![id].ai = r])
    BY <1>2, WriteRun DEF BindAiRun, NodeStatus
  <2> QED BY <1>2, <2>1, TypeFrom, DispatchesType DEF BindAiRun, Statuses
<1>3. ASSUME NEW id \in NodeRunIds,
             WaitForUser(id) \/ FailRecovery(id) \/ InterruptNode(id)
      PROVE  TypeOK'
  <2>1. run[id].ai \in AiRuns \cup {NoRun} /\ "none" \notin {"running"}
    BY DEF RunRecord
  <2> QED
    BY <1>3, <2>1, TransitionType, TypeFrom, DispatchesType
    DEF WaitForUser, FailRecovery, InterruptNode, Transition, NodeStatus
<1>4. ASSUME NEW id \in NodeRunIds, NEW s \in {"failed", "cancelled"}, FinishNode(id, s)
      PROVE  TypeOK'
  <2>1. id[1] \in Nodes /\ s \in NodeStatus /\ Status(id) # "none"
    BY <1>4 DEF NodeRunIds, NodeStatus, FinishNode, CanFinish
  <2>2. Finished(id[1], s) \in Statuses
    BY <2>1, FinishedType
  <2>3. RunsTyped([run EXCEPT ![id].status = s])
    BY <2>1, WriteRun
  <2>4. RunsTyped(run')
    BY <1>4, <2>2, <2>3, ActivatedType DEF FinishNode
  <2> QED
    BY <1>4, <2>2, <2>4, FocusType, ProjectionCompleted, TypeFrom, DispatchesType
    DEF FinishNode, Commit
<1>5. ASSUME NEW n \in Nodes, PauseNode(n) \/ ResumeNode(n) PROVE TypeOK'
  <2>1. Latest(n) \in NodeRunIds /\ run[Latest(n)].ai \in AiRuns \cup {NoRun}
    BY LatestRun DEF RunRecord
  <2>2. "none" \notin {"running", "ready"} /\ "none" \notin {"paused"}
    OBVIOUS
  <2> QED
    BY <1>5, <2>1, <2>2, TransitionType, TypeFrom, DispatchesType
    DEF PauseNode, ResumeNode, Transition, NodeStatus
<1>6. ASSUME NEW n \in Nodes, CancelNode(n) PROVE TypeOK'
  <2>1. Latest(n) \in NodeRunIds /\ Status(Latest(n)) # "none" /\ "cancelled" \in NodeStatus
    BY LatestRun DEF NodeStatus
  <2>2. Finished(n, "cancelled") \in Statuses
    BY <2>1, FinishedType
  <2>3. RunsTyped(run')
    BY <1>6, <2>1, WriteRun DEF CancelNode
  <2> QED
    BY <1>6, <2>2, <2>3, FocusType, ProjectionCompleted, TypeFrom, DispatchesType
    DEF CancelNode, Commit
<1>7. ASSUME NEW id \in NodeRunIds, CompleteNode(id) PROVE TypeOK'
  <2>1. id[1] \in Nodes /\ "completed" \in NodeStatus /\ Status(id) # "none"
    BY <1>7 DEF NodeRunIds, NodeStatus, CompleteNode
  <2>2. Finished(id[1], "completed") \in Statuses
    BY <2>1, FinishedType
  <2>3. RunsTyped([run EXCEPT ![id].status = "completed"])
    BY <2>1, WriteRun
  <2>4. RunsTyped(run')
    BY <1>7, <2>2, <2>3, ActivatedType DEF CompleteNode
  <2> QED
    BY <1>7, <2>2, <2>4, FocusType, ProjectionCompleted, TypeFrom, DispatchesType
    DEF CompleteNode, Commit, RequirementAfter
<1>8. ASSUME NEW n \in Nodes, SkipNode(n) PROVE TypeOK'
  <2>1. Latest(n) \in NodeRunIds /\ Status(Latest(n)) # "none" /\ "skipped" \in NodeStatus
    BY LatestRun DEF NodeStatus
  <2>2. Finished(n, "skipped") \in Statuses
    BY <2>1, FinishedType
  <2>3. RunsTyped([run EXCEPT ![Latest(n)].status = "skipped"])
    BY <2>1, WriteRun
  <2>4. RunsTyped(run')
    BY <1>8, <2>2, <2>3, ActivatedType DEF SkipNode
  <2> QED
    BY <1>8, <2>2, <2>4, FocusType, ProjectionCompleted, TypeFrom, DispatchesType
    DEF SkipNode, RequirementAfter
<1>9. ASSUME NEW n \in Nodes, PrepareRetry(n) PROVE TypeOK'
  <2>1. latest[n] \in Nat /\ latest[n] + 1 \in Attempts /\ \A m \in Nodes : latest[m] \in Nat
    BY <1>9, ExecutionAssumption DEF PrepareRetry, Attempts, ExecutionAssumption
  <2>2. latest' \in [Nodes -> Attempts]
    BY <1>9, <2>1 DEF PrepareRetry
  <2>3. run' \in [NodeRunIds -> RunRecord]
    BY <1>9 DEF PrepareRetry, RunRecord, RunStatus, NodeStatus
  <2>4. ASSUME NEW id \in NodeRunIds
        PROVE  run'[id].status = "none" <=> id[2] > latest'[id[1]]
    <3>1. id[1] \in Nodes /\ id[2] \in Nat /\ id = <<id[1], id[2]>>
      BY DEF NodeRunIds, Attempts
    <3>2. CASE id = <<n, latest[n] + 1>>
      BY <1>9, <2>1, <3>2 DEF PrepareRetry
    <3>3. CASE id # <<n, latest[n] + 1>>
      <4>1. run'[id] = run[id]
        BY <1>9, <3>3 DEF PrepareRetry
      <4>2. run[id].status = "none" <=> id[2] > latest[id[1]]
        BY DEF Status
      <4>3. CASE id[1] = n
        <5>1. id[2] # latest[n] + 1
          BY <3>1, <3>3, <4>3
        <5>2. latest'[id[1]] = latest[n] + 1
          BY <1>9, <4>3 DEF PrepareRetry
        <5> QED BY <2>1, <3>1, <4>1, <4>2, <4>3, <5>1, <5>2
      <4>4. CASE id[1] # n
        BY <1>9, <4>1, <4>2, <4>4, <3>1 DEF PrepareRetry
      <4> QED BY <4>3, <4>4
    <3> QED BY <3>2, <3>3
  <2> QED BY <1>9, <2>2, <2>3, <2>4 DEF PrepareRetry, Status
<1>10. ASSUME NEW k \in 1..MaxLimit, SetParallelism(k) PROVE TypeOK'
  <2>1. node \in Statuses /\ k \in Int
    BY DEF Statuses
  <2>2. Admit(node, k) \in Statuses
    BY <2>1, AdmitShape
  <2>3. RunsTyped(run) /\ RunsTyped(run')
    BY <1>10, <2>2, ActivatedType DEF SetParallelism, RunsTyped, Status
  <2> QED
    BY <1>10, <2>2, <2>3, FocusType, ProjectionCompleted, TypeFrom, DispatchesType
    DEF SetParallelism
<1>11. ASSUME NEW id \in NodeRunIds, OpenQuestion(id) PROVE TypeOK'
  <2>1. RunsTyped(run)
    BY DEF RunsTyped, Status
  <2>2. CASE UNCHANGED <<node, run, exec, recov>>
    BY <1>11, <2>1, <2>2, TypeFrom DEF OpenQuestion, Statuses
  <2>3. CASE ~UNCHANGED <<node, run, exec, recov>>
    <3>1. /\ Status(id) = "running"
          /\ node' = [node EXCEPT ![id[1]] = "waiting_user"]
          /\ run' = [run EXCEPT ![id].status = "waiting_user"]
          /\ exec' = "waiting_user"
          /\ recov' = StillCurrent
      BY <1>11, <2>3 DEF OpenQuestion
    <3>2. node' \in Statuses /\ "waiting_user" \in NodeStatus /\ exec' \in ExecutionStatus
      BY <3>1 DEF Statuses, NodeStatus, ExecutionStatus
    <3>3. RunsTyped([run EXCEPT ![id] = [status |-> "waiting_user", ai |-> NoRun]])
          /\ RunsTyped(run')
      BY <3>1, <3>2, WriteRun
    <3> QED BY <1>11, <3>1, <3>2, <3>3, TypeFrom, DispatchesType DEF OpenQuestion
  <2> QED BY <2>2, <2>3
<1>12. ASSUME NEW id \in NodeRunIds, ResolveQuestion(id) PROVE TypeOK'
  BY <1>12 DEF ResolveQuestion, Status
<1>13. CASE ReconcileDispatches
  <2>1. auto' \subseteq NodeRunIds
    BY <1>13, LatestRun, GraphAssumption DEF ReconcileDispatches, GraphAssumption
  <2> QED BY <1>13, <2>1 DEF ReconcileDispatches, Status
<1>14. ASSUME NEW n \in Nodes, RequeueInterrupted(n) PROVE TypeOK'
  BY <1>14, LatestRun DEF RequeueInterrupted, Status
<1>15. CASE UNCHANGED vars
  BY <1>15 DEF vars, Status
<1> QED
  BY <1>1, <1>2, <1>3, <1>4, <1>5, <1>6, <1>7, <1>8, <1>9, <1>10, <1>11, <1>12,
     <1>13, <1>14, <1>15
  DEF Next

(* Every reachable state of the aggregate is well typed, and the attempts  *)
(* of a node are numbered without gaps (TypeOK).                           *)
THEOREM TypeCorrect == Spec => []TypeOK
<1>1. Init => TypeOK
  BY TypeInit
<1>2. TypeOK /\ [Next]_vars => TypeOK'
  BY TypeStep
<1> QED BY <1>1, <1>2, PTL DEF Spec

-----------------------------------------------------------------------------
(* The five ways in which a step changes the workflow.                     *)

\* Nothing but NodeRuns, questions and dispatches is written.
Quiet == node' = node /\ limit' = limit /\ exec' = exec /\ req' = req

\* A node that has been admitted changes its status and keeps its slot.
Moves(k, s) ==
  /\ node[k] # "pending" /\ CanMove(node[k], s)
  /\ node' = [node EXCEPT ![k] = s]
  /\ limit' = limit
  /\ exec' = Projection(node') \/ (s = "waiting_user" /\ exec' = s)
  /\ req' = req \/ (req = "pending" /\ req' = "active")

\* A node fails or is cancelled, and its slot is given to others.
Leaves(k, s) ==
  /\ node[k] # "pending" /\ CanMove(node[k], s)
  /\ node' = Finished(k, s)
  /\ limit' = limit
  /\ exec' = Projection(node')
  /\ req' = req

\* A node is completed or skipped, and its slot is given to others.
Closes(k, s) ==
  /\ CanMove(node[k], s)
  /\ node[k] = "pending" => s = "skipped"
  /\ node' = Finished(k, s)
  /\ limit' = limit
  /\ exec' = Projection(node')
  /\ req' = RequirementAfter(node')

\* The limit changes.
Resizes ==
  /\ limit' \in Nat
  /\ node' = Admit(node, limit')
  /\ exec' = Projection(node')
  /\ req' = req

StepKind ==
  \/ Quiet
  \/ \E k \in Nodes, s \in ActiveStatus : Moves(k, s)
  \/ \E k \in Nodes, s \in {"failed", "cancelled"} : Leaves(k, s)
  \/ \E k \in Nodes, s \in DoneStatus : Closes(k, s)
  \/ Resizes

\* The statuses that finishNode and completeNode accept.
AtWork == {"ready", "running", "waiting_user", "interrupted"}

\* No attempt of a pending node is at work, and the latest one has not moved: what
\* is left of PendingIsUntouched when rollbacks make nodes pending again.
Undisturbed ==
  \A id \in NodeRunIds :
    node[id[1]] = "pending" =>
      /\ Status(id) \notin AtWork
      /\ id = Latest(id[1]) => Status(id) = "pending"

LEMMA UntouchedIsUndisturbed ==
  ASSUME TypeOK, PendingIsUntouched
  PROVE  Undisturbed
<1>1. ASSUME NEW id \in NodeRunIds, node[id[1]] = "pending"
      PROVE  Status(id) \in {"pending", "none"} /\ id[1] \in Nodes
  BY <1>1 DEF PendingIsUntouched, NodeRunIds
<1>2. \A id \in NodeRunIds : id[1] \in Nodes /\ id = Latest(id[1]) => Status(id) # "none"
  BY LatestRun
<1> QED BY <1>1, <1>2 DEF Undisturbed, AtWork

LEMMA NotPending ==
  ASSUME Undisturbed, NEW id \in NodeRunIds,
         \/ Status(id) \in AtWork
         \/ id = Latest(id[1]) /\ Status(id) # "pending"
  PROVE  id[1] \in Nodes /\ node[id[1]] # "pending"
BY DEF Undisturbed, NodeRunIds

\* Only a user's command on the latest attempt takes a node to ready.
LEMMA TransitionFrom ==
  ASSUME Undisturbed, NEW id \in NodeRunIds,
         NEW from, "pending" \notin from,
         NEW to \in ActiveStatus, to = "ready" => id = Latest(id[1]),
         NEW r, Transition(id, from, to, r)
  PROVE  id[1] \in Nodes /\ node[id[1]] # "pending"
<1>1. id[1] \in Nodes /\ Status(id) # "pending" /\ CanMove(node[id[1]], to)
  BY DEF NodeRunIds, Transition, CanTransition
<1>2. CASE to = "ready"
  BY <1>1, <1>2, NotPending
<1>3. CASE to # "ready"
  BY <1>1, <1>3 DEF CanMove, NodeTransitions, ActiveStatus
<1> QED BY <1>2, <1>3

LEMMA TransitionKind ==
  ASSUME Undisturbed, NEW id \in NodeRunIds,
         NEW from, "pending" \notin from,
         NEW to \in ActiveStatus, to = "ready" => id = Latest(id[1]),
         NEW r, Transition(id, from, to, r),
         req' = req \/ (req = "pending" /\ req' = "active")
  PROVE  StepKind
<1>1. id[1] \in Nodes /\ node[id[1]] # "pending"
  BY TransitionFrom
<1>2. Moves(id[1], to)
  BY <1>1 DEF Transition, CanTransition, Commit, Moves
<1> QED BY <1>1, <1>2 DEF StepKind

LEMMA KindOfStep ==
  ASSUME TypeOK, Undisturbed, [Next]_vars
  PROVE  StepKind
<1>1. ASSUME NEW id \in NodeRunIds, ReserveNode(id) PROVE StepKind
  BY <1>1, TransitionKind DEF ReserveNode, ActiveStatus
<1>2. ASSUME NEW id \in NodeRunIds, NEW r \in AiRuns, BindAiRun(id, r) PROVE StepKind
  BY <1>2 DEF BindAiRun, StepKind, Quiet
<1>3. ASSUME NEW id \in NodeRunIds,
             WaitForUser(id) \/ FailRecovery(id) \/ InterruptNode(id)
      PROVE  StepKind
  BY <1>3, TransitionKind DEF WaitForUser, FailRecovery, InterruptNode, ActiveStatus
<1>4. ASSUME NEW id \in NodeRunIds, NEW s \in {"failed", "cancelled"}, FinishNode(id, s)
      PROVE  StepKind
  <2>1. id[1] \in Nodes /\ node[id[1]] # "pending"
    BY <1>4, NotPending DEF FinishNode, CanFinish, AtWork
  <2>2. Leaves(id[1], s)
    BY <1>4, <2>1 DEF FinishNode, CanFinish, Commit, Leaves
  <2> QED BY <2>1, <2>2 DEF StepKind
<1>5. ASSUME NEW n \in Nodes, PauseNode(n) \/ ResumeNode(n) PROVE StepKind
  BY <1>5, LatestRun, TransitionKind DEF PauseNode, ResumeNode, ActiveStatus, Latest
<1>6. ASSUME NEW n \in Nodes, CancelNode(n) PROVE StepKind
  <2>1. node[n] # "pending"
    BY <1>6, LatestRun, NotPending DEF CancelNode, Latest
  <2>2. Leaves(n, "cancelled")
    BY <1>6, <2>1 DEF CancelNode, Commit, Leaves
  <2> QED BY <2>2 DEF StepKind
<1>7. ASSUME NEW id \in NodeRunIds, CompleteNode(id) PROVE StepKind
  <2>1. id[1] \in Nodes /\ node[id[1]] # "pending"
    BY <1>7, NotPending DEF CompleteNode, AtWork
  <2>2. Closes(id[1], "completed")
    BY <1>7, <2>1 DEF CompleteNode, Commit, Closes
  <2> QED BY <2>1, <2>2 DEF StepKind, DoneStatus
<1>8. ASSUME NEW n \in Nodes, SkipNode(n) PROVE StepKind
  <2>1. Closes(n, "skipped")
    BY <1>8 DEF SkipNode, Closes
  <2> QED BY <2>1 DEF StepKind, DoneStatus
<1>9. ASSUME NEW n \in Nodes, PrepareRetry(n) PROVE StepKind
  BY <1>9 DEF PrepareRetry, StepKind, Quiet
<1>10. ASSUME NEW k \in 1..MaxLimit, SetParallelism(k) PROVE StepKind
  BY <1>10 DEF SetParallelism, StepKind, Resizes
<1>11. ASSUME NEW id \in NodeRunIds, OpenQuestion(id) PROVE StepKind
  <2>1. CASE UNCHANGED <<node, run, exec, recov>>
    BY <1>11, <2>1 DEF OpenQuestion, StepKind, Quiet
  <2>2. CASE ~UNCHANGED <<node, run, exec, recov>>
    <3>1. /\ node[id[1]] = "running" /\ exec' = "waiting_user"
          /\ node' = [node EXCEPT ![id[1]] = "waiting_user"]
          /\ limit' = limit /\ req' = req
      BY <1>11, <2>2 DEF OpenQuestion
    <3>2. CanMove("running", "waiting_user") /\ id[1] \in Nodes
      BY DEF CanMove, NodeTransitions, NodeStatus, NodeRunIds
    <3>3. Moves(id[1], "waiting_user")
      BY <3>1, <3>2 DEF Moves
    <3> QED BY <3>2, <3>3 DEF StepKind, ActiveStatus
  <2> QED BY <2>1, <2>2
<1>12. ASSUME NEW id \in NodeRunIds, ResolveQuestion(id) PROVE StepKind
  BY <1>12 DEF ResolveQuestion, StepKind, Quiet
<1>13. CASE ReconcileDispatches
  BY <1>13 DEF ReconcileDispatches, StepKind, Quiet
<1>14. ASSUME NEW n \in Nodes, RequeueInterrupted(n) PROVE StepKind
  BY <1>14 DEF RequeueInterrupted, StepKind, Quiet
<1>15. CASE UNCHANGED vars
  BY <1>15 DEF vars, StepKind, Quiet
<1> QED
  BY <1>1, <1>2, <1>3, <1>4, <1>5, <1>6, <1>7, <1>8, <1>9, <1>10, <1>11, <1>12,
     <1>13, <1>14, <1>15
  DEF Next

-----------------------------------------------------------------------------
(* A pending node's NodeRun has not been touched.                          *)

\* What a node's end does to a node that is pending afterwards: nothing.
LEMMA StaysPending ==
  ASSUME TypeOK, NEW k \in Nodes, NEW s \in NodeStatus \ {"pending"}, NEW n \in Nodes,
         Finished(k, s)[n] = "pending"
  PROVE  n # k /\ node[n] = "pending" /\ n \notin Admitted(Finished(k, s))
<1>1. [node EXCEPT ![k] = s] \in Statuses /\ limit \in Int
  BY ExecutionAssumption DEF TypeOK, Statuses, ExecutionAssumption
<1>2. [node EXCEPT ![k] = s][n] = "pending"
  BY <1>1, AdmitShape DEF Finished
<1> QED BY <1>2 DEF TypeOK, Admitted

LEMMA PendingInit ==
  ASSUME Init
  PROVE  PendingIsUntouched
BY DEF Init, PendingIsUntouched, NodeRunIds, Status

\* A node that is pending was pending, and nothing has happened to its NodeRuns.
LEMMA PendingKeeps ==
  ASSUME TypeOK, Undisturbed, [Next]_vars,
         NEW i \in NodeRunIds, node'[i[1]] = "pending"
  PROVE  /\ node[i[1]] = "pending"
         /\ run'[i].status = run[i].status
         /\ latest'[i[1]] = latest[i[1]]
<1> DEFINE Kept == /\ node[i[1]] = "pending"
                   /\ run'[i].status = run[i].status
                   /\ latest'[i[1]] = latest[i[1]]
<1> SUFFICES Kept
  OBVIOUS
<1>i. i[1] \in Nodes
  BY DEF NodeRunIds
<1>r. run \in [NodeRunIds -> RunRecord] /\ node \in Statuses /\ latest \in [Nodes -> Attempts]
  BY DEF TypeOK, Statuses
<1>k. ASSUME node[i[1]] = "pending", run'[i].status = run[i].status, latest' = latest
      PROVE  Kept
  BY <1>k
<1>t. ASSUME NEW id \in NodeRunIds, NEW from, "pending" \notin from,
             NEW to \in ActiveStatus, to = "ready" => id = Latest(id[1]),
             NEW r, Transition(id, from, to, r)
      PROVE  Kept
  <2>1. id[1] \in Nodes /\ node[id[1]] # "pending"
    BY <1>t, TransitionFrom
  <2>2. node' = [node EXCEPT ![id[1]] = to] /\ to # "pending"
    BY <1>t DEF Transition, Commit, ActiveStatus
  <2>3. i # id /\ node[i[1]] = "pending"
    BY <1>i, <1>r, <2>1, <2>2 DEF Statuses
  <2> QED BY <1>t, <1>r, <1>k, <2>3 DEF Transition
<1>1. ASSUME NEW id \in NodeRunIds, ReserveNode(id)
      PROVE  Kept
  BY <1>1, <1>t DEF ReserveNode, ActiveStatus
<1>2. ASSUME NEW id \in NodeRunIds, NEW r \in AiRuns, BindAiRun(id, r)
      PROVE  Kept
  BY <1>2, <1>r, <1>k DEF BindAiRun, RunRecord
<1>3. ASSUME NEW id \in NodeRunIds,
             WaitForUser(id) \/ FailRecovery(id) \/ InterruptNode(id)
      PROVE  Kept
  BY <1>3, <1>t DEF WaitForUser, FailRecovery, InterruptNode, ActiveStatus
<1>4. ASSUME NEW id \in NodeRunIds, NEW s \in {"failed", "cancelled"}, FinishNode(id, s)
      PROVE  Kept
  <2>1. id[1] \in Nodes /\ s \in NodeStatus \ {"pending"}
    BY DEF NodeRunIds, NodeStatus
  <2>2. node' = Finished(id[1], s)
    BY <1>4 DEF FinishNode, Commit
  <2>3. /\ i[1] # id[1] /\ node[i[1]] = "pending"
        /\ i[1] \notin Admitted(Finished(id[1], s))
    BY <1>i, <2>1, <2>2, StaysPending
  <2>4. run'[i] = run[i] /\ latest' = latest
    BY <1>4, <1>r, <2>3 DEF FinishNode, Activated
  <2> QED BY <1>k, <2>3, <2>4
<1>5. ASSUME NEW n \in Nodes, PauseNode(n) \/ ResumeNode(n)
      PROVE  Kept
  BY <1>5, <1>t, LatestRun DEF PauseNode, ResumeNode, ActiveStatus, Latest
<1>6. ASSUME NEW n \in Nodes, CancelNode(n)
      PROVE  Kept
  <2>1. node' = Finished(n, "cancelled") /\ "cancelled" \in NodeStatus \ {"pending"}
    BY <1>6 DEF CancelNode, Commit, NodeStatus
  <2>2. i[1] # n /\ node[i[1]] = "pending"
    BY <1>i, <2>1, StaysPending
  <2>3. run'[i] = run[i] /\ latest' = latest
    BY <1>6, <1>r, <2>2 DEF CancelNode, Latest
  <2> QED BY <1>k, <2>2, <2>3
<1>7. ASSUME NEW id \in NodeRunIds, CompleteNode(id)
      PROVE  Kept
  <2>1. id[1] \in Nodes /\ "completed" \in NodeStatus \ {"pending"}
    BY DEF NodeRunIds, NodeStatus
  <2>2. node' = Finished(id[1], "completed")
    BY <1>7 DEF CompleteNode, Commit
  <2>3. /\ i[1] # id[1] /\ node[i[1]] = "pending"
        /\ i[1] \notin Admitted(Finished(id[1], "completed"))
    BY <1>i, <2>1, <2>2, StaysPending
  <2>4. run'[i] = run[i] /\ latest' = latest
    BY <1>7, <1>r, <2>3 DEF CompleteNode, Activated
  <2> QED BY <1>k, <2>3, <2>4
<1>8. ASSUME NEW n \in Nodes, SkipNode(n)
      PROVE  Kept
  <2>1. node' = Finished(n, "skipped") /\ "skipped" \in NodeStatus \ {"pending"}
    BY <1>8 DEF SkipNode, NodeStatus
  <2>2. /\ i[1] # n /\ node[i[1]] = "pending"
        /\ i[1] \notin Admitted(Finished(n, "skipped"))
    BY <1>i, <2>1, StaysPending
  <2>3. run'[i] = run[i] /\ latest' = latest
    BY <1>8, <1>r, <2>2 DEF SkipNode, Activated, Latest
  <2> QED BY <1>k, <2>2, <2>3
<1>9. ASSUME NEW n \in Nodes, PrepareRetry(n)
      PROVE  Kept
  <2>1. node[n] # "pending"
    BY <1>9, LatestRun, NotPending DEF PrepareRetry, Latest
  <2>2. node[i[1]] = "pending" /\ i[1] # n /\ i # <<n, latest[n] + 1>>
    BY <1>9, <2>1 DEF PrepareRetry
  <2>3. run'[i] = run[i] /\ latest'[i[1]] = latest[i[1]]
    BY <1>9, <1>i, <1>r, <2>2 DEF PrepareRetry
  <2> QED BY <2>2, <2>3
<1>10. ASSUME NEW k \in 1..MaxLimit, SetParallelism(k)
       PROVE  Kept
  <2>1. node' = Admit(node, k) /\ k \in Int
    BY <1>10, ExecutionAssumption DEF SetParallelism, ExecutionAssumption
  <2>2. node[i[1]] = "pending" /\ i[1] \notin Admitted(Admit(node, k))
    BY <1>i, <1>r, <2>1, AdmitShape DEF Admitted
  <2>3. run'[i] = run[i] /\ latest' = latest
    BY <1>10, <1>r, <2>2 DEF SetParallelism, Activated
  <2> QED BY <1>k, <2>2, <2>3
<1>11. ASSUME NEW id \in NodeRunIds, OpenQuestion(id)
       PROVE  Kept
  <2>1. CASE UNCHANGED <<node, run, exec, recov>>
    BY <1>11, <1>k, <2>1 DEF OpenQuestion
  <2>2. CASE ~UNCHANGED <<node, run, exec, recov>>
    <3>1. /\ node[id[1]] = "running"
          /\ node' = [node EXCEPT ![id[1]] = "waiting_user"]
          /\ run' = [run EXCEPT ![id].status = "waiting_user"]
      BY <1>11, <2>2 DEF OpenQuestion
    <3>2. i # id /\ node[i[1]] = "pending"
      BY <1>i, <1>r, <3>1 DEF Statuses
    <3> QED BY <1>11, <1>r, <1>k, <3>1, <3>2 DEF OpenQuestion
  <2> QED BY <2>1, <2>2
<1>12. ASSUME NEW id \in NodeRunIds, ResolveQuestion(id)
       PROVE  Kept
  BY <1>12, <1>k DEF ResolveQuestion
<1>13. CASE ReconcileDispatches
  BY <1>13, <1>k DEF ReconcileDispatches
<1>14. ASSUME NEW n \in Nodes, RequeueInterrupted(n)
       PROVE  Kept
  BY <1>14, <1>k DEF RequeueInterrupted
<1>15. CASE UNCHANGED vars
  BY <1>15, <1>k DEF vars
<1> QED
  BY <1>1, <1>2, <1>3, <1>4, <1>5, <1>6, <1>7, <1>8, <1>9, <1>10, <1>11, <1>12,
     <1>13, <1>14, <1>15
  DEF Next

LEMMA PendingStep ==
  ASSUME TypeOK, PendingIsUntouched, [Next]_vars
  PROVE  PendingIsUntouched'
<1> SUFFICES ASSUME NEW i \in NodeRunIds, node'[i[1]] = "pending"
             PROVE  run'[i].status \in {"pending", "none"}
  BY DEF PendingIsUntouched, Status
<1> QED BY UntouchedIsUndisturbed, PendingKeeps DEF PendingIsUntouched, Status

LEMMA UndisturbedStep ==
  ASSUME TypeOK, Undisturbed, [Next]_vars
  PROVE  Undisturbed'
<1> SUFFICES ASSUME NEW i \in NodeRunIds, node'[i[1]] = "pending"
             PROVE  /\ run'[i].status \notin AtWork
                    /\ i = Latest(i[1])' => run'[i].status = "pending"
  BY DEF Undisturbed, Status
<1> QED BY PendingKeeps DEF Undisturbed, Status, Latest

-----------------------------------------------------------------------------
(* What a kind of step preserves.                                          *)

\* A node that is done never moves, and a pending one is only admitted or
\* skipped (or cancelled).
LEMMA MoveFacts ==
  ASSUME NEW from \in NodeStatus, NEW to \in NodeStatus, CanMove(from, to)
  PROVE  from \notin DoneStatus /\ to # "pending"
BY DEF CanMove, NodeTransitions, NodeStatus, DoneStatus

\* Leaves, Closes and Resizes admit from a workflow that a node's end changed.
LEMMA EndFacts ==
  ASSUME TypeOK, NEW k \in Nodes, NEW s \in NodeStatus \ ActiveStatus, s # "pending"
  PROVE  /\ Finished(k, s)[k] = s
         /\ \A n \in Nodes \ {k} :
              \/ Finished(k, s)[n] = node[n]
              \/ /\ node[n] = "pending" /\ Finished(k, s)[n] = "ready"
                 /\ \A m \in Preds(n) : Finished(k, s)[m] \in DoneStatus
<1> DEFINE base == [node EXCEPT ![k] = s]
<1>1. base \in Statuses /\ limit \in Int /\ Finished(k, s) = Admit(base, limit)
  BY ExecutionAssumption DEF TypeOK, Statuses, Finished, ExecutionAssumption
<1>2. base[k] = s /\ \A n \in Nodes \ {k} : base[n] = node[n]
  BY DEF TypeOK
<1> HIDE DEF base
<1>3. Finished(k, s)[k] = s
  BY <1>1, <1>2, AdmitShape
<1>4. ASSUME NEW n \in Nodes \ {k}, Finished(k, s)[n] # node[n]
      PROVE  /\ node[n] = "pending" /\ Finished(k, s)[n] = "ready"
             /\ \A m \in Preds(n) : Finished(k, s)[m] \in DoneStatus
  <2>1. node[n] = "pending" /\ Finished(k, s)[n] = "ready" /\ n \in ReadyNodes(base)
    BY <1>1, <1>2, <1>4, AdmitShape
  <2>2. \A m \in Preds(n) : m \in Nodes /\ base[m] \in DoneStatus
    BY <2>1 DEF ReadyNodes, Preds
  <2>3. \A m \in Preds(n) : Admit(base, limit)[m] \in DoneStatus
    BY <1>1, <2>2, AdmitShape
  <2> QED BY <1>1, <2>1, <2>3
<1> QED BY <1>1, <1>3, <1>4

\* The same of a change of the limit.
LEMMA ResizeFacts ==
  ASSUME TypeOK, Resizes
  PROVE  /\ node' \in Statuses
         /\ \A n \in Nodes :
              \/ node'[n] = node[n]
              \/ /\ node[n] = "pending" /\ node'[n] = "ready"
                 /\ \A m \in Preds(n) : node'[m] \in DoneStatus
<1>1. node \in Statuses /\ limit' \in Int /\ node' = Admit(node, limit')
  BY DEF Resizes, TypeOK, Statuses
<1>2. \A n \in ReadyNodes(node) : \A m \in Preds(n) : m \in Nodes /\ node[m] \in DoneStatus
  BY DEF ReadyNodes, Preds
<1>3. \A n \in ReadyNodes(node) : \A m \in Preds(n) : node'[m] \in DoneStatus
  BY <1>1, <1>2, AdmitShape
<1> QED BY <1>1, <1>3, AdmitShape

\* Every kind of step, seen from one node n: it stays as it is, or it is
\* admitted behind predecessors that are done, or it is the one node that the
\* step moves.
MovesTo(n, s) ==
  /\ CanMove(node[n], s) /\ node'[n] = s
  /\ s \notin DoneStatus => node[n] # "pending"
  /\ node[n] = "pending" => s = "skipped"

Admits(n) ==
  /\ node[n] = "pending" /\ node'[n] = "ready"
  /\ \A m \in Preds(n) : node'[m] \in DoneStatus

NodeStep ==
  /\ node' \in Statuses
  /\ \E k \in Nodes \cup {NoNode} :
       /\ k \in Nodes => \E s \in NodeStatus : MovesTo(k, s)
       /\ \A n \in Nodes \ {k} : node'[n] = node[n] \/ Admits(n)

LEMMA StepOfNodes ==
  ASSUME TypeOK, StepKind
  PROVE  NodeStep
<1>t. node \in Statuses /\ NoNode \notin Nodes
  BY ExecutionAssumption DEF TypeOK, Statuses, ExecutionAssumption
<1>1. CASE Quiet
  BY <1>t, <1>1 DEF Quiet, NodeStep
<1>2. ASSUME NEW k \in Nodes, NEW s \in ActiveStatus, Moves(k, s) PROVE NodeStep
  <2>1. s \in NodeStatus \ DoneStatus
    BY DEF ActiveStatus, NodeStatus, DoneStatus
  <2>2. node' \in Statuses /\ MovesTo(k, s) /\ \A n \in Nodes \ {k} : node'[n] = node[n]
    BY <1>2, <1>t, <2>1 DEF Moves, MovesTo, Statuses
  <2> QED BY <2>1, <2>2 DEF NodeStep
<1>3. ASSUME NEW k \in Nodes, NEW s \in {"failed", "cancelled"}, Leaves(k, s)
      PROVE  NodeStep
  <2>1. s \in NodeStatus \ ActiveStatus /\ s # "pending"
    BY DEF ActiveStatus, NodeStatus
  <2>2. node' \in Statuses
    BY <1>3, <2>1, FinishedType DEF Leaves
  <2>3. MovesTo(k, s) /\ \A n \in Nodes \ {k} : node'[n] = node[n] \/ Admits(n)
    BY <1>3, <2>1, EndFacts DEF Leaves, MovesTo, Admits
  <2> QED BY <2>1, <2>2, <2>3 DEF NodeStep
<1>4. ASSUME NEW k \in Nodes, NEW s \in DoneStatus, Closes(k, s) PROVE NodeStep
  <2>1. s \in NodeStatus \ ActiveStatus /\ s # "pending"
    BY DEF ActiveStatus, NodeStatus, DoneStatus
  <2>2. node' \in Statuses
    BY <1>4, <2>1, FinishedType DEF Closes
  <2>3. MovesTo(k, s) /\ \A n \in Nodes \ {k} : node'[n] = node[n] \/ Admits(n)
    BY <1>4, <2>1, EndFacts DEF Closes, MovesTo, Admits
  <2> QED BY <2>1, <2>2, <2>3 DEF NodeStep
<1>5. CASE Resizes
  BY <1>t, <1>5, ResizeFacts DEF NodeStep, Admits
<1> QED BY <1>1, <1>2, <1>3, <1>4, <1>5 DEF StepKind

LEMMA DoneStays ==
  ASSUME TypeOK, NodeStep, NEW n \in Nodes, node[n] \in DoneStatus
  PROVE  node'[n] = node[n]
<1>1. PICK k \in Nodes \cup {NoNode} :
        /\ k \in Nodes => \E s \in NodeStatus : MovesTo(k, s)
        /\ \A m \in Nodes \ {k} : node'[m] = node[m] \/ Admits(m)
  BY DEF NodeStep
<1>2. n # k
  BY <1>1, MoveFacts DEF MovesTo, TypeOK
<1> QED BY <1>1, <1>2 DEF Admits, DoneStatus

LEMMA OrderStep ==
  ASSUME TypeOK, DependencyOrder, NodeStep
  PROVE  DependencyOrder'
<1> SUFFICES ASSUME NEW n \in Nodes, node'[n] \notin {"pending", "skipped"}
             PROVE  \A m \in Preds(n) : node'[m] \in DoneStatus
  BY DEF DependencyOrder
<1>1. PICK k \in Nodes \cup {NoNode} :
        /\ k \in Nodes => \E s \in NodeStatus : MovesTo(k, s)
        /\ \A m \in Nodes \ {k} : node'[m] = node[m] \/ Admits(m)
  BY DEF NodeStep
<1>2. CASE Admits(n)
  BY <1>2 DEF Admits
<1>3. CASE ~Admits(n)
  <2>1. node[n] \notin {"pending", "skipped"}
    BY <1>1, <1>3, MoveFacts DEF MovesTo, TypeOK, DoneStatus
  <2>2. \A m \in Preds(n) : m \in Nodes /\ node[m] \in DoneStatus
    BY <2>1 DEF DependencyOrder, Preds
  <2> QED BY <2>2, DoneStays
<1> QED BY <1>2, <1>3

\* Leaves, Closes and Resizes are admissions from some workflow, and a node
\* that is pending afterwards was pending in it.
LEMMA StepAdmits ==
  ASSUME TypeOK, StepKind
  PROVE  \/ Quiet
         \/ \E k \in Nodes, s \in ActiveStatus : Moves(k, s)
         \/ /\ limit' \in Int
            /\ \E st \in Statuses :
                 /\ node' = Admit(st, limit')
                 /\ \A n \in Nodes : node[n] = "pending" /\ node'[n] = "ready"
                                       => st[n] = "pending"
<1>1. ASSUME NEW k \in Nodes, NEW s \in NodeStatus \ {"ready"},
             node' = Finished(k, s), limit' = limit
      PROVE  /\ limit' \in Int
             /\ \E st \in Statuses :
                  /\ node' = Admit(st, limit')
                  /\ \A n \in Nodes : node[n] = "pending" /\ node'[n] = "ready"
                                        => st[n] = "pending"
  <2> DEFINE base == [node EXCEPT ![k] = s]
  <2>1. base \in Statuses /\ limit \in Int /\ node' = Admit(base, limit)
    BY <1>1, ExecutionAssumption DEF TypeOK, Statuses, Finished, ExecutionAssumption
  <2>2. base[k] = s /\ \A n \in Nodes \ {k} : base[n] = node[n]
    BY DEF TypeOK
  <2> HIDE DEF base
  <2>3. ASSUME NEW n \in Nodes, node[n] = "pending", node'[n] = "ready"
        PROVE  base[n] = "pending"
    BY <2>1, <2>2, <2>3, AdmitShape
  <2> QED BY <1>1, <2>1, <2>3
<1>2. \A s \in {"failed", "cancelled"} \cup DoneStatus : s \in NodeStatus \ {"ready"}
  BY DEF NodeStatus, DoneStatus
<1>3. ASSUME Resizes
      PROVE  limit' \in Int /\ node \in Statuses /\ node' = Admit(node, limit')
  BY <1>3 DEF Resizes, TypeOK, Statuses
<1> QED BY <1>1, <1>2, <1>3 DEF StepKind, Leaves, Closes

LEMMA SlotInit ==
  ASSUME Init
  PROVE  NoIdleSlot
<1>1. [n \in Nodes |-> "pending"] \in Statuses
  BY DEF Statuses, NodeStatus
<1> QED BY <1>1, AdmitFills DEF Init, InstantiatedStatus, NoIdleSlot

LEMMA SlotStep ==
  ASSUME TypeOK, NoIdleSlot, StepKind
  PROVE  NoIdleSlot'
<1>1. CASE Quiet
  BY <1>1 DEF Quiet, NoIdleSlot, Active, ReadyNodes
<1>2. ASSUME NEW k \in Nodes, NEW s \in ActiveStatus, Moves(k, s) PROVE NoIdleSlot'
  <2>1. s \in NodeStatus \ DoneStatus /\ (s \in EditableStatus => s = "ready")
    BY DEF ActiveStatus, NodeStatus, DoneStatus, EditableStatus
  <2>2. node[k] \notin DoneStatus
    BY <1>2, <2>1, MoveFacts DEF Moves, TypeOK
  <2>3. node'[k] = s /\ \A n \in Nodes \ {k} : node'[n] = node[n]
    BY <1>2 DEF Moves, TypeOK
  <2>4. CASE Cardinality(Active(node)) >= limit
    <3>1. Active(node) \subseteq Active(node')
      BY <2>3 DEF Active
    <3>2. /\ IsFiniteSet(Active(node')) /\ IsFiniteSet(Active(node))
          /\ Cardinality(Active(node')) \in Nat /\ Cardinality(Active(node)) \in Nat
      BY GraphAssumption, FS_Subset, FS_CardinalityType DEF GraphAssumption, Active
    <3>3. Cardinality(Active(node)) <= Cardinality(Active(node'))
      BY <3>1, <3>2, FS_Subset
    <3>4. limit' = limit /\ limit \in Int
      BY <1>2, ExecutionAssumption DEF Moves, TypeOK, ExecutionAssumption
    <3> QED BY <2>4, <3>2, <3>3, <3>4 DEF NoIdleSlot
  <2>5. CASE \A n \in ReadyNodes(node) : node[n] = "ready"
    <3>1. ASSUME NEW n \in ReadyNodes(node') PROVE node'[n] = "ready"
      <4>1. \A m \in Nodes : node'[m] \in DoneStatus <=> node[m] \in DoneStatus
        BY <2>1, <2>2, <2>3
      <4>2. CASE n = k
        BY <2>1, <2>3, <4>2 DEF ReadyNodes
      <4>3. CASE n # k
        <5>1. n \in ReadyNodes(node)
          BY <2>3, <4>1, <4>3 DEF ReadyNodes, Preds
        <5> QED BY <2>3, <2>5, <4>3, <5>1 DEF ReadyNodes
      <4> QED BY <4>2, <4>3
    <3> QED BY <3>1 DEF NoIdleSlot
  <2> QED BY <2>4, <2>5 DEF NoIdleSlot
<1>3. ASSUME limit' \in Int, NEW st \in Statuses, node' = Admit(st, limit')
      PROVE  NoIdleSlot'
  BY <1>3, AdmitFills DEF NoIdleSlot
<1> QED BY <1>1, <1>2, <1>3, StepAdmits

LEMMA LimitStep ==
  ASSUME TypeOK, StepKind, NEW n \in Nodes, node[n] = "pending", node'[n] = "ready"
  PROVE  Cardinality(Active(node')) <= limit'
<1>1. ~Quiet
  BY DEF Quiet
<1>2. ASSUME NEW k \in Nodes, NEW s \in ActiveStatus PROVE ~Moves(k, s)
  BY DEF Moves, TypeOK
<1>3. ASSUME limit' \in Int, NEW st \in Statuses, node' = Admit(st, limit'),
             \A m \in Nodes : node[m] = "pending" /\ node'[m] = "ready"
                                => st[m] = "pending"
      PROVE  Cardinality(Active(node')) <= limit'
  BY <1>3, AdmitBounded
<1> QED BY <1>1, <1>2, <1>3, StepAdmits

\* An empty workflow would be completed before it starts; the code never
\* instantiates one, but validateWorkflow does not exclude it.
LEMMA CompletedInit ==
  ASSUME Nodes # {}, Init
  PROVE  CompletedTogether
<1>1. [n \in Nodes |-> "pending"] \in Statuses
  BY DEF Statuses, NodeStatus
<1>2. \A n \in Nodes : InstantiatedStatus[n] \notin DoneStatus
  BY <1>1, AdmitShape DEF InstantiatedStatus, DoneStatus
<1> QED BY <1>2 DEF Init, CompletedTogether, AllDone

LEMMA CompletedStep ==
  ASSUME TypeOK, CompletedTogether, StepKind
  PROVE  CompletedTogether'
<1>1. CASE Quiet
  BY <1>1 DEF Quiet, CompletedTogether, AllDone
<1>2. ASSUME NEW k \in Nodes, NEW s \in ActiveStatus, Moves(k, s)
      PROVE  CompletedTogether'
  <2>1. s \in NodeStatus \ DoneStatus
    BY DEF ActiveStatus, NodeStatus, DoneStatus
  <2>2. ~AllDone(node)
    BY <1>2, <2>1, MoveFacts DEF Moves, TypeOK, AllDone
  <2>3. ~AllDone(node')
    BY <1>2, <2>1 DEF Moves, TypeOK, AllDone
  <2> QED BY <1>2, <2>2, <2>3, ProjectionCompleted DEF Moves, CompletedTogether
<1>3. ASSUME NEW k \in Nodes, NEW s \in {"failed", "cancelled"}, Leaves(k, s)
      PROVE  CompletedTogether'
  <2>1. s \in NodeStatus \ ActiveStatus /\ s # "pending" /\ s \notin DoneStatus
    BY DEF ActiveStatus, NodeStatus, DoneStatus
  <2>2. ~AllDone(node)
    BY <1>3, <2>1, MoveFacts DEF Leaves, TypeOK, AllDone
  <2>3. ~AllDone(node')
    BY <1>3, <2>1, EndFacts DEF Leaves, AllDone
  <2> QED BY <1>3, <2>2, <2>3, ProjectionCompleted DEF Leaves, CompletedTogether
<1>4. ASSUME NEW k \in Nodes, NEW s \in DoneStatus, Closes(k, s)
      PROVE  CompletedTogether'
  <2>1. s \in NodeStatus
    BY DEF NodeStatus, DoneStatus
  <2>2. ~AllDone(node)
    BY <1>4, <2>1, MoveFacts DEF Closes, TypeOK, AllDone
  <2> QED
    BY <1>4, <2>2, ProjectionCompleted DEF Closes, CompletedTogether, RequirementAfter
<1>5. CASE Resizes
  <2>1. node \in Statuses /\ limit' \in Int /\ node' = Admit(node, limit')
    BY <1>5 DEF Resizes, TypeOK, Statuses
  <2>2. AllDone(node') <=> AllDone(node)
    BY <2>1, AdmitShape DEF AllDone
  <2> QED BY <1>5, <2>2, ProjectionCompleted DEF Resizes, CompletedTogether
<1> QED BY <1>1, <1>2, <1>3, <1>4, <1>5 DEF StepKind

-----------------------------------------------------------------------------
(* The contract.                                                           *)

\* A step of the nodes is a step of the stages of the contract.
LEMMA StagesAdvance ==
  ASSUME TypeOK, NodeStep, (req' = "completed") = AllDone(node')
  PROVE  Contract!Advance
<1>1. PICK k \in Nodes \cup {NoNode} :
        /\ k \in Nodes => \E s \in NodeStatus : MovesTo(k, s)
        /\ \A m \in Nodes \ {k} : node'[m] = node[m] \/ Admits(m)
  BY DEF NodeStep
<1>2. /\ \A n \in Nodes : Stage[n] = "done" <=> node[n] \in DoneStatus
      /\ \A n \in Nodes : Stage'[n] = "done" <=> node'[n] \in DoneStatus
      /\ \A n \in Nodes : Stage[n] = "waiting" <=> node[n] = "pending"
      /\ \A n \in Nodes : Stage'[n] = "waiting" <=> node'[n] = "pending"
      /\ \A n \in Nodes : Stage[n] \in {"waiting", "open", "done"}
      /\ \A n \in Nodes : Stage'[n] \in {"waiting", "open", "done"}
  BY DEF Stage, DoneStatus
<1>3. Stage' \in [Nodes -> {"waiting", "open", "done"}]
  BY <1>2 DEF Stage
<1>4. ASSUME NEW n \in Nodes
      PROVE  \/ Stage'[n] = Stage[n]
             \/ Stage'[n] = "done"
             \/ /\ Stage[n] = "waiting" /\ Stage'[n] = "open"
                /\ Contract!MayOpen(Stage', n)
  <2>1. CASE node'[n] = node[n]
    BY <2>1 DEF Stage
  <2>2. CASE Admits(n)
    <3>1. Stage[n] = "waiting" /\ Stage'[n] = "open"
      BY <1>2, <2>2 DEF Admits, DoneStatus
    <3>2. \A m \in Contract!Before(n) : m \in Nodes /\ m \in Preds(n)
      BY DEF Contract!Before, Preds
    <3>3. \A m \in Contract!Before(n) : Stage'[m] = "done"
      BY <1>2, <2>2, <3>2 DEF Admits
    <3> QED BY <3>1, <3>3 DEF Contract!MayOpen
  <2>3. CASE n = k
    <3>1. PICK s \in NodeStatus : MovesTo(n, s)
      BY <1>1, <2>3
    <3>2. node[n] \notin DoneStatus /\ s # "pending"
      BY <3>1, MoveFacts DEF MovesTo, TypeOK
    <3>3. CASE s \in DoneStatus
      BY <1>2, <3>1, <3>3 DEF MovesTo
    <3>4. CASE s \notin DoneStatus
      BY <1>2, <3>1, <3>2, <3>4 DEF MovesTo
    <3> QED BY <3>3, <3>4
  <2> QED BY <1>1, <2>1, <2>2, <2>3
<1>5. ASSUME NEW n \in Nodes, Stage[n] # "done", Stage'[n] = "done"
      PROVE  n = k
  BY <1>1, <1>2, <1>5 DEF Admits, DoneStatus
<1>6. (req' = "completed") = (\A n \in Nodes : Stage'[n] = "done")
  BY <1>2 DEF AllDone
<1> QED BY <1>3, <1>4, <1>5, <1>6 DEF Contract!Advance

\* A step that moves no node between the stages and leaves the requirement
\* alone stutters; every other step advances.
LEMMA ContractStep ==
  ASSUME TypeOK, CompletedTogether, StepKind
  PROVE  [Contract!Advance]_(Contract!vars)
<1>1. CASE Quiet
  BY <1>1 DEF Quiet, Stage, Contract!vars
<1>2. CASE ~Quiet
  <2>1. NodeStep
    BY StepOfNodes
  <2>2. CompletedTogether'
    BY CompletedStep
  <2>3. (req' = "completed") = AllDone(node')
    BY <2>2 DEF CompletedTogether, AllDone
  <2> QED BY <2>1, <2>3, StagesAdvance
<1> QED BY <1>1, <1>2

LEMMA ContractInit ==
  ASSUME Init
  PROVE  Contract!Init
<1>1. [n \in Nodes |-> "pending"] \in Statuses
  BY DEF Statuses, NodeStatus
<1>2. \A n \in Nodes : \/ node[n] = "pending"
                       \/ node[n] = "ready" /\ n \in ReadyNodes([m \in Nodes |-> "pending"])
  BY <1>1, AdmitShape DEF Init, InstantiatedStatus
<1>3. Stage \in [Nodes -> {"waiting", "open"}]
  BY <1>2 DEF Stage, DoneStatus
<1>4. ASSUME NEW n \in Nodes, Stage[n] = "open" PROVE Contract!Before(n) = {}
  <2>1. n \in ReadyNodes([m \in Nodes |-> "pending"])
    BY <1>2, <1>4 DEF Stage
  <2>2. Preds(n) = {}
    BY <2>1 DEF ReadyNodes, Preds, DoneStatus
  <2> QED BY <2>2 DEF Preds, Contract!Before
<1>5. (req = "completed") = FALSE
  BY DEF Init
<1> QED BY <1>3, <1>4, <1>5 DEF Contract!Init

-----------------------------------------------------------------------------
(* The theorems.                                                           *)

\* The inductive invariant for the order of the nodes and their slots.
Sound == TypeOK /\ PendingIsUntouched /\ DependencyOrder /\ NoIdleSlot

LEMMA OrderInit ==
  ASSUME Init
  PROVE  DependencyOrder
<1>1. [n \in Nodes |-> "pending"] \in Statuses
  BY DEF Statuses, NodeStatus
<1>2. \A n \in Nodes : \/ node[n] = "pending"
                       \/ n \in ReadyNodes([m \in Nodes |-> "pending"])
  BY <1>1, AdmitShape DEF Init, InstantiatedStatus
<1>3. \A n \in ReadyNodes([m \in Nodes |-> "pending"]) : Preds(n) = {}
  BY DEF ReadyNodes, Preds, DoneStatus
<1> QED BY <1>2, <1>3 DEF DependencyOrder

LEMMA SoundAlways == Spec => []Sound
<1>1. Init => Sound
  BY TypeInit, PendingInit, OrderInit, SlotInit DEF Sound
<1>2. Sound /\ [Next]_vars => Sound'
  BY TypeStep, PendingStep, UntouchedIsUndisturbed, KindOfStep, StepOfNodes, OrderStep, SlotStep
  DEF Sound
<1> QED BY <1>1, <1>2, PTL DEF Spec

(* The NodeRuns of a node that waits for its predecessors have not been    *)
(* touched (activateReadyNodeRuns, manage-node-execution.ts:883-959).      *)
THEOREM PendingStaysUntouched == Spec => []PendingIsUntouched
<1>1. Sound => PendingIsUntouched
  BY DEF Sound
<1> QED BY <1>1, SoundAlways, PTL

(* No node is started, retried, recovered or ended before everything it    *)
(* depends on is done, in every graph (getReadyNodeIds,                    *)
(* domain/workflow.ts:733-753).                                            *)
THEOREM DependenciesHold == Spec => []DependencyOrder
<1>1. Sound => DependencyOrder
  BY DEF Sound
<1> QED BY <1>1, SoundAlways, PTL

(* Every transaction leaves the slots filled, or no node to fill them with *)
(* (getStableReadyNodeIds, domain/workflow.ts:772-790).                    *)
THEOREM SlotsAreUsed == Spec => []NoIdleSlot
<1>1. Sound => NoIdleSlot
  BY DEF Sound
<1> QED BY <1>1, SoundAlways, PTL

(* No step that admits a node exceeds maxParallelism.                      *)
THEOREM LimitIsKept == Spec => AdmissionWithinLimit
<1>1. Sound /\ [Next]_vars =>
        [(\E n \in Nodes : node[n] = "pending" /\ node'[n] = "ready")
           => Cardinality(Active(node)') <= limit']_vars
  BY UntouchedIsUndisturbed, KindOfStep, LimitStep DEF Sound
<1> QED BY <1>1, SoundAlways, PTL DEF Spec, AdmissionWithinLimit

LEMMA CompletedAlways ==
  ASSUME Nodes # {}
  PROVE  Spec => []CompletedTogether
<1>1. Init => CompletedTogether
  BY CompletedInit
<1>2. Sound /\ CompletedTogether /\ [Next]_vars => CompletedTogether'
  BY UntouchedIsUndisturbed, KindOfStep, CompletedStep DEF Sound
<1> QED BY <1>1, <1>2, SoundAlways, PTL DEF Spec

(* Workflow, execution and requirement are completed by the same           *)
(* transaction, for every workflow that has a node.                        *)
THEOREM CompletionIsJoint ==
  ASSUME Nodes # {}
  PROVE  Spec => []CompletedTogether
BY CompletedAlways

(* The transactions on the aggregate implement the contract of             *)
(* WorkflowContract, for every workflow that has a node.                   *)
THEOREM ContractIsKept ==
  ASSUME Nodes # {}
  PROVE  Spec => ContractSpec
<1>1. Init => Contract!Init
  BY ContractInit
<1>2. Sound /\ CompletedTogether /\ [Next]_vars => [Contract!Advance]_(Contract!vars)
  BY UntouchedIsUndisturbed, KindOfStep, ContractStep DEF Sound
<1> QED BY <1>1, <1>2, SoundAlways, CompletedAlways, PTL DEF Spec, ContractSpec, Contract!Spec

\* A transaction brings the execution to the projection, or leaves execution,
\* current node, workflow and requirement alone, or opens a question at the current node.
LEMMA ExecWrites ==
  ASSUME TypeOK, [Next]_vars
  PROVE  \/ exec' = Projection(node)'
         \/ node' = node /\ exec' = exec /\ current' = current /\ req' = req
         \/ exec' = "waiting_user" /\ current' \in Nodes /\ node'[current'] = "waiting_user"
<1>3. ASSUME NEW id \in NodeRunIds, OpenQuestion(id)
      PROVE  \/ node' = node /\ exec' = exec /\ current' = current /\ req' = req
             \/ exec' = "waiting_user" /\ current' \in Nodes /\ node'[current'] = "waiting_user"
  <2>1. id[1] \in Nodes /\ id[1] = current /\ current' = current
    BY <1>3 DEF OpenQuestion, NodeRunIds
  <2> QED BY <1>3, <2>1 DEF OpenQuestion, TypeOK
<1>4. ASSUME NEW st, Commit(st) PROVE exec' = Projection(node)'
  <2>1. node' = st /\ exec' = Projection(st)
    BY <1>4 DEF Commit
  <2> QED BY <2>1
<1>5. ASSUME NEW id \in NodeRunIds,
             \/ ReserveNode(id) \/ WaitForUser(id) \/ FailRecovery(id) \/ InterruptNode(id)
             \/ \E s \in {"failed", "cancelled"} : FinishNode(id, s)
             \/ CompleteNode(id)
      PROVE  exec' = Projection(node)'
  BY <1>4, <1>5 DEF ReserveNode, WaitForUser, FailRecovery, InterruptNode, Transition,
     FinishNode, CompleteNode
<1>6. ASSUME NEW n \in Nodes, PauseNode(n) \/ ResumeNode(n) \/ CancelNode(n)
      PROVE  exec' = Projection(node)'
  BY <1>4, <1>6 DEF PauseNode, ResumeNode, CancelNode, Transition
<1>7. ASSUME NEW st, node' = st, exec' = Projection(st) PROVE exec' = Projection(node)'
  BY <1>7
<1>8. ASSUME NEW n \in Nodes, SkipNode(n) PROVE exec' = Projection(node)'
  <2>1. node' = Finished(n, "skipped") /\ exec' = Projection(Finished(n, "skipped"))
    BY <1>8 DEF SkipNode
  <2> QED BY <1>7, <2>1
<1>9. ASSUME NEW k \in 1..MaxLimit, SetParallelism(k) PROVE exec' = Projection(node)'
  <2>1. node' = Admit(node, k) /\ exec' = Projection(Admit(node, k))
    BY <1>9 DEF SetParallelism
  <2> QED BY <1>7, <2>1
<1>10. ASSUME \/ \E id \in NodeRunIds : \/ \E r \in AiRuns : BindAiRun(id, r)
                                        \/ ResolveQuestion(id)
              \/ \E n \in Nodes : PrepareRetry(n) \/ RequeueInterrupted(n)
              \/ ReconcileDispatches \/ UNCHANGED vars
       PROVE  node' = node /\ exec' = exec /\ current' = current /\ req' = req
  BY <1>10 DEF BindAiRun, ResolveQuestion, PrepareRetry, RequeueInterrupted,
     ReconcileDispatches, vars
<1> QED BY <1>3, <1>5, <1>6, <1>8, <1>9, <1>10 DEF Next

\* No attempt of any node runs, waits for the user or was interrupted.
NobodyAtWork ==
  \A id \in NodeRunIds : Status(id) \notin {"running", "waiting_user", "interrupted"}

\* While the requirement stays pending no transaction puts an attempt to work:
\* only a reservation could, and it makes the requirement active.
LEMMA PendingIsAtRest ==
  ASSUME TypeOK, NobodyAtWork, [Next]_vars, req' = "pending"
  PROVE  NobodyAtWork'
<1> DEFINE Idle(runs) ==
      \A id \in NodeRunIds : runs[id].status \notin {"running", "waiting_user", "interrupted"}
<1>0. /\ Idle(run)
      /\ NobodyAtWork' <=> Idle(run')
      /\ run \in [NodeRunIds -> RunRecord]
  BY DEF NobodyAtWork, Status, TypeOK
<1>1. ASSUME NEW id \in NodeRunIds, NEW r \in [status : {"ready", "paused"}, ai : AiRuns \cup {NoRun}],
             run' = [run EXCEPT ![id] = r]
      PROVE  Idle(run')
  BY <1>0, <1>1
<1>2. ASSUME NEW id \in NodeRunIds, NEW s \in {"failed", "cancelled", "completed", "skipped"}
      PROVE  /\ Idle([run EXCEPT ![id].status = s])
             /\ [run EXCEPT ![id].status = s] \in [NodeRunIds -> RunRecord]
  BY <1>0, <1>2 DEF RunRecord, RunStatus, NodeStatus
<1>3. ASSUME NEW st, NEW runs, Idle(runs), runs \in [NodeRunIds -> RunRecord]
      PROVE  Idle(Activated(st, runs))
  <2>1. ASSUME NEW id \in NodeRunIds
        PROVE  Activated(st, runs)[id].status \in {"ready", runs[id].status}
    BY <1>3 DEF Activated, RunRecord
  <2> QED BY <1>3, <2>1
<1>4. ASSUME NEW n \in Nodes PROVE Latest(n) \in NodeRunIds
  BY <1>4, LatestRun
<1>5. ASSUME NEW id \in NodeRunIds PROVE ~ReserveNode(id)
  BY DEF ReserveNode
<1>6. ASSUME NEW id \in NodeRunIds
      PROVE  /\ ~WaitForUser(id) /\ ~FailRecovery(id) /\ ~InterruptNode(id)
             /\ \A r \in AiRuns : ~BindAiRun(id, r)
  BY <1>0 DEF Status, WaitForUser, FailRecovery, InterruptNode, BindAiRun, Transition,
     CanTransition
<1>7. ASSUME NEW id \in NodeRunIds, OpenQuestion(id) PROVE Idle(run')
  BY <1>0, <1>7 DEF OpenQuestion, Status
<1>8. ASSUME NEW id \in NodeRunIds, NEW s \in {"failed", "cancelled"}, FinishNode(id, s)
      PROVE  Idle(run')
  BY <1>2, <1>3, <1>8 DEF FinishNode
<1>9. ASSUME NEW id \in NodeRunIds, CompleteNode(id) PROVE Idle(run')
  BY <1>2, <1>3, <1>9 DEF CompleteNode
<1>10. ASSUME NEW n \in Nodes, PauseNode(n) \/ ResumeNode(n) PROVE Idle(run')
  <2>1. run[Latest(n)].ai \in AiRuns \cup {NoRun}
    BY <1>0, <1>4 DEF RunRecord
  <2> QED BY <1>1, <1>4, <1>10, <2>1 DEF PauseNode, ResumeNode, Transition
<1>11. ASSUME NEW n \in Nodes, CancelNode(n) PROVE Idle(run')
  BY <1>2, <1>4, <1>11 DEF CancelNode
<1>12. ASSUME NEW n \in Nodes, SkipNode(n) PROVE Idle(run')
  BY <1>2, <1>3, <1>4, <1>12 DEF SkipNode
<1>13. ASSUME NEW n \in Nodes, PrepareRetry(n) PROVE Idle(run')
  BY <1>0, <1>13 DEF PrepareRetry
<1>14. ASSUME NEW k \in 1..MaxLimit, SetParallelism(k) PROVE Idle(run')
  BY <1>0, <1>3, <1>14 DEF SetParallelism
<1>15. ASSUME \/ \E id \in NodeRunIds : ResolveQuestion(id)
              \/ \E n \in Nodes : RequeueInterrupted(n)
              \/ ReconcileDispatches \/ UNCHANGED vars
       PROVE  Idle(run')
  BY <1>0, <1>15 DEF ResolveQuestion, RequeueInterrupted, ReconcileDispatches, vars
<1> QED
  BY <1>0, <1>5, <1>6, <1>7, <1>8, <1>9, <1>10, <1>11, <1>12, <1>13, <1>14, <1>15 DEF Next

\* A requirement never returns to pending.
LEMMA PendingIsLeftForGood ==
  ASSUME [Next]_vars, req' = "pending"
  PROVE  req = "pending"
<1>1. ASSUME NEW st, req' = RequirementAfter(st) PROVE req = "pending"
  BY <1>1 DEF RequirementAfter
<1> QED
  BY <1>1 DEF Next, vars, ReserveNode, BindAiRun, WaitForUser, FailRecovery, InterruptNode,
     FinishNode, CompleteNode, OpenQuestion, ResolveQuestion, PauseNode, ResumeNode,
     CancelNode, SkipNode, PrepareRetry, RequeueInterrupted, SetParallelism,
     ReconcileDispatches

LEMMA FollowStep ==
  ASSUME TypeOK, ExecutionFollowsWorkflow, [Next]_vars
  PROVE  ExecutionFollowsWorkflow'
<1>1. ExecutionFollowsWorkflow <=>
        /\ \/ exec = Projection(node)
           \/ exec = "created" /\ node = InstantiatedStatus /\ req = "pending"
           \/ exec = "waiting_user" /\ node[current] = "waiting_user"
        /\ req = "pending" => NobodyAtWork
  BY DEF ExecutionFollowsWorkflow, NobodyAtWork
<1>2. req' = "pending" => NobodyAtWork'
  BY <1>1, PendingIsLeftForGood, PendingIsAtRest
<1>3. \/ exec' = Projection(node)'
      \/ exec' = "created" /\ node' = InstantiatedStatus /\ req' = "pending"
      \/ exec' = "waiting_user" /\ node'[current'] = "waiting_user"
  <2>1. CASE node' = node /\ exec' = exec /\ current' = current /\ req' = req
    BY <1>1, <2>1
  <2>2. CASE exec' = "waiting_user" /\ node'[current'] = "waiting_user"
    BY <2>2
  <2> QED BY <2>1, <2>2, ExecWrites
<1> QED BY <1>2, <1>3 DEF ExecutionFollowsWorkflow, NobodyAtWork

(* The execution shows the projection of its workflow, but in created,     *)
(* while nothing of the workflow has changed and the requirement is        *)
(* pending, and under an open question; and while the requirement is shown *)
(* pending no attempt of any node runs, waits or was interrupted           *)
(* (updateExecution and the activation of the requirement in               *)
(* transitionCurrentExecution, manage-node-execution.ts:862-878;           *)
(* ManageNodeQuestionsUseCase.open).                                       *)
THEOREM ExecutionFollows == Spec => []ExecutionFollowsWorkflow
<1>1. Init => ExecutionFollowsWorkflow
  <2> SUFFICES ASSUME Init PROVE ExecutionFollowsWorkflow
    OBVIOUS
  <2>1. ASSUME NEW id \in NodeRunIds
        PROVE  Status(id) \notin {"running", "waiting_user", "interrupted"}
    <3>1. Status(id) \in {"none", InstantiatedStatus[id[1]]} /\ id[1] \in Nodes
      BY DEF Init, Status, NodeRunIds
    <3>2. InstantiatedStatus[id[1]] \in {"pending", "ready"}
      BY <3>1 DEF InstantiatedStatus, Admit
    <3> QED BY <3>1, <3>2
  <2> QED BY <2>1 DEF Init, ExecutionFollowsWorkflow
<1>2. TypeOK /\ ExecutionFollowsWorkflow /\ [Next]_vars => ExecutionFollowsWorkflow'
  BY FollowStep
<1> QED BY <1>1, <1>2, TypeCorrect, PTL DEF Spec

=============================================================================
