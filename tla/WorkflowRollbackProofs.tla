----------------------- MODULE WorkflowRollbackProofs -----------------------
(***************************************************************************)
(* Proofs about WorkflowRollback: what the rollback's transaction does to  *)
(* the aggregate, and what of WorkflowEngine survives rollbacks and their  *)
(* coordination.                                                           *)
(***************************************************************************)
EXTENDS WorkflowRollback, WorkflowEngineProofs

-----------------------------------------------------------------------------
(* The transaction.                                                        *)

LEMMA NewStatusShape ==
  ASSUME TypeOK, NEW n \in Nodes
  PROVE  /\ NewStatus(n) \in Statuses
         /\ NewStatus(n)[n] \in {"ready", "pending"}
         /\ \A m \in Affected(n) \ {n} : NewStatus(n)[m] = "pending"
         /\ \A m \in Nodes \ Affected(n) : NewStatus(n)[m] = node[m]
         /\ \A m \in Preds(n) : NewStatus(n)[m] = node[m]
<1>1. node \in Statuses /\ limit \in Int
  BY ExecutionAssumption DEF TypeOK, Statuses, ExecutionAssumption
<1> QED BY <1>1, RolledBackShape DEF NewStatus

\* Every affected node has one attempt more, and only that is new.
LEMMA ReattemptedType ==
  ASSUME TypeOK, NEW n \in Nodes, RollBackTo(n)
  PROVE  /\ latest' \in [Nodes -> Attempts]
         /\ run' \in [NodeRunIds -> RunRecord]
         /\ \A id \in NodeRunIds : run'[id].status = "none" <=> id[2] > latest'[id[1]]
<1>t. /\ latest \in [Nodes -> Attempts] /\ run \in [NodeRunIds -> RunRecord]
      /\ \A id \in NodeRunIds : run[id].status = "none" <=> id[2] > latest[id[1]]
      /\ MaxAttempt \in Nat /\ Attempts = 1..MaxAttempt
  BY ExecutionAssumption DEF TypeOK, Status, Attempts, ExecutionAssumption
<1>a. Affected(n) \subseteq Nodes
  BY AffectedShape
<1>1. /\ \A m \in Nodes : latest'[m] = IF m \in Affected(n) THEN latest[m] + 1 ELSE latest[m]
      /\ \A m \in Affected(n) : latest[m] < MaxAttempt
      /\ latest' \in [Nodes -> Attempts]
  BY <1>t, <1>a DEF RollBackTo
<1>2. ASSUME NEW id \in NodeRunIds
      PROVE  /\ run'[id] \in RunRecord
             /\ run'[id].status = "none" <=> id[2] > latest'[id[1]]
  <2>1. id[1] \in Nodes /\ id[2] \in Nat /\ latest[id[1]] \in Nat
    BY <1>t DEF NodeRunIds
  <2>2. run' = Reattempted(n)
    BY DEF RollBackTo
  <2>3. CASE id \in OldAttempts(n) /\ Status(id) \in LocallyActive
    <3>1. run'[id] = [status |-> "cancelled", ai |-> NoRun]
      BY <2>2, <2>3 DEF Reattempted
    <3>2. id[1] \in Affected(n) /\ id[2] = latest[id[1]]
      BY <2>3 DEF OldAttempts, Latest
    <3> QED BY <1>1, <2>1, <3>1, <3>2 DEF RunRecord, RunStatus, NodeStatus
  <2>4. CASE /\ ~(id \in OldAttempts(n) /\ Status(id) \in LocallyActive)
             /\ id[1] \in Affected(n) /\ id[2] = latest[id[1]] + 1
    <3>1. run'[id] = [status |-> NewStatus(n)[id[1]], ai |-> NoRun]
      BY <2>2, <2>4 DEF Reattempted
    <3>2. NewStatus(n)[id[1]] \in NodeStatus
      BY <2>1, NewStatusShape DEF Statuses
    <3> QED BY <1>1, <2>1, <2>4, <3>1, <3>2 DEF RunRecord, RunStatus, NodeStatus
  <2>5. CASE /\ ~(id \in OldAttempts(n) /\ Status(id) \in LocallyActive)
             /\ ~(id[1] \in Affected(n) /\ id[2] = latest[id[1]] + 1)
    <3>1. run'[id] = run[id]
      BY <2>2, <2>5 DEF Reattempted
    <3> QED BY <1>t, <1>1, <2>1, <2>5, <3>1
  <2> QED BY <2>3, <2>4, <2>5
<1>3. run' \in [NodeRunIds -> RunRecord]
  BY <1>2 DEF RollBackTo, Reattempted
<1> QED BY <1>1, <1>2, <1>3

LEMMA RollBackTypes ==
  ASSUME TypeOK, NEW n \in Nodes, RollBackTo(n)
  PROVE  TypeOK'
<1>1. node' \in [Nodes -> NodeStatus]
  BY NewStatusShape DEF RollBackTo, Statuses
<1>2. exec' \in ExecutionStatus /\ current' \in Nodes \cup {NoNode}
  BY DEF RollBackTo, ExecutionStatus
<1>3. req' \in {"pending", "active", "completed"}
  BY DEF RollBackTo, Reopened, TypeOK
<1>4. auto' \subseteq NodeRunIds
  <2>1. \A m \in {k \in {n} \cap Executable : NewStatus(n)[k] = "ready"} :
          <<m, latest[m] + 1>> \in NodeRunIds
    <3>1. n \in Affected(n) /\ latest[n] < MaxAttempt /\ latest[n] \in 1..MaxAttempt
      BY AffectedShape DEF RollBackTo, TypeOK, Attempts
    <3> QED BY <3>1, ExecutionAssumption DEF NodeRunIds, Attempts, ExecutionAssumption
  <2> QED BY <2>1 DEF RollBackTo, TypeOK
<1>5. recov' \subseteq NodeRunIds /\ asked' \subseteq NodeRunIds /\ limit' = limit
  BY DEF RollBackTo, StillCurrent, TypeOK
<1> QED BY <1>1, <1>2, <1>3, <1>4, <1>5, ReattemptedType DEF TypeOK, Status

(* A rollback is a step of the contract: work is undone together with      *)
(* everything that comes after it, the target is opened again only after   *)
(* what comes before it, and the requirement is open again                 *)
(* (rollback-workflow-to-node.ts, domain/workflow-rollback.ts:40-90).  The *)
(* target's predecessors are done unless it was skipped ahead of them.     *)
THEOREM RollbackReopens ==
  ASSUME TypeOK, NEW n \in Nodes, RollBackTo(n),
         \A m \in Preds(n) : node[m] \in DoneStatus
  PROVE  Contract!Reopen
<1> DEFINE S == Affected(n)
<1>1. S \in SUBSET Nodes /\ n \in S /\ \A e \in Edges : e[1] \in S => e[2] \in S
  BY AffectedShape
<1>2. /\ node' = NewStatus(n) /\ node' \in Statuses
      /\ node'[n] \in {"ready", "pending"}
      /\ \A m \in S \ {n} : node'[m] = "pending"
      /\ \A m \in Nodes \ S : node'[m] = node[m]
      /\ \A m \in Preds(n) : node'[m] = node[m]
  BY NewStatusShape DEF RollBackTo
<1> HIDE DEF S
<1>3. /\ Stage' \in [Nodes -> {"waiting", "open", "done"}]
      /\ \A m \in Nodes : Stage'[m] = CASE node'[m] = "pending" -> "waiting"
                                        [] node'[m] \in DoneStatus -> "done"
                                        [] OTHER -> "open"
      /\ \A m \in Nodes : Stage[m] = CASE node[m] = "pending" -> "waiting"
                                       [] node[m] \in DoneStatus -> "done"
                                       [] OTHER -> "open"
  BY DEF Stage
<1>4. \A m \in Nodes \ S : Stage'[m] = Stage[m]
  BY <1>2, <1>3
<1>5. ASSUME NEW m \in S \ {n} PROVE m \in Nodes /\ Stage'[m] = "waiting"
  <2>1. m \in Nodes /\ node'[m] = "pending"
    BY <1>1, <1>2
  <2> QED BY <1>3, <2>1 DEF DoneStatus
<1>6. Stage'[n] \in {"waiting", "open"}
  BY <1>2, <1>3 DEF DoneStatus
<1>7. \A m \in Contract!Before(n) : Stage'[m] = "done"
  <2> SUFFICES ASSUME NEW m \in Contract!Before(n) PROVE Stage'[m] = "done"
    OBVIOUS
  <2>1. m \in Preds(n) /\ m \in Nodes
    BY DEF Contract!Before, Preds
  <2>2. node'[m] \in DoneStatus
    BY <1>2, <2>1
  <2> QED BY <1>3, <2>1, <2>2 DEF DoneStatus
<1>8. (req' = "completed") = FALSE
  BY DEF RollBackTo, Reopened
<1>9. \A m \in Nodes : Stage'[m] = IF m \notin S THEN Stage[m]
                                  ELSE IF m = n THEN Stage'[n] ELSE "waiting"
  BY <1>4, <1>5
<1>10. Contract!MayOpen(Stage', n)
  BY <1>7 DEF Contract!MayOpen
<1> QED BY <1>1, <1>3, <1>6, <1>8, <1>9, <1>10 DEF Contract!Reopen

(* A rollback leaves the order of the nodes and the agreement of workflow, *)
(* execution and requirement as they should be: nothing that is open or    *)
(* done is left behind a node that is undone, and a completed requirement  *)
(* is open again (rollback-workflow-to-node.ts,                            *)
(* domain/workflow-rollback.ts:40-90).                                     *)
THEOREM RollbackKeepsOrder ==
  ASSUME TypeOK, DependencyOrder, NEW n \in Nodes, RollBackTo(n),
         \A m \in Preds(n) : node[m] \in DoneStatus
  PROVE  DependencyOrder' /\ CompletedTogether'
<1>1. /\ node' \in Statuses
      /\ node'[n] \in {"ready", "pending"}
      /\ \A m \in Affected(n) \ {n} : node'[m] = "pending"
      /\ \A m \in Nodes \ Affected(n) : node'[m] = node[m]
      /\ \A m \in Preds(n) : node'[m] = node[m]
  BY NewStatusShape DEF RollBackTo
<1>2. ASSUME NEW k \in Nodes, node'[k] \notin {"pending", "skipped"}, NEW m \in Preds(k)
      PROVE  node'[m] \in DoneStatus
  <2>1. CASE k = n
    BY <1>1, <2>1
  <2>2. CASE k # n
    <3>1. k \notin Affected(n) /\ node'[k] = node[k]
      BY <1>1, <1>2, <2>2
    <3>2. m \in Nodes /\ <<m, k>> \in Edges /\ node[m] \in DoneStatus
      BY <1>2, <3>1 DEF Preds, DependencyOrder
    <3>3. m \notin Affected(n)
      <4>1. <<m, k>>[1] = m /\ <<m, k>>[2] = k
        OBVIOUS
      <4> QED BY <3>1, <3>2, <4>1, AffectedShape
    <3> QED BY <1>1, <3>2, <3>3
  <2> QED BY <2>1, <2>2
<1>3. DependencyOrder'
  BY <1>2 DEF DependencyOrder
<1>4. ~AllDone(node') /\ exec' # "completed" /\ req' # "completed"
  BY <1>1 DEF AllDone, DoneStatus, RollBackTo, Reopened
<1> QED BY <1>3, <1>4 DEF CompletedTogether, AllDone

-----------------------------------------------------------------------------
(* The steps of the whole.                                                 *)

\* A step is one of WorkflowEngine, the cancellation of an AI run, a rollback,
\* or none of WorkflowEngine's business.
LEMMA RollbackSteps ==
  ASSUME [RollbackNext]_everything
  PROVE  \/ [EngineNext]_allVars
         \/ \E k \in Coordinators : \E r \in coord[k].todo : CancelRolledBack(k, r)
         \/ \E n \in Nodes : Rollback(n)
<1>1. CASE EngineRuns \/ EngineRecovers \/ EngineCrash
  BY <1>1 DEF EngineRuns, EngineRecovers, EngineCrash, EngineNext
<1>2. CASE RecoverPending \/ Replay \/ UNCHANGED everything
  BY <1>2 DEF RecoverPending, Replay, everything
<1>3. ASSUME NEW k \in Coordinators, Conclude(k) PROVE UNCHANGED allVars
  BY <1>3 DEF Conclude
<1> QED BY <1>1, <1>2, <1>3 DEF RollbackNext, Coordination

LEMMA NextCoordinatorIsIdle ==
  ASSUME IdleCoordinators # {}
  PROVE  NextCoordinator \in Coordinators
BY DEF NextCoordinator, IdleCoordinators

LEMMA CoordinatingType ==
  ASSUME coord \in [Coordinators -> Coordinations], NEW runs \in SUBSET AiRuns
  PROVE  Coordinating(runs) \in [Coordinators -> Coordinations]
<1>1. [NoCoordination EXCEPT !.busy = TRUE, !.todo = runs] \in Coordinations
  BY DEF NoCoordination, Coordinations
<1> QED BY <1>1 DEF Coordinating

\* The AI runs that a rollback writes down.
LEMMA RunsToCancelType ==
  ASSUME TypeOK, NEW n \in Nodes
  PROVE  RunsToCancel(n) \subseteq AiRuns
<1>1. OldAttempts(n) \subseteq NodeRunIds
  BY LatestRun, AffectedShape DEF OldAttempts
<1>2. \A id \in NodeRunIds : run[id].ai \in AiRuns \cup {NoRun}
  BY DEF TypeOK, RunRecord
<1> QED BY <1>1, <1>2 DEF RunsToCancel

LEMMA RollbackStepTypes ==
  ASSUME RollbackTypeOK, [RollbackNext]_everything
  PROVE  RollbackTypeOK'
<1>t. /\ EngineTypeOK /\ TypeOK /\ EngineVars
      /\ operation \in Operations /\ operation.runs \subseteq AiRuns
      /\ coord \in [Coordinators -> Coordinations]
      /\ gateway \subseteq AiRuns /\ resumed \in BOOLEAN
  BY EngineTypeParts DEF RollbackTypeOK, Operations
<1>1. CASE EngineRuns \/ EngineRecovers
  <2>1. EngineTypeOK'
    BY <1>t, <1>1, EngineStepTypes DEF EngineRuns, EngineRecovers, EngineNext
  <2>2. UNCHANGED <<operation, coord, resumed>> /\ gateway' \subseteq AiRuns
    BY <1>t, <1>1 DEF EngineRuns, EngineRecovers, InSession, Created
  <2> QED BY <1>t, <2>1, <2>2 DEF RollbackTypeOK
<1>2. CASE EngineCrash
  <2>1. EngineTypeOK'
    BY <1>t, <1>2, EngineStepTypes DEF EngineCrash, EngineNext
  <2>2. coord' \in [Coordinators -> Coordinations]
    BY <1>2 DEF EngineCrash, NoCoordination, Coordinations
  <2> QED BY <1>t, <1>2, <2>1, <2>2 DEF EngineCrash, RollbackTypeOK
<1>u. UNCHANGED allVars => EngineTypeOK'
  BY <1>t, EngineStepTypes
<1>3. CASE RecoverPending \/ Replay
  <2>1. coord' \in [Coordinators -> Coordinations]
    BY <1>t, <1>3, CoordinatingType DEF RecoverPending, Replay
  <2> QED BY <1>t, <1>u, <1>3, <2>1 DEF RecoverPending, Replay, RollbackTypeOK
<1>4. ASSUME NEW k \in Coordinators, Conclude(k) PROVE RollbackTypeOK'
  <2>1. coord[k].failed \subseteq AiRuns /\ operation.sync \in BOOLEAN
    BY <1>t DEF Coordinations, Operations
  <2>2. NoCoordination \in Coordinations
        /\ \A j \in Coordinators : [coord[j] EXCEPT !.stale = TRUE] \in Coordinations
    BY <1>t DEF NoCoordination, Coordinations
  <2>3. coord' \in [Coordinators -> Coordinations]
    BY <1>t, <1>4, <2>2 DEF Conclude
  <2>4. operation' \in Operations
    <3>1. CASE UNCHANGED operation
      BY <1>t, <3>1
    <3>2. ASSUME NEW failed \in {FALSE, operation.sync},
                 operation' = [status |-> IF coord[k].failed # {} \/ failed
                                          THEN "coordination_pending" ELSE "completed",
                               runs |-> coord[k].failed, sync |-> failed]
          PROVE  operation' \in Operations
      BY <2>1, <3>2 DEF Operations
    <3> QED BY <1>4, <3>1, <3>2 DEF Conclude
  <2> QED BY <1>t, <1>u, <1>4, <2>3, <2>4 DEF Conclude, RollbackTypeOK
<1>5. ASSUME NEW k \in Coordinators, NEW r \in coord[k].todo, CancelRolledBack(k, r)
      PROVE  RollbackTypeOK'
  <2>1. r \in AiRuns /\ coord[k] \in Coordinations
    BY <1>t DEF Coordinations
  <2>2. coord' \in [Coordinators -> Coordinations]
    BY <1>t, <1>5, <2>1 DEF CancelRolledBack, Coordinations
  <2>3. ai' \in [AiRuns -> AiStatus]
    BY <1>t, <1>5 DEF CancelRolledBack, EngineVars, AiStatus
  <2>4. TypeOK'
    BY <1>t, <1>5, TypeStep DEF CancelRolledBack
  <2>5. EngineVars'
    BY <1>t, <1>5, <2>3 DEF CancelRolledBack, EngineVars
  <2>6. EngineTypeOK'
    BY <2>4, <2>5 DEF EngineTypeOK, EngineVars, JobTable, WorkerType
  <2> QED BY <1>t, <1>5, <2>2, <2>6 DEF CancelRolledBack, RollbackTypeOK
<1>6. ASSUME NEW n \in Nodes, Rollback(n) PROVE RollbackTypeOK'
  <2>1. RunsToCancel(n) \subseteq AiRuns
    BY <1>t, RunsToCancelType
  <2>2. operation' \in Operations /\ coord' \in [Coordinators -> Coordinations]
    BY <1>t, <1>6, <2>1, CoordinatingType DEF Rollback, Operations
  <2>3. TypeOK'
    BY <1>t, <1>6, RollBackTypes DEF Rollback, Tx
  <2>4. job' \in JobTable /\ served' \subseteq Dispatches
    BY <1>t, <1>6, TxType DEF Rollback, Tx, EngineVars
  <2>5. EngineVars'
    BY <1>t, <1>6, <2>4 DEF Rollback, Tx, EngineVars
  <2>6. EngineTypeOK'
    BY <2>3, <2>5 DEF EngineTypeOK, EngineVars, JobTable, WorkerType
  <2> QED BY <1>t, <1>6, <2>2, <2>6 DEF Rollback, RollbackTypeOK
<1>7. CASE UNCHANGED everything
  BY <1>t, <1>u, <1>7 DEF everything, rollbackVars, RollbackTypeOK
<1> QED BY <1>1, <1>2, <1>3, <1>4, <1>5, <1>6, <1>7 DEF RollbackNext, Coordination

-----------------------------------------------------------------------------
(* The theorems.                                                           *)

(* Rollbacks, repeated requests, coordinations and startup keep the types: *)
(* every node has exactly the attempts it is said to have, and only AI     *)
(* runs that exist are cancelled (rollback-workflow-to-node.ts,            *)
(* coordinate-workflow-rollback.ts).                                       *)
THEOREM RollbackTypesCorrect ==
  ASSUME Nodes # {}
  PROVE  RollbackSpec => []RollbackTypeOK
<1>1. RollbackInit => RollbackTypeOK
  BY EngineInitTypes DEF RollbackInit, RollbackTypeOK, Operations, Coordinations, NoCoordination
<1>2. RollbackTypeOK /\ [RollbackNext]_everything => RollbackTypeOK'
  BY RollbackStepTypes
<1> QED BY <1>1, <1>2, PTL DEF RollbackSpec

LEMMA OwnersSurvive ==
  ASSUME RollbackTypeOK, RunsAreOwned, [RollbackNext]_everything
  PROVE  RunsAreOwned'
<1>t. EngineTypeOK
  BY DEF RollbackTypeOK
<1>1. CASE [EngineNext]_allVars
  BY <1>t, <1>1, OwnersStep
<1>2. ASSUME NEW k \in Coordinators, NEW r \in coord[k].todo, CancelRolledBack(k, r)
      PROVE  RunsAreOwned'
  <2>1. /\ job' = job /\ phase' = phase
        /\ \A q \in AiRuns : Keeps(q)
    BY <1>t, <1>2 DEF CancelRolledBack, Keeps, EngineTypeOK
  <2> QED BY <1>t, <2>1, ProceedKeepsOwners DEF AllProceed, Proceeds
<1>3. ASSUME NEW n \in Nodes, Rollback(n) PROVE RunsAreOwned'
  <2>1. ai' = ai /\ phase' = phase /\ job' = Conflicted(job)
    BY <1>3 DEF Rollback, Tx
  <2> QED BY <1>t, <2>1, RestProceeds, ProceedKeepsOwners DEF AllProceed
<1> QED BY <1>1, <1>2, <1>3, RollbackSteps

(* With rollbacks and their coordination, too, no live AI run is without   *)
(* an execution that awaits it or is about to settle it.                   *)
THEOREM RolledBackRunsAreAwaited ==
  ASSUME Nodes # {}
  PROVE  RollbackSpec => []LiveRunIsAwaited
<1>1. RollbackInit => RunsAreOwned
  BY DEF RollbackInit, EngineInit, RunsAreOwned
<1>2. RollbackTypeOK /\ RunsAreOwned /\ [RollbackNext]_everything => RunsAreOwned'
  BY OwnersSurvive
<1>3. RunsAreOwned => LiveRunIsAwaited
  BY DEF RunsAreOwned, LiveRunIsAwaited
<1> QED BY <1>1, <1>2, <1>3, RollbackTypesCorrect, PTL DEF RollbackSpec

LEMMA StartupSurvives ==
  ASSUME RollbackTypeOK, StartupInv, [RollbackNext]_everything
  PROVE  StartupInv' /\ (phase # "up" => LeavesHeld)
<1>t. EngineTypeOK
  BY DEF RollbackTypeOK
<1>1. CASE [EngineNext]_allVars
  BY <1>t, <1>1, StartupStep
<1>2. ASSUME NEW k \in Coordinators, NEW r \in coord[k].todo, CancelRolledBack(k, r)
      PROVE  StartupInv' /\ (phase # "up" => LeavesHeld)
  <2>1. job' = job /\ phase' = phase /\ worker' = worker /\ node' = node
    BY <1>2 DEF CancelRolledBack, vars
  <2> QED BY <2>1 DEF StartupInv, QuietRestart, StartupOwnsItsNodes, NodeOf, LeavesHeld
<1>3. ASSUME NEW n \in Nodes, Rollback(n)
      PROVE  StartupInv' /\ (phase # "up" => LeavesHeld)
  <2>1. phase = "up" /\ phase' = phase
    BY <1>3 DEF Rollback
  <2> QED BY <2>1 DEF StartupInv, QuietRestart, StartupOwnsItsNodes
<1> QED BY <1>1, <1>2, <1>3, RollbackSteps

(* The coordination of rollbacks that startup takes up again moves no node *)
(* that is paused, waits for the user or has ended, nor does anything else *)
(* that runs before startup is over (recover-workflows.ts:26-183).         *)
THEOREM CoordinationRespectsUser ==
  ASSUME Nodes # {}
  PROVE  RollbackSpec => RecoveryRespectsUser
<1>1. RollbackInit => StartupInv
  BY DEF RollbackInit, EngineInit, StartupInv, QuietRestart, StartupOwnsItsNodes
<1>2. RollbackTypeOK /\ StartupInv /\ [RollbackNext]_everything => StartupInv'
  BY StartupSurvives
<1>3. RollbackTypeOK /\ StartupInv /\ [RollbackNext]_everything =>
        [phase # "up" =>
           \A n \in Nodes :
             node[n] \in {"paused", "waiting_user", "cancelled", "completed", "skipped"}
               => node'[n] = node[n]]_allVars
  BY StartupSurvives DEF LeavesHeld, Held
<1> QED BY <1>1, <1>2, <1>3, RollbackTypesCorrect, PTL DEF RollbackSpec, RecoveryRespectsUser

-----------------------------------------------------------------------------
(* The AI runs of cancelled attempts.                                      *)

\* AI run r is bound to the attempt it works for, which is not cancelled.
HasBinding(r) ==
  /\ run[job[r].id].ai = r
  /\ Status(job[r].id) \notin {"cancelled", "none"}

\* Nothing refers to an AI run that is not created yet.
OnlyGenerated ==
  /\ \A id \in NodeRunIds : run[id].ai # NoRun => Generated(run[id].ai)
  /\ \A r \in operation.runs : Generated(r)
  /\ \A k \in Coordinators : \A r \in coord[k].todo \cup coord[k].failed : Generated(r)

\* What a coordination has dealt with is no longer live, and a coordination that
\* would save the operation works on the operation as it is.
CoordinationsKnow ==
  \A k \in Coordinators :
    coord[k].busy /\ ~coord[k].stale =>
      /\ Unresolved
      /\ \A r \in operation.runs \ coord[k].todo : ai[r] # "live"

\* A live AI run somebody awaits is bound to an attempt that is not cancelled, or
\* is down to be stopped, or has lost its attempt to a second execution.
BoundOrStopped ==
  \A r \in AiRuns :
    ai[r] = "live" /\ phase # "runs" /\ job[r].pc = "await" =>
      \/ HasBinding(r)
      \/ r \in stop
      \/ Unresolved /\ r \in operation.runs
      \/ Rivals(r) # {}

StoppingInv == OnlyGenerated /\ CoordinationsKnow /\ BoundOrStopped

\* The binding of attempt id stays, and so does that it is not cancelled.
Stays(id) ==
  /\ run'[id].ai = run[id].ai
  /\ run'[id].status \notin {"cancelled", "none"}

\* Only four transactions cancel an attempt or take its AI run away.
LEMMA BindingStays ==
  ASSUME TypeOK, NEW id \in NodeRunIds, run[id].ai # NoRun,
         Status(id) \notin {"cancelled", "none"}
  PROVE  /\ UNCHANGED vars => Stays(id)
         /\ \A i \in NodeRunIds :
              /\ i # id /\ ReserveNode(i) => Stays(id)
              /\ \A q \in AiRuns : BindAiRun(i, q) => Stays(id)
              /\ WaitForUser(i) \/ FailRecovery(i) \/ InterruptNode(i) => Stays(id)
              /\ \A s \in {"failed", "cancelled"} : i # id /\ FinishNode(i, s) => Stays(id)
              /\ CompleteNode(i) \/ OpenQuestion(i) \/ ResolveQuestion(i) => Stays(id)
         /\ \A n \in Nodes :
              /\ PauseNode(n) \/ ResumeNode(n) \/ SkipNode(n) => Stays(id)
              /\ PrepareRetry(n) \/ RequeueInterrupted(n) => Stays(id)
              /\ Latest(n) # id /\ CancelNode(n) => Stays(id)
         /\ \A k : SetParallelism(k) => Stays(id)
         /\ ReconcileDispatches => Stays(id)
<1>t. /\ run \in [NodeRunIds -> RunRecord]
      /\ \A i \in NodeRunIds : Status(i) = "none" <=> i[2] > latest[i[1]]
      /\ \A n \in Nodes : Latest(n) \in NodeRunIds
  BY LatestRun DEF TypeOK
<1>r. run[id].status \notin {"cancelled", "none"} /\ run[id] \in RunRecord
  BY <1>t DEF Status
\* The three shapes of the writes.
<1>1. ASSUME NEW st, NEW runs \in [NodeRunIds -> RunRecord], run' = Activated(st, runs),
             runs[id].ai = run[id].ai, runs[id].status \notin {"cancelled", "none"}
      PROVE  Stays(id)
  BY <1>1 DEF Activated, Stays, RunRecord
<1>2. ASSUME NEW i \in NodeRunIds, NEW s, NEW a, run' = [run EXCEPT ![i] = [status |-> s, ai |-> a]],
             i = id => s \notin {"cancelled", "none"} /\ a = run[i].ai
      PROVE  Stays(id)
  BY <1>t, <1>r, <1>2 DEF Stays
<1>3. ASSUME NEW i \in NodeRunIds, NEW s \in RunStatus, i = id => s \notin {"cancelled", "none"}
      PROVE  LET runs == [run EXCEPT ![i].status = s]
             IN  /\ runs \in [NodeRunIds -> RunRecord]
                 /\ runs[id].ai = run[id].ai
                 /\ runs[id].status \notin {"cancelled", "none"}
  BY <1>t, <1>r, <1>3 DEF RunRecord
<1>4. ASSUME run' = run PROVE Stays(id)
  BY <1>r, <1>4 DEF Stays
<1>5. ASSUME NEW i \in NodeRunIds
      PROVE  /\ i # id /\ ReserveNode(i) => Stays(id)
             /\ \A q \in AiRuns : BindAiRun(i, q) => Stays(id)
             /\ WaitForUser(i) \/ FailRecovery(i) \/ InterruptNode(i) => Stays(id)
             /\ \A s \in {"failed", "cancelled"} : i # id /\ FinishNode(i, s) => Stays(id)
             /\ CompleteNode(i) \/ OpenQuestion(i) \/ ResolveQuestion(i) => Stays(id)
  <2>1. i # id /\ ReserveNode(i) => Stays(id)
    BY <1>2 DEF ReserveNode, Transition
  <2>2. ASSUME NEW q \in AiRuns, BindAiRun(i, q) PROVE Stays(id)
    BY <1>t, <1>r, <2>2 DEF BindAiRun, Stays, RunRecord
  <2>3. WaitForUser(i) \/ FailRecovery(i) \/ InterruptNode(i) => Stays(id)
    BY <1>2 DEF WaitForUser, FailRecovery, InterruptNode, Transition
  <2>4. ASSUME NEW s \in {"failed", "cancelled"}, i # id, FinishNode(i, s) PROVE Stays(id)
    <3>1. s \in RunStatus /\ run' = Activated(Finished(i[1], s), [run EXCEPT ![i].status = s])
      BY <2>4 DEF FinishNode, RunStatus, NodeStatus
    <3> QED BY <1>1, <1>3, <2>4, <3>1
  <2>5. ASSUME CompleteNode(i) PROVE Stays(id)
    <3>1. "completed" \in RunStatus
          /\ run' = Activated(Finished(i[1], "completed"), [run EXCEPT ![i].status = "completed"])
      BY <2>5 DEF CompleteNode, RunStatus, NodeStatus
    <3> QED BY <1>1, <1>3, <3>1
  <2>6. ASSUME OpenQuestion(i) \/ ResolveQuestion(i) PROVE Stays(id)
    <3>1. run' = run \/ run' = [run EXCEPT ![i].status = "waiting_user"]
      BY <2>6 DEF OpenQuestion, ResolveQuestion
    <3>2. "waiting_user" \in RunStatus
      BY DEF RunStatus, NodeStatus
    <3>3. ASSUME run' = [run EXCEPT ![i].status = "waiting_user"] PROVE Stays(id)
      BY <1>3, <3>2, <3>3 DEF Stays
    <3> QED BY <1>4, <3>1, <3>3
  <2> QED BY <2>1, <2>2, <2>3, <2>4, <2>5, <2>6
<1>6. ASSUME NEW n \in Nodes
      PROVE  /\ PauseNode(n) \/ ResumeNode(n) \/ SkipNode(n) => Stays(id)
             /\ PrepareRetry(n) \/ RequeueInterrupted(n) => Stays(id)
             /\ Latest(n) # id /\ CancelNode(n) => Stays(id)
  <2>1. PauseNode(n) \/ ResumeNode(n) => Stays(id)
    BY <1>t, <1>2 DEF PauseNode, ResumeNode, Transition
  <2>2. ASSUME SkipNode(n) PROVE Stays(id)
    <3>1. "skipped" \in RunStatus
          /\ run' = Activated(Finished(n, "skipped"), [run EXCEPT ![Latest(n)].status = "skipped"])
      BY <2>2 DEF SkipNode, RunStatus, NodeStatus
    <3> QED BY <1>t, <1>1, <1>3, <3>1
  <2>3. ASSUME PrepareRetry(n) PROVE Stays(id)
    <3>1. /\ latest[n] + 1 \in Attempts /\ latest[n] \in Nat
          /\ run' = [run EXCEPT ![<<n, latest[n] + 1>>] = [status |-> "ready", ai |-> NoRun]]
      BY <2>3, ExecutionAssumption DEF PrepareRetry, TypeOK, Attempts, ExecutionAssumption
    <3>2. <<n, latest[n] + 1>> \in NodeRunIds /\ Status(<<n, latest[n] + 1>>) = "none"
      BY <1>t, <3>1 DEF NodeRunIds
    <3> QED BY <1>2, <3>1, <3>2
  <2>4. RequeueInterrupted(n) => Stays(id)
    BY <1>4 DEF RequeueInterrupted
  <2>5. ASSUME Latest(n) # id, CancelNode(n) PROVE Stays(id)
    <3>1. "cancelled" \in RunStatus /\ run' = [run EXCEPT ![Latest(n)].status = "cancelled"]
      BY <2>5 DEF CancelNode, RunStatus, NodeStatus
    <3> QED BY <1>t, <1>3, <2>5, <3>1 DEF Stays
  <2> QED BY <2>1, <2>2, <2>3, <2>4, <2>5
<1>7. ASSUME NEW k, SetParallelism(k) PROVE Stays(id)
  <2>1. run' = Activated(Admit(node, k), run)
    BY <1>7 DEF SetParallelism
  <2> QED BY <1>t, <1>r, <1>1, <2>1
<1>8. ReconcileDispatches \/ UNCHANGED vars => Stays(id)
  BY <1>4 DEF ReconcileDispatches, vars
<1> QED BY <1>5, <1>6, <1>7, <1>8

\* A step of the engine that leaves AI run r live and awaited.
LEMMA BindingProceeds ==
  ASSUME EngineTypeOK, [EngineNext]_allVars, NEW r \in AiRuns, HasBinding(r),
         job[r].pc = "await", job'[r].pc = "await"
  PROVE  HasBinding(r)' \/ r \in stop' \/ (Rivals(r) # {})'
<1> DEFINE id == job[r].id
<1>j. /\ job \in JobTable /\ TypeOK /\ id \in NodeRunIds /\ r # NoRun
      /\ \A q \in AiRuns : job[q].id \in NodeRunIds
  BY ExecutionAssumption DEF EngineTypeOK, JobTable, ExecutionAssumption
<1>b. run[id].ai = r /\ run[id].ai # NoRun /\ Status(id) \notin {"cancelled", "none"}
  BY <1>j DEF HasBinding
<1>i. job'[r].id = id
  BY JobsStay
<1>h. Stays(id) => HasBinding(r)'
  BY <1>b, <1>i DEF Stays, HasBinding, Status
<1> HIDE DEF id
<1>1. ASSUME NEW q \in AiRuns, Execution(q)
      PROVE  HasBinding(r)' \/ (Rivals(r) # {})'
  <2>1. CASE q = r
    <3>1. Settle(r)
      BY <1>1, <2>1 DEF Execution, RouteFails, Reserve, Generate, Bind, Undo, Settle, Complete,
         WaitGate, SettleError, SettleFailed
    <3>2. PICK pc \in {"done", "complete", "fail"} : job' = At(r, pc)
      BY <3>1 DEF Settle
    <3>3. job'[r].pc = pc
      BY <1>j, <3>2, AtType DEF JobPc
    <3> QED BY <3>2, <3>3
  <2>2. CASE q # r /\ job[q].id = id
    <3>1. job[q].pc # "free"
      BY <1>1 DEF Execution, RouteFails, Reserve, Generate, Bind, Undo, Settle, Complete,
         WaitGate, SettleError, SettleFailed
    <3>2. job'[q].pc \notin {"free", "route"}
      BY <1>1, ExecutionWorks DEF Works, Reserved
    <3>3. job'[q].id = id
      BY <2>2, <3>1, JobsStay
    <3> QED BY <1>i, <2>2, <3>2, <3>3 DEF Rivals
  <2>3. CASE q # r /\ job[q].id # id
    <3>1. \/ UNCHANGED vars
          \/ ReserveNode(job[q].id) \/ BindAiRun(job[q].id, q)
          \/ FailRecovery(job[q].id) \/ FinishNode(job[q].id, "failed")
          \/ CompleteNode(job[q].id) \/ WaitForUser(job[q].id)
          \/ FinishNode(job[q].id, Outcome(q))
      BY <1>1 DEF Execution, RouteFails, Reserve, Generate, Bind, Undo, Settle, Complete,
         WaitGate, SettleError, SettleFailed, SettleFailure, Tx
    <3>2. Outcome(q) \in {"failed", "cancelled"}
      BY DEF Outcome
    <3>3. Stays(id)
      BY <1>j, <1>b, <2>3, <3>1, <3>2, BindingStays
    <3> QED BY <1>h, <3>3
  <2> QED BY <2>1, <2>2, <2>3
<1>2. ASSUME NEW q \in AiRuns, AiRunEnds(q) \/ CompletionDropped(q) \/ CancelRun(q)
      PROVE  HasBinding(r)'
  BY <1>h, <1>j, <1>b, <1>2, BindingStays DEF AiRunEnds, CompletionDropped, CancelRun
<1>3. CASE Worker
  <2>1. UNCHANGED vars
    BY <1>3 DEF Worker, ListDispatches, ReturnToWorker, EndPass, EndDrain, ProcessDispatch
  <2> QED BY <1>h, <1>j, <1>b, <2>1, BindingStays
<1>4. CASE User
  <2>1. ASSUME NEW n \in Nodes, Cancel(n) PROVE HasBinding(r)' \/ r \in stop'
    <3>1. CancelNode(n) /\ stop' = stop \cup ({run[Latest(n)].ai} \ {NoRun})
      BY <2>1 DEF Cancel, UserTx, Tx
    <3>2. CASE Latest(n) = id
      BY <1>j, <1>b, <3>1, <3>2
    <3>3. CASE Latest(n) # id
      BY <1>h, <1>j, <1>b, <3>1, <3>3, BindingStays
    <3> QED BY <3>2, <3>3
  <2>2. ASSUME NEW n \in Nodes, Start(n) \/ Pause(n) \/ Resume(n) \/ Skip(n) \/ Retry(n)
        PROVE  HasBinding(r)'
    <3>1. \/ UNCHANGED vars
          \/ PauseNode(n) \/ ResumeNode(n) \/ SkipNode(n) \/ PrepareRetry(n)
      BY <2>2 DEF Start, Pause, Resume, Skip, Retry, UserTx, Tx
    <3> QED BY <1>h, <1>j, <1>b, <3>1, BindingStays
  <2>3. ASSUME NEW i \in NodeRunIds, ResolveGate(i) \/ Ask(i) \/ Answer(i) \/ Reevaluate(i)
        PROVE  HasBinding(r)'
    <3>1. UNCHANGED vars \/ CompleteNode(i) \/ OpenQuestion(i) \/ ResolveQuestion(i)
      BY <2>3 DEF ResolveGate, Ask, Answer, Reevaluate, UserTx, Tx
    <3> QED BY <1>h, <1>j, <1>b, <3>1, BindingStays
  <2>4. ASSUME NEW k \in 1..MaxLimit, ChangeParallelism(k) PROVE HasBinding(r)'
    <3>1. SetParallelism(k)
      BY <2>4 DEF ChangeParallelism, UserTx, Tx
    <3> QED BY <1>h, <1>j, <1>b, <3>1, BindingStays
  <2> QED BY <1>4, <2>1, <2>2, <2>3, <2>4 DEF User
<1>5. CASE Recovery
  <2>1. \/ UNCHANGED vars \/ ReconcileDispatches
        \/ \E n \in Nodes : InterruptNode(Latest(n)) \/ RequeueInterrupted(n)
    BY <1>5 DEF Recovery, RecoverRuns, NextPhase, Reconcile, RecoverNode, RequeueNode, Tx
  <2>2. \A n \in Nodes : Latest(n) \in NodeRunIds
    BY <1>j, LatestRun
  <2> QED BY <1>h, <1>j, <1>b, <2>1, <2>2, BindingStays
<1>6. CASE Crash \/ UNCHANGED allVars
  <2>1. UNCHANGED vars
    BY <1>6 DEF Crash, allVars
  <2> QED BY <1>h, <1>j, <1>b, <2>1, BindingStays
<1> QED BY <1>1, <1>2, <1>3, <1>4, <1>5, <1>6 DEF EngineNext

LEMMA BindBinds ==
  ASSUME EngineTypeOK, NEW r \in AiRuns, Bind(r), job'[r].pc = "await"
  PROVE  HasBinding(r)'
<1>j. job \in JobTable /\ job[r].id \in NodeRunIds /\ run \in [NodeRunIds -> RunRecord]
  BY DEF EngineTypeOK, JobTable, TypeOK
<1>1. CASE BindAiRun(job[r].id, r) /\ job' = Conflicted(At(r, "await"))
  <2>1. At(r, "await") \in JobTable /\ At(r, "await")[r].id = job[r].id
    BY <1>j, AtType DEF JobPc
  <2>2. job'[r].id = job[r].id
    BY <1>1, <2>1, JobsType
  <2>3. run[job[r].id].status = "running" /\ run' = [run EXCEPT ![job[r].id].ai = r]
    BY <1>1 DEF BindAiRun, Status
  <2>4. run'[job[r].id].ai = r /\ run'[job[r].id].status = "running"
    BY <1>j, <2>3 DEF RunRecord
  <2> QED BY <2>2, <2>4 DEF HasBinding, Status
<1>2. CASE job' = At(r, "undo")
  BY <1>j, <1>2, AtType DEF JobPc
<1> QED BY <1>1, <1>2 DEF Bind, Tx

\* What is down to be stopped stays so until the AI run is no longer live.
LEMMA StopStays ==
  ASSUME EngineTypeOK, [EngineNext]_allVars, NEW r \in AiRuns, r \in stop,
         ai'[r] = "live", phase' # "runs"
  PROVE  r \in stop'
<1>1. ASSUME NEW q \in AiRuns,
             Execution(q) \/ AiRunEnds(q) \/ CompletionDropped(q) \/ CancelRun(q)
      PROVE  r \in stop'
  <2>1. CASE CancelRun(q)
    <3>1. r = q => ai'[r] # "live"
      BY <2>1 DEF CancelRun, EngineTypeOK
    <3> QED BY <2>1, <3>1 DEF CancelRun
  <2>2. CASE ~CancelRun(q)
    <3>1. stop' = stop
      BY <1>1, <2>2 DEF Execution, RouteFails, Reserve, Generate, Bind, Undo, Settle, Complete,
         WaitGate, SettleError, SettleFailed, AiRunEnds, CompletionDropped
    <3> QED BY <3>1
  <2> QED BY <2>1, <2>2
<1>2. CASE Worker
  BY <1>2 DEF Worker, ListDispatches, ReturnToWorker, EndPass, EndDrain, ProcessDispatch
<1>3. CASE User
  <2>1. stop \subseteq stop'
    BY <1>3 DEF User, Start, Pause, Resume, Cancel, Skip, Retry, ResolveGate, Ask, Answer,
       Reevaluate, ChangeParallelism
  <2> QED BY <2>1
<1>4. CASE Recovery
  BY <1>4 DEF Recovery, RecoverRuns, NextPhase, Reconcile, RecoverNode, RequeueNode
<1>5. ~Crash
  BY DEF Crash
<1>6. CASE UNCHANGED allVars
  BY <1>6 DEF allVars, engineVars
<1> QED BY <1>1, <1>2, <1>3, <1>4, <1>5, <1>6 DEF EngineNext

\* Only startup leaves the phase in which AI runs are recovered.
LEMMA StartupEndsRuns ==
  ASSUME EngineTypeOK, [EngineNext]_allVars, phase = "runs", phase' # "runs",
         NEW r \in AiRuns
  PROVE  ai'[r] # "live"
<1>1. ~AllProceed
  BY DEF AllProceed
<1>2. RecoverRuns
  BY <1>1, ExecutionProceeds, AiRunProceeds, WorkerProceeds, UserProceeds
  DEF EngineNext, Recovery, NextPhase, Reconcile, RecoverNode, RequeueNode, Crash, allVars,
      engineVars
<1> QED BY <1>2 DEF RecoverRuns, EngineTypeOK

LEMMA OnlyGeneratedBound ==
  ASSUME EngineTypeOK, [EngineNext]_allVars, NEW id \in NodeRunIds,
         run[id].ai # NoRun => Generated(run[id].ai)
  PROVE  (run[id].ai # NoRun => Generated(run[id].ai))'
<1>t. TypeOK /\ run \in [NodeRunIds -> RunRecord]
      /\ \A q \in AiRuns : job[q].id \in NodeRunIds
  BY DEF EngineTypeOK, TypeOK
<1>1. CASE run'[id].ai = run[id].ai /\ run[id].ai # NoRun
  <2>1. PICK r \in AiRuns : run[id].ai = r
    BY <1>t, <1>1 DEF RunRecord
  <2>2. Generated(r) /\ RunMoves(r)
    BY <1>1, <2>1, EngineRunMoves
  <2> QED BY <1>1, <2>1, <2>2 DEF RunMoves, Generated
<1>2. ASSUME NEW q \in AiRuns, Bind(q), BindAiRun(job[q].id, q), run'[id].ai # run[id].ai
      PROVE  Generated(run[id].ai)'
  <2>1. run'[id].ai = q
    BY <1>t, <1>2 DEF BindAiRun, RunRecord
  <2>2. job[q].pc = "bind" /\ RunMoves(q)
    BY <1>2, EngineRunMoves DEF Bind
  <2> QED BY <2>1, <2>2 DEF RunMoves, Generated
<1> QED BY <1>t, <1>1, <1>2, EngineBinds, OnlyBindBinds

\* What holds of AI runs and their executions survives a step that moves them.
LEMMA StoppingUnderEngine ==
  ASSUME RollbackTypeOK, StoppingInv, [EngineNext]_allVars,
         operation' = operation, coord' = coord \/ coord' = [k \in Coordinators |-> NoCoordination]
  PROVE  StoppingInv'
<1>t. /\ EngineTypeOK /\ job \in JobTable
      /\ operation.runs \subseteq AiRuns
      /\ \A k \in Coordinators : coord[k].todo \subseteq AiRuns /\ coord[k].failed \subseteq AiRuns
      /\ \A r \in AiRuns : job[r].id \in NodeRunIds
  BY DEF RollbackTypeOK, EngineTypeOK, JobTable, Operations, Coordinations
<1>m. \A r \in AiRuns : RunMoves(r)
  BY <1>t, EngineRunMoves
<1>n. \A r \in AiRuns : Generated(r) => Generated(r)' /\ (ai'[r] = "live" => ai[r] = "live")
  BY <1>m DEF RunMoves, Generated
<1>c. \A k \in Coordinators : coord'[k] = coord[k] \/ coord'[k] = NoCoordination
  BY DEF RollbackTypeOK
<1>1. OnlyGenerated'
  <2>1. \A id \in NodeRunIds : (run[id].ai # NoRun => Generated(run[id].ai))'
    BY <1>t, OnlyGeneratedBound DEF StoppingInv, OnlyGenerated
  <2>2. \A r \in operation.runs : Generated(r)'
    BY <1>t, <1>n DEF StoppingInv, OnlyGenerated
  <2>3. \A k \in Coordinators : \A r \in coord'[k].todo \cup coord'[k].failed : Generated(r)'
    <3>1. \A k \in Coordinators : \A r \in coord[k].todo \cup coord[k].failed : Generated(r)'
      BY <1>t, <1>n DEF StoppingInv, OnlyGenerated
    <3> QED BY <1>c, <3>1 DEF NoCoordination
  <2> QED BY <2>1, <2>2, <2>3 DEF OnlyGenerated
<1>2. CoordinationsKnow'
  <2> SUFFICES ASSUME NEW k \in Coordinators, coord'[k].busy, ~coord'[k].stale
               PROVE  Unresolved' /\ \A r \in operation'.runs \ coord'[k].todo : ai'[r] # "live"
    BY DEF CoordinationsKnow
  <2>1. coord'[k] = coord[k]
    BY <1>c DEF NoCoordination
  <2>2. Unresolved /\ \A r \in operation.runs \ coord[k].todo : ai[r] # "live"
    BY <2>1 DEF StoppingInv, CoordinationsKnow
  <2>3. \A r \in operation.runs : ai'[r] = "live" => ai[r] = "live"
    BY <1>t, <1>n DEF StoppingInv, OnlyGenerated
  <2> QED BY <2>1, <2>2, <2>3 DEF Unresolved
<1>3. BoundOrStopped'
  <2> SUFFICES ASSUME NEW r \in AiRuns, ai'[r] = "live", phase' # "runs", job'[r].pc = "await"
               PROVE  \/ HasBinding(r)'
                      \/ r \in stop'
                      \/ (Unresolved /\ r \in operation.runs)'
                      \/ (Rivals(r) # {})'
    BY DEF BoundOrStopped
  <2>1. CASE job[r].pc = "bind"
    <3>1. Bind(r)
      BY <1>t, <2>1, JobsStay
    <3> QED BY <1>t, <3>1, BindBinds
  <2>2. CASE job[r].pc = "await"
    <3>1. ai[r] = "live"
      BY <1>n, <2>2 DEF Generated
    <3>2. phase # "runs"
      BY <1>t, StartupEndsRuns
    <3>3. CASE HasBinding(r)
      BY <1>t, <2>2, <3>3, BindingProceeds
    <3>4. CASE r \in stop
      BY <1>t, <3>4, StopStays
    <3>5. CASE Unresolved /\ r \in operation.runs
      BY <3>5 DEF Unresolved
    <3>6. ASSUME NEW q \in Rivals(r) PROVE q \in Rivals(r)'
      <4>1. /\ q \in AiRuns \ {r} /\ job[q].id = job[r].id /\ job[q].pc \notin {"free", "route"}
            /\ RunMoves(q) /\ RunMoves(r)
        BY <1>m, <3>6 DEF Rivals
      <4> QED BY <2>2, <4>1 DEF RunMoves, Rivals
    <3> QED BY <2>2, <3>1, <3>2, <3>3, <3>4, <3>5, <3>6 DEF StoppingInv, BoundOrStopped
  <2>3. job[r].pc \in {"await", "bind"}
    BY <1>m DEF RunMoves
  <2> QED BY <2>1, <2>2, <2>3
<1> QED BY <1>1, <1>2, <1>3 DEF StoppingInv

\* A rollback writes down the AI runs of the attempts it cancels.
LEMMA StoppingUnderRollback ==
  ASSUME RollbackTypeOK, StoppingInv, NEW n \in Nodes, Rollback(n)
  PROVE  StoppingInv'
<1>t. /\ EngineTypeOK /\ TypeOK /\ job \in JobTable
      /\ run \in [NodeRunIds -> RunRecord]
      /\ RunsToCancel(n) \subseteq AiRuns /\ NoRun \notin AiRuns
      /\ OldAttempts(n) \subseteq NodeRunIds
      /\ \A r \in AiRuns : job[r].id \in NodeRunIds
      /\ coord \in [Coordinators -> Coordinations]
  BY RunsToCancelType, LatestRun, AffectedShape, ExecutionAssumption
  DEF RollbackTypeOK, EngineTypeOK, TypeOK, JobTable, OldAttempts, ExecutionAssumption
<1>s. /\ ~Unresolved /\ RollBackTo(n) /\ job' = Conflicted(job)
      /\ operation' = [status |-> "committed", runs |-> RunsToCancel(n), sync |-> TRUE]
      /\ coord' = Coordinating(RunsToCancel(n))
      /\ UNCHANGED <<ai, stop, phase>>
  BY DEF Rollback, Tx
<1>u. Unresolved' /\ operation'.runs = RunsToCancel(n)
  BY <1>s DEF Unresolved
<1>k. NextCoordinator \in Coordinators
  BY NextCoordinatorIsIdle DEF Rollback
<1>m. \A r \in AiRuns :
        /\ job'[r].id = job[r].id
        /\ \/ job'[r].pc = job[r].pc
           \/ job[r].pc = "complete" /\ job'[r].pc = "error"
  BY <1>t, <1>s, JobsType
<1>g. \A r \in AiRuns : Generated(r) => Generated(r)'
  BY <1>m DEF Generated
<1>w. \A r \in RunsToCancel(n) : r \in AiRuns /\ Generated(r)
  BY <1>t DEF RunsToCancel, StoppingInv, OnlyGenerated
<1>c. \A k \in Coordinators :
        \/ coord'[k] = coord[k] /\ k # NextCoordinator
        \/ coord'[k] = [NoCoordination EXCEPT !.busy = TRUE, !.todo = RunsToCancel(n)]
  BY <1>t, <1>s, <1>k DEF Coordinating
\* What the transaction makes of the attempts.
<1>r. \A id \in NodeRunIds :
        \/ /\ id \in OldAttempts(n)
           /\ run'[id] = [status |-> "cancelled", ai |-> NoRun]
        \/ Status(id) = "none" /\ run'[id].ai = NoRun
        \/ run'[id] = run[id]
  <2> TAKE id \in NodeRunIds
  <2>1. run' = Reattempted(n)
    BY <1>s DEF RollBackTo
  <2>2. CASE id \in OldAttempts(n) /\ Status(id) \in LocallyActive
    BY <2>1, <2>2 DEF Reattempted
  <2>3. CASE /\ ~(id \in OldAttempts(n) /\ Status(id) \in LocallyActive)
             /\ id[1] \in Affected(n) /\ id[2] = latest[id[1]] + 1
    <3>1. run'[id] = [status |-> NewStatus(n)[id[1]], ai |-> NoRun]
      BY <2>1, <2>3 DEF Reattempted
    <3>2. latest[id[1]] \in Nat /\ (Status(id) = "none" <=> id[2] > latest[id[1]])
      BY <1>t, ExecutionAssumption DEF TypeOK, NodeRunIds, Attempts, ExecutionAssumption
    <3>3. Status(id) = "none"
      BY <2>3, <3>2
    <3> QED BY <3>1, <3>3
  <2>4. CASE /\ ~(id \in OldAttempts(n) /\ Status(id) \in LocallyActive)
             /\ ~(id[1] \in Affected(n) /\ id[2] = latest[id[1]] + 1)
    BY <2>1, <2>4 DEF Reattempted
  <2> QED BY <2>2, <2>3, <2>4
<1>1. OnlyGenerated'
  <2>1. ASSUME NEW id \in NodeRunIds, run'[id].ai # NoRun PROVE Generated(run[id].ai)'
    <3>1. run'[id].ai = run[id].ai
      BY <1>r, <2>1
    <3>2. PICK r \in AiRuns : run[id].ai = r
      BY <1>t, <2>1, <3>1 DEF RunRecord
    <3>3. Generated(r)
      BY <1>t, <3>2 DEF StoppingInv, OnlyGenerated
    <3> QED BY <1>g, <3>1, <3>2, <3>3 DEF Generated
  <2>2. \A r \in operation'.runs : Generated(r)'
    BY <1>u, <1>g, <1>w
  <2>3. \A k \in Coordinators : \A r \in coord'[k].todo \cup coord'[k].failed : Generated(r)'
    <3>1. \A k \in Coordinators : \A r \in coord[k].todo \cup coord[k].failed :
            r \in AiRuns /\ Generated(r)
      BY <1>t DEF StoppingInv, OnlyGenerated, Coordinations
    <3> QED BY <1>c, <1>g, <1>w, <3>1 DEF NoCoordination
  <2> QED BY <2>1, <2>2, <2>3 DEF OnlyGenerated
<1>2. CoordinationsKnow'
  <2>1. \A k \in Coordinators : coord[k].busy => coord[k].stale
    BY <1>s DEF StoppingInv, CoordinationsKnow
  <2> QED BY <1>c, <1>u, <2>1 DEF CoordinationsKnow, NoCoordination
<1>3. BoundOrStopped'
  <2> SUFFICES ASSUME NEW r \in AiRuns, ai'[r] = "live", phase' # "runs", job'[r].pc = "await"
               PROVE  \/ HasBinding(r)'
                      \/ r \in stop'
                      \/ (Unresolved /\ r \in operation.runs)'
                      \/ (Rivals(r) # {})'
    BY DEF BoundOrStopped
  <2>1. ai[r] = "live" /\ phase # "runs" /\ job[r].pc = "await"
    BY <1>s, <1>m
  <2>2. CASE HasBinding(r)
    <3>1. run[job[r].id].ai = r /\ Status(job[r].id) # "none" /\ job[r].id \in NodeRunIds
          /\ Status(job[r].id) # "cancelled"
      BY <1>t, <2>2 DEF HasBinding
    <3>2. CASE job[r].id \in OldAttempts(n)
      <4>1. r \in RunsToCancel(n)
        BY <1>t, <3>1, <3>2 DEF RunsToCancel
      <4> QED BY <1>u, <4>1
    <3>3. CASE run'[job[r].id] = run[job[r].id]
      BY <1>m, <3>1, <3>3 DEF HasBinding, Status
    <3> QED BY <1>r, <3>1, <3>2, <3>3
  <2>3. CASE r \in stop
    BY <1>s, <2>3
  <2>4. ASSUME NEW q \in Rivals(r) PROVE q \in Rivals(r)'
    BY <1>m, <2>4 DEF Rivals
  <2> QED BY <1>s, <2>1, <2>2, <2>3, <2>4 DEF StoppingInv, BoundOrStopped
<1> QED BY <1>1, <1>2, <1>3 DEF StoppingInv

\* The coordination itself, and requests for it.
LEMMA StoppingUnderCoordination ==
  ASSUME RollbackTypeOK, StoppingInv, Coordination \/ Replay
  PROVE  StoppingInv'
<1>t. /\ EngineTypeOK /\ coord \in [Coordinators -> Coordinations]
      /\ operation \in Operations /\ ai \in [AiRuns -> AiStatus]
  BY DEF RollbackTypeOK, EngineTypeOK
<1>g. \A k \in Coordinators : coord[k].todo \subseteq AiRuns /\ coord[k].failed \subseteq AiRuns
  BY <1>t DEF Coordinations
<1> USE DEF Generated, HasBinding, Rivals, Status
\* A coordination that starts has everything before it.
<1>1. CASE RecoverPending \/ Replay
  <2>1. UNCHANGED <<allVars, operation>>
    BY <1>1 DEF RecoverPending, Replay
  <2>2. UNCHANGED <<run, ai, job, stop, phase, operation>>
    BY <2>1 DEF allVars, vars, engineVars
  <2>3. \/ coord' = coord
        \/ /\ Unresolved /\ coord' = Coordinating(operation.runs)
    BY <1>1 DEF RecoverPending, Replay, Recoverable
  <2>4. \A k \in Coordinators :
          \/ coord'[k] = coord[k]
          \/ /\ Unresolved
             /\ coord'[k] = [NoCoordination EXCEPT !.busy = TRUE, !.todo = operation.runs]
    BY <1>t, <2>3 DEF Coordinating
  <2>5. OnlyGenerated'
    BY <2>2, <2>4 DEF StoppingInv, OnlyGenerated, NoCoordination
  <2>6. CoordinationsKnow'
    BY <2>2, <2>4 DEF StoppingInv, CoordinationsKnow, NoCoordination, Unresolved
  <2>7. BoundOrStopped'
    BY <2>2 DEF StoppingInv, BoundOrStopped, Unresolved
  <2> QED BY <2>5, <2>6, <2>7 DEF StoppingInv
\* What it has dealt with is not live.
<1>2. ASSUME NEW k \in Coordinators, NEW r \in coord[k].todo, CancelRolledBack(k, r)
      PROVE  StoppingInv'
  <2>1. UNCHANGED <<run, job, stop, phase, operation>> /\ r \in AiRuns
    BY <1>g, <1>2 DEF CancelRolledBack, vars
  <2>2. /\ ai'[r] # "live"
        /\ \A q \in AiRuns : ai'[q] = "live" => ai[q] = "live"
    BY <1>t, <1>2, <2>1 DEF CancelRolledBack
  <2>3. /\ \A j \in Coordinators \ {k} : coord'[j] = coord[j]
        /\ coord'[k].busy = coord[k].busy /\ coord'[k].stale = coord[k].stale
        /\ coord'[k].todo = coord[k].todo \ {r}
        /\ coord'[k].failed \subseteq coord[k].failed \cup {r}
    BY <1>t, <1>2 DEF CancelRolledBack, Coordinations
  <2>4. OnlyGenerated'
    BY <2>1, <2>3 DEF StoppingInv, OnlyGenerated
  <2>5. operation.runs \subseteq AiRuns
    BY <1>t DEF Operations
  <2>6. CoordinationsKnow'
    BY <2>1, <2>2, <2>3, <2>5 DEF StoppingInv, CoordinationsKnow, Unresolved
  <2>7. BoundOrStopped'
    BY <2>1, <2>2 DEF StoppingInv, BoundOrStopped, Unresolved
  <2> QED BY <2>4, <2>6, <2>7 DEF StoppingInv
\* What is saved leaves out only what is no longer live.
<1>3. ASSUME NEW k \in Coordinators, Conclude(k) PROVE StoppingInv'
  <2>1. UNCHANGED allVars /\ coord[k].busy /\ coord[k].todo = {}
    BY <1>3 DEF Conclude
  <2>2. UNCHANGED <<run, ai, job, stop, phase>>
    BY <2>1 DEF allVars, vars, engineVars
  <2>3. CASE coord[k].stale
    <3>1. operation' = operation /\ \A j \in Coordinators :
            coord'[j] = coord[j] \/ coord'[j] = NoCoordination
      BY <1>t, <1>3, <2>3 DEF Conclude
    <3>2. OnlyGenerated'
      BY <2>2, <3>1 DEF StoppingInv, OnlyGenerated, NoCoordination
    <3>3. CoordinationsKnow'
      BY <2>2, <3>1 DEF StoppingInv, CoordinationsKnow, NoCoordination, Unresolved
    <3>4. BoundOrStopped'
      BY <2>2, <3>1 DEF StoppingInv, BoundOrStopped, Unresolved
    <3> QED BY <3>2, <3>3, <3>4 DEF StoppingInv
  <2>4. CASE ~coord[k].stale
    <3>1. operation'.runs = coord[k].failed
      BY <1>3, <2>4 DEF Conclude
    <3>2. \A j \in Coordinators :
            /\ coord'[j].busy => coord'[j].stale
            /\ coord'[j].todo \subseteq coord[j].todo
            /\ coord'[j].failed \subseteq coord[j].failed
      BY <1>t, <1>3, <2>4 DEF Conclude, NoCoordination, Coordinations
    <3>3. OnlyGenerated'
      BY <2>2, <3>1, <3>2 DEF StoppingInv, OnlyGenerated
    <3>4. CoordinationsKnow'
      BY <3>2 DEF CoordinationsKnow
    <3>5. \A r \in operation.runs : ai[r] # "live"
      BY <2>1, <2>4 DEF StoppingInv, CoordinationsKnow
    <3>6. BoundOrStopped'
      BY <2>2, <3>5 DEF StoppingInv, BoundOrStopped
    <3> QED BY <3>3, <3>4, <3>6 DEF StoppingInv
  <2> QED BY <2>3, <2>4
<1> QED BY <1>1, <1>2, <1>3 DEF Coordination

(* No AI run works on for an attempt that a rollback has cancelled, for    *)
(* any workflow and any number of executions, coordinations, rollbacks and *)
(* crashes: it is about to be stopped, or down in the operation that is    *)
(* coordinated again until it is, or a second execution had taken its      *)
(* attempt (rollback-workflow-to-node.ts:326-348,                          *)
(* coordinate-workflow-rollback.ts).                                       *)
THEOREM SupersededRunsAreStopped ==
  ASSUME Nodes # {}
  PROVE  RollbackSpec => []SupersededRunIsStopped
<1>1. RollbackInit => RunsAreOwned /\ StoppingInv
  BY DEF RollbackInit, EngineInit, Init, RunsAreOwned, StoppingInv, OnlyGenerated,
     CoordinationsKnow, BoundOrStopped, NoCoordination
<1>2. RollbackTypeOK /\ RunsAreOwned /\ StoppingInv /\ [RollbackNext]_everything
        => RunsAreOwned' /\ StoppingInv'
  <2> SUFFICES ASSUME RollbackTypeOK, RunsAreOwned, StoppingInv, [RollbackNext]_everything
               PROVE  RunsAreOwned' /\ StoppingInv'
    OBVIOUS
  <2>1. RunsAreOwned'
    BY OwnersSurvive
  <2>2. CASE EngineRuns \/ EngineRecovers \/ EngineCrash \/ UNCHANGED everything
    <3>1. /\ [EngineNext]_allVars /\ operation' = operation
          /\ coord' = coord \/ coord' = [k \in Coordinators |-> NoCoordination]
      BY <2>2 DEF EngineRuns, EngineRecovers, EngineCrash, EngineNext, InSession, everything,
         rollbackVars
    <3> QED BY <2>1, <3>1, StoppingUnderEngine
  <2> QED
    BY <2>1, <2>2, StoppingUnderCoordination, StoppingUnderRollback DEF RollbackNext
<1>3. RunsAreOwned /\ StoppingInv => SupersededRunIsStopped
  BY DEF RunsAreOwned, StoppingInv, BoundOrStopped, HasBinding, SupersededRunIsStopped
<1> QED BY <1>1, <1>2, <1>3, RollbackTypesCorrect, PTL DEF RollbackSpec

-----------------------------------------------------------------------------
(* The contract.                                                           *)

\* What a rollback to n must find for the contract to survive it: everything
\* before n done, and no superseded attempt of what it undoes still at work.
RollsBackInOrder(n) ==
  /\ \A m \in Preds(n) : node[m] \in DoneStatus
  /\ \A id \in NodeRunIds :
       id[1] \in Affected(n) /\ id[2] < latest[id[1]] => Status(id) \notin AtWork

\* The new attempts of the nodes that a rollback makes pending have not moved, and
\* the old ones are over.
LEMMA RollbackIsUndisturbed ==
  ASSUME TypeOK, Undisturbed, NEW n \in Nodes, RollBackTo(n), RollsBackInOrder(n)
  PROVE  Undisturbed'
<1> SUFFICES ASSUME NEW i \in NodeRunIds, node'[i[1]] = "pending"
             PROVE  /\ run'[i].status \notin AtWork
                    /\ i = Latest(i[1])' => run'[i].status = "pending"
  BY DEF Undisturbed, Status
<1>t. /\ i[1] \in Nodes /\ i[2] \in Nat /\ i = <<i[1], i[2]>>
      /\ latest[i[1]] \in Nat /\ run \in [NodeRunIds -> RunRecord]
      /\ Status(i) = "none" <=> i[2] > latest[i[1]]
  BY ExecutionAssumption DEF NodeRunIds, Attempts, TypeOK, ExecutionAssumption
<1>n. node' = NewStatus(n) /\ run' = Reattempted(n)
      /\ latest'[i[1]] = IF i[1] \in Affected(n) THEN latest[i[1]] + 1 ELSE latest[i[1]]
  BY <1>t DEF RollBackTo
<1>1. CASE i[1] \notin Affected(n)
  <2>1. node[i[1]] = "pending"
    BY <1>t, <1>n, <1>1, NewStatusShape
  <2>2. run'[i] = run[i] /\ latest'[i[1]] = latest[i[1]]
    BY <1>t, <1>n, <1>1 DEF Reattempted, OldAttempts, Latest
  <2> QED BY <2>1, <2>2 DEF Undisturbed, Status, Latest
<1>2. CASE i[1] \in Affected(n) /\ i[2] > latest[i[1]]
  <2>1. i \notin OldAttempts(n)
    BY <1>t, <1>2 DEF OldAttempts, Latest
  <2>2. CASE i[2] = latest[i[1]] + 1
    <3>1. run'[i].status = "pending"
      BY <1>t, <1>n, <1>2, <2>1, <2>2 DEF Reattempted
    <3> QED BY <3>1 DEF AtWork
  <2>3. CASE i[2] # latest[i[1]] + 1
    <3>1. run'[i] = run[i]
      BY <1>n, <2>1, <2>3 DEF Reattempted
    <3>2. i # Latest(i[1])'
      BY <1>t, <1>n, <1>2, <2>3 DEF Latest
    <3> QED BY <1>t, <1>2, <3>1, <3>2 DEF Status, AtWork
  <2> QED BY <2>2, <2>3
<1>3. CASE i[1] \in Affected(n) /\ i[2] = latest[i[1]]
  <2>1. i \in OldAttempts(n) /\ i # Latest(i[1])'
    BY <1>t, <1>n, <1>3 DEF OldAttempts, Latest
  <2>2. CASE Status(i) \in LocallyActive
    <3>1. run'[i].status = "cancelled"
      BY <1>n, <2>1, <2>2 DEF Reattempted
    <3> QED BY <2>1, <3>1 DEF AtWork
  <2>3. CASE Status(i) \notin LocallyActive
    <3>1. run'[i] = run[i]
      BY <1>t, <1>n, <1>3, <2>3 DEF Reattempted
    <3> QED BY <2>1, <2>3, <3>1 DEF Status, AtWork, LocallyActive, ActiveStatus
  <2> QED BY <2>2, <2>3
<1>4. CASE i[1] \in Affected(n) /\ i[2] < latest[i[1]]
  <2>1. i \notin OldAttempts(n) /\ i # Latest(i[1])' /\ i[2] # latest[i[1]] + 1
    BY <1>t, <1>n, <1>4 DEF OldAttempts, Latest
  <2>2. run'[i] = run[i]
    BY <1>n, <2>1 DEF Reattempted
  <2> QED BY <1>4, <2>1, <2>2 DEF RollsBackInOrder, Status
<1> QED BY <1>t, <1>1, <1>2, <1>3, <1>4

\* A step of the whole is a transaction of the aggregate, a rollback, or none of
\* the aggregate's business.
LEMMA RollbackTransactions ==
  ASSUME RollbackTypeOK, [RollbackNext]_everything
  PROVE  [Next]_vars \/ \E n \in Nodes : Rollback(n) /\ RollBackTo(n)
<1>1. EngineTypeOK
  BY DEF RollbackTypeOK
<1>2. CASE [EngineNext]_allVars
  BY <1>1, <1>2, EngineStepTypes
<1>3. ASSUME NEW k \in Coordinators, NEW r \in coord[k].todo, CancelRolledBack(k, r)
      PROVE  [Next]_vars
  BY <1>3 DEF CancelRolledBack
<1>4. ASSUME NEW n \in Nodes, Rollback(n) PROVE RollBackTo(n)
  BY <1>4 DEF Rollback, Tx
<1> QED BY <1>2, <1>3, <1>4, RollbackSteps

\* The inductive invariant behind the contract.
InOrder == Undisturbed /\ DependencyOrder /\ CompletedTogether

LEMMA InOrderStep ==
  ASSUME RollbackTypeOK, InOrder, [RollbackNext]_everything,
         \A n \in Nodes : Rollback(n) => RollsBackInOrder(n)
  PROVE  InOrder' /\ [Contract!Advance \/ Contract!Reopen]_(Contract!vars)
<1>t. TypeOK
  BY DEF RollbackTypeOK, EngineTypeOK
<1>1. CASE [Next]_vars
  <2>1. Undisturbed' /\ StepKind
    BY <1>t, <1>1, UndisturbedStep, KindOfStep DEF InOrder
  <2>2. DependencyOrder' /\ CompletedTogether'
    BY <1>t, <2>1, StepOfNodes, OrderStep, CompletedStep DEF InOrder
  <2>3. [Contract!Advance]_(Contract!vars)
    BY <1>t, <2>1, ContractStep DEF InOrder
  <2> QED BY <2>1, <2>2, <2>3 DEF InOrder
<1>2. ASSUME NEW n \in Nodes, Rollback(n), RollBackTo(n)
      PROVE  InOrder' /\ Contract!Reopen
  <2>1. RollsBackInOrder(n)
    BY <1>2
  <2>2. \A m \in Preds(n) : node[m] \in DoneStatus
    BY <2>1 DEF RollsBackInOrder
  <2>3. Undisturbed'
    BY <1>t, <1>2, <2>1, RollbackIsUndisturbed DEF InOrder
  <2>4. DependencyOrder' /\ CompletedTogether'
    BY <1>t, <1>2, <2>2, RollbackKeepsOrder DEF InOrder
  <2>5. Contract!Reopen
    BY <1>t, <1>2, <2>2, RollbackReopens
  <2> QED BY <2>3, <2>4, <2>5 DEF InOrder
<1> QED BY <1>1, <1>2, RollbackTransactions

(* The workflow with rollbacks implements the contract, for any workflow   *)
(* and any number of executions, attempts, coordinations and crashes, as   *)
(* long as each rollback finds what comes before its target done and the   *)
(* superseded attempts of what it undoes over: an attempt that is replaced *)
(* and goes on can be cancelled by its execution later, and takes the node *)
(* with it (rollback-workflow-to-node.ts, manage-node-execution.ts:202).   *)
THEOREM RollbacksInOrderKeepContract ==
  ASSUME Nodes # {}
  PROVE  RollbackSpec /\ [][\A n \in Nodes : Rollback(n) => RollsBackInOrder(n)]_everything
           => RollbackContractSpec /\ [](DependencyOrder /\ CompletedTogether)
<1> DEFINE Orderly == \A n \in Nodes : Rollback(n) => RollsBackInOrder(n)
<1>1. RollbackInit => InOrder /\ Contract!Init
  <2> SUFFICES ASSUME RollbackInit PROVE InOrder /\ Contract!Init
    OBVIOUS
  <2>1. Init
    BY DEF RollbackInit, EngineInit
  <2> QED BY <2>1, TypeInit, PendingInit, UntouchedIsUndisturbed, OrderInit, CompletedInit,
             ContractInit DEF InOrder
<1>2. RollbackTypeOK /\ InOrder /\ [RollbackNext]_everything /\ [Orderly]_everything
        => InOrder' /\ [Contract!Advance \/ Contract!Reopen]_(Contract!vars)
  <2> SUFFICES ASSUME RollbackTypeOK, InOrder, [RollbackNext]_everything, [Orderly]_everything
               PROVE  InOrder' /\ [Contract!Advance \/ Contract!Reopen]_(Contract!vars)
    OBVIOUS
  <2>1. CASE Orderly
    BY <2>1, InOrderStep
  <2>2. CASE UNCHANGED everything
    <3>1. UNCHANGED vars
      BY <2>2 DEF everything, allVars
    <3> QED
      BY <3>1 DEF vars, InOrder, Undisturbed, DependencyOrder, CompletedTogether, Status, Latest,
         Stage, Contract!vars
  <2> QED BY <2>1, <2>2
<1>3. InOrder => DependencyOrder /\ CompletedTogether
  BY DEF InOrder
<1> HIDE DEF Orderly
<1>4. RollbackSpec /\ [][Orderly]_everything
        => RollbackContractSpec /\ [](DependencyOrder /\ CompletedTogether)
  BY <1>1, <1>2, <1>3, RollbackTypesCorrect, PTL DEF RollbackSpec, RollbackContractSpec
<1> QED BY <1>4 DEF Orderly

\* Two attempts of a node at most, and only nodes without predecessors may be
\* skipped: then no rollback meets what RollsBackInOrder excludes.
AtMostTwoAttempts == MaxAttempt <= 2

SkipsFirst == \A n \in Skippable : Preds(n) = {}

LEMMA TwoAttemptsAreInOrder ==
  ASSUME AtMostTwoAttempts, SkipsFirst, TypeOK, DependencyOrder, SkippedMayBe,
         NEW n \in Nodes, RollBackTo(n)
  PROVE  RollsBackInOrder(n)
<1>1. \A m \in Preds(n) : node[m] \in DoneStatus
  <2>1. CASE node[n] = "skipped"
    BY <2>1 DEF SkippedMayBe, SkipsFirst
  <2>2. CASE node[n] # "skipped"
    BY <2>2 DEF RollBackTo, DependencyOrder
  <2> QED BY <2>1, <2>2
<1>2. ASSUME NEW id \in NodeRunIds, id[1] \in Affected(n)
      PROVE  ~(id[2] < latest[id[1]])
  <2>1. id[2] \in 1..MaxAttempt /\ latest[id[1]] \in 1..MaxAttempt /\ MaxAttempt \in Nat
    BY ExecutionAssumption DEF NodeRunIds, Attempts, TypeOK, ExecutionAssumption
  <2>2. latest[id[1]] < MaxAttempt
    BY <1>2 DEF RollBackTo
  <2> QED BY <2>1, <2>2 DEF AtMostTwoAttempts
<1> QED BY <1>1, <1>2 DEF RollsBackInOrder

LEMMA SkippedSurvive ==
  ASSUME RollbackTypeOK, SkippedMayBe, [RollbackNext]_everything
  PROVE  SkippedMayBe'
<1>t. TypeOK
  BY DEF RollbackTypeOK, EngineTypeOK
<1>1. CASE [Next]_vars
  BY <1>t, <1>1, SkippedStep
<1>2. ASSUME NEW n \in Nodes, RollBackTo(n)
      PROVE  SkippedMayBe'
  <2>1. /\ node'[n] # "skipped"
        /\ \A m \in Affected(n) \ {n} : node'[m] = "pending"
        /\ \A m \in Nodes \ Affected(n) : node'[m] = node[m]
    BY <1>t, <1>2, NewStatusShape DEF RollBackTo
  <2> QED BY <2>1 DEF SkippedMayBe
<1> QED BY <1>1, <1>2, RollbackTransactions

(* In particular it implements the contract when no node has more than two *)
(* attempts and what may be skipped comes first: whatever users,           *)
(* executions, AI runs, coordinations and crashes do, a node is opened     *)
(* only after what comes before it, and its work is undone only together   *)
(* with what comes after (rollback-workflow-to-node.ts,                    *)
(* docs/architecture.md:305).                                              *)
THEOREM TwoAttemptsKeepContract ==
  ASSUME Nodes # {}, AtMostTwoAttempts, SkipsFirst
  PROVE  RollbackSpec => RollbackContractSpec
<1>1. RollbackInit => InOrder /\ SkippedMayBe /\ Contract!Init
  <2> SUFFICES ASSUME RollbackInit PROVE InOrder /\ SkippedMayBe /\ Contract!Init
    OBVIOUS
  <2>1. Init
    BY DEF RollbackInit, EngineInit
  <2>2. \A n \in Nodes : node[n] \in {"pending", "ready"}
    BY <2>1 DEF Init, InstantiatedStatus, Admit
  <2> QED BY <2>1, <2>2, TypeInit, PendingInit, UntouchedIsUndisturbed, OrderInit, CompletedInit,
             ContractInit DEF InOrder, SkippedMayBe
<1>2. RollbackTypeOK /\ InOrder /\ SkippedMayBe /\ [RollbackNext]_everything
        => /\ InOrder' /\ SkippedMayBe'
           /\ [Contract!Advance \/ Contract!Reopen]_(Contract!vars)
  <2> SUFFICES ASSUME RollbackTypeOK, InOrder, SkippedMayBe, [RollbackNext]_everything
               PROVE  /\ InOrder' /\ SkippedMayBe'
                      /\ [Contract!Advance \/ Contract!Reopen]_(Contract!vars)
    OBVIOUS
  <2>1. TypeOK /\ DependencyOrder
    BY DEF RollbackTypeOK, EngineTypeOK, InOrder
  <2>2. \A n \in Nodes : Rollback(n) => RollsBackInOrder(n)
    BY <2>1, TwoAttemptsAreInOrder DEF Rollback, Tx
  <2> QED BY <2>2, InOrderStep, SkippedSurvive
<1> QED BY <1>1, <1>2, RollbackTypesCorrect, PTL DEF RollbackSpec, RollbackContractSpec

=============================================================================
