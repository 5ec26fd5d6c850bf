-------------------------- MODULE WorkflowRollback --------------------------
(***************************************************************************)
(* WorkflowEngine with RollbackWorkflowToNodeUseCase: the user takes a     *)
(* requirement back to a node that has run.  One transaction gives the     *)
(* node and everything after it a new attempt; what cannot be part of a    *)
(* transaction, the cancellation of AI runs and the synchronization of     *)
(* knowledge, is written down in an operation and coordinated afterwards,  *)
(* again by a repeated request, and again at startup.                      *)
(***************************************************************************)
EXTENDS WorkflowEngine

CONSTANT Coordinators   \* calls of CoordinateWorkflowRollbackUseCase

VARIABLES
  operation,  \* the execution's latest WorkflowRollbackOperation
  coord,      \* each Coordinator: busy, AI runs to cancel, those that failed
  gateway,    \* AI runs registered with DshAiRunGateway in this session
  resumed     \* has RecoverPendingWorkflowRollbacksUseCase begun?

rollbackVars == <<operation, coord, gateway, resumed>>
everything == <<allVars, rollbackVars>>

Operations == [status : {"none", "committed", "coordination_pending", "completed"},
               runs : SUBSET AiRuns, sync : BOOLEAN]
Coordinations == [busy : BOOLEAN, todo : SUBSET AiRuns,
                  failed : SUBSET AiRuns, stale : BOOLEAN]

NoCoordination == [busy |-> FALSE, todo |-> {}, failed |-> {}, stale |-> FALSE]

\* Any idle one serves for the next call.
IdleCoordinators == {k \in Coordinators : ~coord[k].busy}
NextCoordinator == CHOOSE k \in IdleCoordinators : TRUE

\* listPending: operations not yet completed.
Unresolved == operation.status \in {"committed", "coordination_pending"}

-----------------------------------------------------------------------------
(* The rollback's transaction.                                             *)

\* LOCALLY_ACTIVE_NODE_RUN_STATUSES.
LocallyActive == ActiveStatus \cup {"pending"}

\* reopenForRollback: also a completed execution becomes running again.
Reopens == exec \in {"running", "completed"} \/ <<exec, "running">> \in ExecutionTransitions

OldAttempts(n) == {Latest(m) : m \in Affected(n)}

\* Mutant of RunsToCancel: read after the transitions have cleared them.
RunsToCancelCleared(n) ==
  {run[id].ai : id \in {i \in OldAttempts(n) : Status(i) \notin LocallyActive}} \ {NoRun}

\* pendingAiRunIds: the AI runs of the old attempts, ended or not.
RunsToCancel(n) == {run[id].ai : id \in OldAttempts(n)} \ {NoRun}

\* Mutant of NewStatus: what follows the target keeps its status.
NewStatusAlone(n) == [node EXCEPT ![n] = RolledBack(node, limit, n)[n]]

NewStatus(n) == RolledBack(node, limit, n)

\* Mutant of Reattempted: the new attempts are saved under the old numbers.
ReattemptedInPlace(n) ==
  [id \in NodeRunIds |->
     IF id \in OldAttempts(n) THEN [status |-> NewStatus(n)[id[1]], ai |-> NoRun]
     ELSE run[id]]

\* The old attempts that had not ended are cancelled and lose their AI run; each
\* affected node gets a new attempt.
Reattempted(n) ==
  [id \in NodeRunIds |->
     IF id \in OldAttempts(n) /\ Status(id) \in LocallyActive
     THEN [status |-> "cancelled", ai |-> NoRun]
     ELSE IF id[1] \in Affected(n) /\ id[2] = latest[id[1]] + 1
     THEN [status |-> NewStatus(n)[id[1]], ai |-> NoRun]
     ELSE run[id]]

Reopened == IF req = "completed" THEN "active" ELSE req

RollBackTo(n) ==
  /\ node[n] \notin {"pending", "ready"}
  /\ Reopens
  /\ \A m \in Affected(n) : latest[m] < MaxAttempt
  /\ node' = NewStatus(n)
  /\ exec' = "running"
  /\ current' = n
  /\ req' = Reopened
  /\ run' = Reattempted(n)
  /\ latest' = [m \in Nodes |-> IF m \in Affected(n) THEN latest[m] + 1 ELSE latest[m]]
  /\ auto' = auto \cup {<<m, latest[m] + 1>> :
                          m \in {m \in {n} \cap Executable : NewStatus(n)[m] = "ready"}}
  /\ recov' = StillCurrent
  /\ UNCHANGED <<limit, asked>>

-----------------------------------------------------------------------------
(* Coordination.                                                           *)

Coordinating(runs) ==
  [coord EXCEPT ![NextCoordinator] = [NoCoordination EXCEPT !.busy = TRUE, !.todo = runs]]

\* execute, a new request: commit, then coordinate.  Nobody asks for a drain.
Rollback(n) ==
  /\ phase = "up" /\ IdleCoordinators # {}
  /\ ~Unresolved
  /\ Tx(RollBackTo(n), job)
  /\ operation' = [status |-> "committed", runs |-> RunsToCancel(n), sync |-> TRUE]
  /\ coord' = Coordinating(RunsToCancel(n))
  /\ UNCHANGED <<ai, worker, stop, answered, phase, gateway, resumed>>

\* execute, a request that was made before: coordinate an unresolved operation.
Replay ==
  /\ phase = "up" /\ IdleCoordinators # {}
  /\ Unresolved
  /\ coord' = Coordinating(operation.runs)
  /\ UNCHANGED <<allVars, operation, gateway, resumed>>

\* Mutant of Recoverable: only operations whose coordination had failed.
RecoverableFailed == operation.status = "coordination_pending"

Recoverable == Unresolved

\* RecoverPendingWorkflowRollbacksUseCase, the first step of startup here.
RecoverPending ==
  /\ phase = "runs" /\ ~resumed
  /\ resumed' = TRUE
  /\ coord' = IF Recoverable THEN Coordinating(operation.runs) ELSE coord
  /\ UNCHANGED <<allVars, operation, gateway>>

\* CancelAiRunUseCase with forceProvider: a run that has ended is cancelled at
\* the provider, too.  A run the gateway does not know cannot be cancelled: it
\* fails, if it had not ended, and stays pending.
CancelRolledBack(k, r) ==
  /\ coord[k].busy /\ r \in coord[k].todo
  /\ coord' = [coord EXCEPT ![k].todo = @ \ {r},
                            ![k].failed = IF r \in gateway THEN @ ELSE @ \cup {r}]
  /\ ai' = [ai EXCEPT ![r] = IF @ \notin {"live", "cancelling"} THEN @
                             ELSE IF r \in gateway THEN "cancelling" ELSE "failed"]
  /\ UNCHANGED <<vars, job, served, worker, stop, answered, phase, crashes,
                 operation, gateway, resumed>>

\* The knowledge is synchronized or not, and the operation saved unless another
\* coordination has saved it in between (its revision has changed).
Conclude(k) ==
  /\ coord[k].busy /\ coord[k].todo = {}
  /\ \/ /\ ~coord[k].stale
        /\ \E failed \in {FALSE, operation.sync} :
             operation' = [status |-> IF coord[k].failed # {} \/ failed
                                      THEN "coordination_pending" ELSE "completed",
                           runs |-> coord[k].failed, sync |-> failed]
        /\ coord' = [j \in Coordinators |->
                       IF j = k \/ ~coord[j].busy THEN NoCoordination
                       ELSE [coord[j] EXCEPT !.stale = TRUE]]
     \/ /\ coord[k].stale
        /\ coord' = [coord EXCEPT ![k] = NoCoordination]
        /\ UNCHANGED operation
  /\ UNCHANGED <<allVars, gateway, resumed>>

Coordination ==
  \/ RecoverPending
  \/ \E k \in Coordinators :
       \/ \E r \in coord[k].todo : CancelRolledBack(k, r)
       \/ Conclude(k)

-----------------------------------------------------------------------------
(* The steps of WorkflowEngine: startup looks at AI runs after the         *)
(* operations, and the gateway knows the runs it has created since.        *)

Created == {r \in AiRuns : ai[r] = "none" /\ ai'[r] = "live"}

InSession ==
  /\ gateway' = gateway \cup Created
  /\ UNCHANGED <<operation, coord, resumed>>

EngineRecovers ==
  /\ phase = "runs" => resumed /\ IdleCoordinators = Coordinators
  /\ Recovery
  /\ InSession

EngineCrash ==
  /\ Crash
  /\ coord' = [k \in Coordinators |-> NoCoordination]
  /\ gateway' = {}
  /\ resumed' = FALSE
  /\ UNCHANGED operation

EngineRuns ==
  /\ \/ Worker
     \/ User
     \/ \E r \in AiRuns :
          Execution(r) \/ AiRunEnds(r) \/ CompletionDropped(r) \/ CancelRun(r)
  /\ InSession

RollbackInit ==
  /\ EngineInit
  /\ operation = [status |-> "none", runs |-> {}, sync |-> FALSE]
  /\ coord = [k \in Coordinators |-> NoCoordination]
  /\ gateway = {}
  /\ resumed = TRUE

RollbackNext ==
  \/ EngineRuns
  \/ EngineRecovers
  \/ EngineCrash
  \/ Coordination
  \/ Replay
  \/ \E n \in Nodes : Rollback(n)

RollbackSpec == RollbackInit /\ [][RollbackNext]_everything

\* What the process does of itself, between two awaits.
Process ==
  \/ Coordination
  \/ EngineRecovers
  \/ /\ Worker \/ \E r \in AiRuns : Execution(r)
     /\ InSession

\* As long as the process has something to do it does something of it.  Nothing
\* is assumed of users, of the model gateway (AiRunEnds) or of crashes.
FairRollbackSpec == RollbackSpec /\ WF_everything(Process)

-----------------------------------------------------------------------------

(* Every variable has its type.                                            *)
RollbackTypeOK ==
  /\ EngineTypeOK
  /\ operation \in Operations
  /\ coord \in [Coordinators -> Coordinations]
  /\ gateway \subseteq AiRuns
  /\ resumed \in BOOLEAN

\* Second executions of the attempt that AI run r works for, past their reservation.
Rivals(r) ==
  {q \in AiRuns \ {r} : job[q].id = job[r].id /\ job[q].pc \notin {"free", "route"}}

(* A rollback leaves no AI run working for an attempt it has cancelled:    *)
(* the execution that created it is about to cancel it, or                 *)
(* a command, or the unresolved operation has it down to be cancelled, in  *)
(* this session or, as any live run, at the next startup                   *)
(* (rollback-workflow-to-node.ts:326-348).  The exception is an attempt    *)
(* that a second start has reserved: reserveNode clears the AI run of the  *)
(* first, which no rollback finds then (manage-node-execution.ts:121).     *)
SupersededRunIsStopped ==
  \A r \in AiRuns :
    /\ ai[r] = "live"
    /\ job[r].id # Latest(job[r].id[1])
    /\ Status(job[r].id) = "cancelled"
    => \/ phase = "runs"
       \/ job[r].pc \in {"bind", "undo"}
       \/ r \in stop
       \/ Unresolved /\ r \in operation.runs
       \/ Rivals(r) # {}

(* A rollback that is committed is coordinated, by the call that made it   *)
(* or, when the process dies first, at the next startup                    *)
(* (docs/architecture.md:307, recover-workflows.ts:26-50).                 *)
RollbackIsCoordinated ==
  operation.status = "committed" ~> operation.status # "committed"

(* The aggregate with rollbacks: no node is opened before what comes       *)
(* before it is done, and work is only undone together with everything     *)
(* after it (docs/architecture.md:305).                                    *)
RollbackContractSpec == Contract!Init /\ [][Contract!Advance \/ Contract!Reopen]_(Contract!vars)

(* Startup ends: the coordination of what was rolled back, the recovery,   *)
(* the two drains and the reconciliation between them come to an end       *)
(* without the user or the model gateway, even when dispatches keep        *)
(* failing (main.ts:3746-3875).                                            *)
StartupEnds == phase # "up" ~> phase = "up"

=============================================================================
