--------------------------- MODULE NodeExecution ---------------------------
(***************************************************************************)
(* The workflow aggregate of one requirement and the transactions on it.   *)
(*                                                                         *)
(* One action per transaction of ManageNodeExecutionUseCase (reserve,      *)
(* bind, wait, finish, pause, resume, interrupt, cancel, skip, retry,      *)
(* complete), of SetWorkflowParallelismUseCase, of                         *)
(* ManageNodeQuestionsUseCase and of the reconciliation of dispatches.     *)
(* Each is one SQLite transaction: it commits as a whole or throws and     *)
(* leaves no trace, so an action stands for the commit and its guard for   *)
(* every check that could have thrown.  The module is open: any            *)
(* transaction may arrive at any time.  WorkflowEngine says who sends      *)
(* them.                                                                   *)
(*                                                                         *)
(* A user command carries the revisions the user saw and is refused when   *)
(* they are stale; a fresh one is the only kind that commits, so revisions *)
(* do not appear here.                                                     *)
(***************************************************************************)
EXTENDS WorkflowGraph

CONSTANTS
  Skippable,     \* nodes whose configuration allows skipping
  RetryLimit,    \* configuration.retry.maxAttempts of each node
  MaxLimit,      \* bound on maxParallelism (8 in the code)
  MaxAttempt,    \* bound on the attempts of a node (unbounded in the code)
  AiRuns,        \* ids of AI runs
  NoRun,         \* no AI run
  NoNode         \* no focused node

ASSUME ExecutionAssumption ==
  /\ Skippable \subseteq Nodes
  /\ MaxLimit \in Nat \ {0}
  /\ MaxAttempt \in Nat \ {0}
  /\ RetryLimit \in [Nodes -> Nat]
  /\ NoRun \notin AiRuns
  /\ NoNode \notin Nodes

VARIABLES
  node,     \* RequirementWorkflow.nodes: the status of each node
  limit,    \* RequirementWorkflow.maxParallelism
  exec,     \* WorkflowExecution.status
  current,  \* WorkflowExecution.currentNodeId
  req,      \* Requirement.status
  latest,   \* the attempt number of each node's latest NodeRun
  run,      \* the NodeRuns: status ("none" before it is created) and AI run
  asked,    \* NodeRuns with an open required question
  auto,     \* NodeRuns with an automatic dispatch (id <execution>:auto:<run>)
  recov     \* NodeRuns with a recovery dispatch for their present revision

vars == <<node, limit, exec, current, req, latest, run, asked, auto, recov>>

Attempts   == 1..MaxAttempt
NodeRunIds == Nodes \X Attempts
RunStatus  == NodeStatus \cup {"none"}
RunRecord  == [status : RunStatus, ai : AiRuns \cup {NoRun}]

Latest(n) == <<n, latest[n]>>
Status(id) == run[id].status

-----------------------------------------------------------------------------
(* What the transactions share.                                            *)

\* updateExecution: a changed status goes through the transition table, an
\* unchanged one through updateCurrentNode, which throws unless running.
ExecAccepts(from, to) ==
  IF from = to THEN from = "running" ELSE <<from, to>> \in ExecutionTransitions

\* Mutant of Admitted: every ready node is activated, admitted or not.
AdmittedOrNot(st) == ReadyNodes(st)

\* The nodes a transaction admits (activateReadyNodeRuns).
Admitted(st) == {n \in Nodes : node[n] = "pending" /\ st[n] = "ready"}

CanActivate(st) ==
  \A n \in Admitted(st) : Status(Latest(n)) \in {"pending", "ready"}

\* The latest NodeRuns of the admitted nodes become ready.
Activated(st, runs) ==
  [id \in NodeRunIds |->
     IF id[1] \in Admitted(st) /\ id = Latest(id[1])
     THEN [runs[id] EXCEPT !.status = "ready"]
     ELSE runs[id]]

\* The automatic dispatches enqueued with them (INSERT OR IGNORE by id).
Dispatched(st) == auto \cup {Latest(n) : n \in Admitted(st) \cap Executable}

\* A recovery dispatch names the NodeRun's revision: writing the NodeRun
\* leaves the old dispatch without effect.
StillCurrent == {id \in recov : run'[id] = run[id]}

\* getWorkflowExecutionProjection(...).focusedNodeId: the first active node, or
\* else the first that is not done.
Focus(st) ==
  LET open       == {n \in Nodes : st[n] \notin DoneStatus}
      candidates == IF Active(st) # {} THEN Active(st) ELSE open
  IN  IF candidates = {} THEN NoNode
      ELSE CHOOSE n \in candidates : \A m \in candidates : Order[n] <= Order[m]

\* Mutant of Commit: an execution that waits goes on waiting.
CommitWaiting(st) ==
  /\ node' = st
  /\ ExecAccepts(exec, Projection(st))
  /\ exec' = IF exec = "waiting_user" THEN exec ELSE Projection(st)
  /\ current' = Focus(st)

\* The writes that end the transactions: the workflow, and the execution
\* brought to the projection of the new workflow.
Commit(st) ==
  /\ node' = st
  /\ ExecAccepts(exec, Projection(st))
  /\ exec' = Projection(st)
  /\ current' = Focus(st)

\* Mutant of Finished: the freed slot is not given to the next node.
FinishedAlone(n, s) == [node EXCEPT ![n] = s]

\* The workflow after a node ends (WorkflowRuntime.finishNode, completeNode and
\* skipNode).
Finished(n, s) == Admit([node EXCEPT ![n] = s], limit)

\* Mutant of RequirementAfter: the last node does not complete the requirement.
RequirementKept(st) == req

\* completeRequirement.
RequirementAfter(st) == IF AllDone(st) THEN "completed" ELSE req

-----------------------------------------------------------------------------

Init ==
  /\ node = InstantiatedStatus
  /\ limit = 1
  /\ exec = "created"
  /\ current = Focus(InstantiatedStatus)
  /\ req = "pending"
  /\ latest = [n \in Nodes |-> 1]
  /\ run = [id \in NodeRunIds |->
              [status |-> IF id[2] = 1 THEN InstantiatedStatus[id[1]] ELSE "none",
               ai |-> NoRun]]
  /\ asked = {}
  /\ auto = {}
  /\ recov = {}

\* What makes transitionCurrentExecution commit instead of throwing.
CanTransition(id, from, to) ==
  /\ Status(id) \in from
  /\ CanMove(Status(id), to)
  /\ CanMove(node[id[1]], to)
  /\ ExecAccepts(exec, Projection([node EXCEPT ![id[1]] = to]))

\* transitionCurrentExecution without activation: the node and its NodeRun
\* change status together, and nothing is admitted.
Transition(id, from, to, ai) ==
  /\ CanTransition(id, from, to)
  /\ Commit([node EXCEPT ![id[1]] = to])
  /\ run' = [run EXCEPT ![id] = [status |-> to, ai |-> ai]]
  /\ UNCHANGED <<limit, latest, asked, auto>>

\* Mutant of ReserveNode: the first start does not make the requirement active.
ReserveNodeAlone(id) ==
  /\ Transition(id, {"ready", "waiting_user", "interrupted", "failed", "cancelled"},
                "running", NoRun)
  /\ recov' = StillCurrent
  /\ UNCHANGED req

\* reserveNode.  Any attempt may be reserved: the code does not ask whether
\* it is the latest.  Reserving clears the AI run of an earlier start.
ReserveNode(id) ==
  /\ Transition(id, {"ready", "waiting_user", "interrupted", "failed", "cancelled"},
                "running", NoRun)
  /\ req' = IF req = "pending" THEN "active" ELSE req
  /\ recov' = StillCurrent

\* bindAiRun.
BindAiRun(id, r) ==
  /\ Status(id) = "running"
  /\ run[id].ai \in {NoRun, r}
  /\ run' = [run EXCEPT ![id].ai = r]
  /\ recov' = StillCurrent
  /\ UNCHANGED <<node, limit, exec, current, req, latest, asked, auto>>

\* waitForUser.
WaitForUser(id) ==
  /\ Transition(id, {"running"}, "waiting_user", run[id].ai)
  /\ recov' = StillCurrent
  /\ UNCHANGED req

\* failRecovery: the start of a recovered NodeRun failed.
FailRecovery(id) ==
  /\ Transition(id, {"running"}, "interrupted", run[id].ai)
  /\ recov' = StillCurrent
  /\ UNCHANGED req

\* interruptNode: startup finds a NodeRun that was running, and enqueues its
\* recovery for the revision just written.
InterruptNode(id) ==
  /\ Transition(id, {"running"}, "interrupted", run[id].ai)
  /\ recov' = StillCurrent \cup {id}
  /\ UNCHANGED req

\* What makes finishNode commit instead of throwing.
CanFinish(id, s) ==
  LET st == Finished(id[1], s)
  IN  /\ Status(id) \in {"ready", "running", "waiting_user", "interrupted"}
      /\ CanMove(Status(id), s)
      /\ CanMove(node[id[1]], s)
      /\ CanActivate(st)
      /\ ExecAccepts(exec, Projection(st))

\* finishNode with status failed or cancelled, which frees a slot.
FinishNode(id, s) ==
  LET st == Finished(id[1], s)
  IN  /\ CanFinish(id, s)
      /\ Commit(st)
      /\ run' = Activated(st, [run EXCEPT ![id].status = s])
      /\ auto' = Dispatched(st)
      /\ recov' = StillCurrent
      /\ UNCHANGED <<limit, req, latest, asked>>

\* pauseNode, resumeNode: user commands on the latest attempt.
PauseNode(n) ==
  /\ Transition(Latest(n), {"running", "ready"}, "paused", run[Latest(n)].ai)
  /\ recov' = StillCurrent
  /\ UNCHANGED req

ResumeNode(n) ==
  /\ Transition(Latest(n), {"paused"}, "ready", run[Latest(n)].ai)
  /\ recov' = StillCurrent
  /\ UNCHANGED req

\* cancelNode: a user command on the latest attempt.  The workflow admits the
\* nodes that take the free slot, but changeExecutionStatus does not activate
\* their NodeRuns and enqueues nothing.
CancelNode(n) ==
  /\ Status(Latest(n)) \in {"ready", "running", "waiting_user", "blocked",
                            "paused", "failed", "interrupted"}
  /\ CanMove(Status(Latest(n)), "cancelled")
  /\ CanMove(node[n], "cancelled")
  /\ Commit(Finished(n, "cancelled"))
  /\ run' = [run EXCEPT ![Latest(n)].status = "cancelled"]
  /\ recov' = StillCurrent
  /\ UNCHANGED <<limit, req, latest, asked, auto>>

\* completeNodeInTransaction, from settling, from a resolved gate (a NodeRun
\* that is ready, running or waiting_user) or from an answered question.
\* An open required question blocks completion; the other gates (artifacts,
\* todos, approval) are the environment's choice.
CompleteNode(id) ==
  LET st == Finished(id[1], "completed")
  IN  /\ Status(id) \in {"ready", "running", "waiting_user"}
      /\ id \notin asked
      /\ CanMove(node[id[1]], "completed")
      /\ AllDone(st) \/ CanActivate(st)
      /\ Commit(st)
      /\ run' = Activated(st, [run EXCEPT ![id].status = "completed"])
      /\ auto' = Dispatched(st)
      /\ req' = RequirementAfter(st)
      /\ recov' = StillCurrent
      /\ UNCHANGED <<limit, latest, asked>>

\* skipNode: a user command on the latest attempt.  Skipping the last open
\* node of an execution that never ran takes it through running first.
SkipNode(n) ==
  LET st    == Finished(n, "skipped")
      from  == IF AllDone(st) /\ exec = "created" THEN "running" ELSE exec
  IN  /\ n \in Skippable
      /\ Status(Latest(n)) \in {"pending", "ready"}
      /\ CanMove(node[n], "skipped")
      /\ AllDone(st) \/ CanActivate(st)
      /\ node' = st
      /\ ExecAccepts(from, Projection(st))
      /\ exec' = Projection(st)
      /\ current' = Focus(st)
      /\ run' = Activated(st, [run EXCEPT ![Latest(n)].status = "skipped"])
      /\ auto' = Dispatched(st)
      /\ req' = RequirementAfter(st)
      /\ recov' = StillCurrent
      /\ UNCHANGED <<limit, latest, asked>>

\* Mutant of PrepareRetry: the new attempt is saved under the old number.
PrepareRetryUnnumbered(n) ==
  /\ n \in Executable
  /\ Status(Latest(n)) \in {"failed", "cancelled", "interrupted"}
  /\ latest[n] + 1 <= RetryLimit[n]
  /\ latest[n] + 1 <= MaxAttempt
  /\ run' = [run EXCEPT ![<<n, latest[n] + 1>>] = [status |-> "ready", ai |-> NoRun]]
  /\ UNCHANGED <<node, limit, exec, current, req, latest, asked, auto, recov>>

\* prepareRetry: a new attempt, ready to be reserved.  The workflow and the
\* execution keep their statuses until it is.  (The command also refuses nodes
\* of type tool, which the model does not tell from ai_generate.)
PrepareRetry(n) ==
  /\ n \in Executable
  /\ Status(Latest(n)) \in {"failed", "cancelled", "interrupted"}
  /\ latest[n] + 1 <= RetryLimit[n]
  /\ latest[n] + 1 <= MaxAttempt
  /\ latest' = [latest EXCEPT ![n] = @ + 1]
  /\ run' = [run EXCEPT ![<<n, latest[n] + 1>>] = [status |-> "ready", ai |-> NoRun]]
  /\ UNCHANGED <<node, limit, exec, current, req, asked, auto, recov>>

\* SetWorkflowParallelismUseCase: a raised limit admits nodes at once.  The
\* execution is written only if its status or its current node changes.
SetParallelism(k) ==
  LET st == Admit(node, k)
  IN  /\ k # limit
      /\ exec \notin {"completed", "cancelled"}
      /\ \A n \in Admitted(st) : \/ Status(Latest(n)) = "ready"
                                 \/ CanMove(Status(Latest(n)), "ready")
      /\ \/ ExecAccepts(exec, Projection(st))
         \/ exec = Projection(st) /\ current = Focus(st)
      /\ node' = st
      /\ limit' = k
      /\ exec' = Projection(st)
      /\ current' = Focus(st)
      /\ run' = Activated(st, run)
      /\ auto' = Dispatched(st)
      /\ recov' = StillCurrent
      /\ UNCHANGED <<req, latest, asked>>

\* ManageNodeQuestionsUseCase.open with a required question.  Only a NodeRun of
\* the execution's current node may ask.  A running node starts to wait and
\* takes the execution with it, whatever the other branches are doing.
OpenQuestion(id) ==
  /\ current = id[1]
  /\ asked' = asked \cup {id}
  /\ \/ /\ \A s \in {Status(id), node[id[1]], exec} : s = "running"
        /\ node' = [node EXCEPT ![id[1]] = "waiting_user"]
        /\ run' = [run EXCEPT ![id].status = "waiting_user"]
        /\ exec' = "waiting_user"
        /\ recov' = StillCurrent
     \/ /\ \A s \in {Status(id), node[id[1]], exec} : s = "waiting_user"
        /\ UNCHANGED <<node, run, exec, recov>>
  /\ UNCHANGED <<limit, current, req, latest, auto>>

\* ManageNodeQuestionsUseCase.resolve: the last required question of the
\* NodeRun is answered or dismissed.
ResolveQuestion(id) ==
  /\ id \in asked
  /\ Status(id) \notin {"completed", "skipped", "cancelled"}
  /\ asked' = asked \ {id}
  /\ UNCHANGED <<node, limit, exec, current, req, latest, run, auto, recov>>

\* ReconcileWorkflowDispatchesUseCase, the enqueueing part.
ReconcileDispatches ==
  /\ exec = "running"
  /\ auto' = auto \cup {Latest(n) : n \in {m \in Executable :
                /\ node[m] = "ready"
                /\ Status(Latest(m)) = "ready"}}
  /\ UNCHANGED <<node, limit, exec, current, req, latest, run, asked, recov>>

\* RecoverInterruptedNodeRunsUseCase, second loop: a NodeRun interrupted in an
\* earlier session is enqueued for recovery again.
RequeueInterrupted(n) ==
  /\ exec \notin {"completed", "cancelled"}
  /\ Status(Latest(n)) = "interrupted"
  /\ node[n] = "interrupted"
  /\ recov' = recov \cup {Latest(n)}
  /\ UNCHANGED <<node, limit, exec, current, req, latest, run, asked, auto>>

Next ==
  \/ \E id \in NodeRunIds :
       \/ ReserveNode(id)
       \/ \E r \in AiRuns : BindAiRun(id, r)
       \/ WaitForUser(id)
       \/ FailRecovery(id)
       \/ InterruptNode(id)
       \/ \E s \in {"failed", "cancelled"} : FinishNode(id, s)
       \/ CompleteNode(id)
       \/ OpenQuestion(id)
       \/ ResolveQuestion(id)
  \/ \E n \in Nodes :
       \/ PauseNode(n)
       \/ ResumeNode(n)
       \/ CancelNode(n)
       \/ SkipNode(n)
       \/ PrepareRetry(n)
       \/ RequeueInterrupted(n)
  \/ \E k \in 1..MaxLimit : SetParallelism(k)
  \/ ReconcileDispatches

Spec == Init /\ [][Next]_vars

-----------------------------------------------------------------------------

(* Every variable has its type, and the attempts of a node are exactly     *)
(* those numbered up to the latest.                                        *)
TypeOK ==
  /\ node \in [Nodes -> NodeStatus]
  /\ limit \in 1..MaxLimit
  /\ exec \in ExecutionStatus
  /\ req \in {"pending", "active", "completed"}
  /\ latest \in [Nodes -> Attempts]
  /\ run \in [NodeRunIds -> RunRecord]
  /\ current \in Nodes \cup {NoNode}
  /\ asked \subseteq NodeRunIds
  /\ auto \subseteq NodeRunIds
  /\ recov \subseteq NodeRunIds
  /\ \A id \in NodeRunIds : Status(id) = "none" <=> id[2] > latest[id[1]]

(* A node that has left pending other than by being skipped has all its    *)
(* direct predecessors completed or skipped, whatever users, workers,      *)
(* retries and recoveries did in between (getReadyNodeIds,                 *)
(* domain/workflow.ts:733-753; domain/workflow.test.ts:535).               *)
DependencyOrder ==
  \A n \in Nodes :
    node[n] \notin {"pending", "skipped"} =>
      \A m \in Preds(n) : node[m] \in DoneStatus

(* A node that was never admitted has no NodeRun that was: what makes a    *)
(* pending node's NodeRun ready, reserves or ends it always takes the node *)
(* along (activateReadyNodeRuns, manage-node-execution.ts:883-959).  With  *)
(* it DependencyOrder is inductive.                                        *)
PendingIsUntouched ==
  \A id \in NodeRunIds :
    node[id[1]] = "pending" => Status(id) \in {"pending", "none"}

(* No slot stays free while a node could take it: every transaction that   *)
(* frees a slot or raises the limit admits as many nodes as fit.           *)
NoIdleSlot ==
  \/ Cardinality(Active(node)) >= limit
  \/ \A n \in ReadyNodes(node) : node[n] = "ready"

(* The execution and the requirement are completed exactly when every node *)
(* is completed or skipped (completeRequirement, updateExecution).         *)
CompletedTogether ==
  /\ exec = "completed" <=> AllDone(node)
  /\ req = "completed" <=> AllDone(node)

(* Admission respects the limit: a step that admits a pending node leaves  *)
(* at most maxParallelism nodes active (domain/workflow.test.ts:552).      *)
AdmissionWithinLimit ==
  [][(\E n \in Nodes : node[n] = "pending" /\ node'[n] = "ready")
       => Cardinality(Active(node)') <= limit']_vars

(* The execution shows the projection of its workflow, except while a      *)
(* question that a running branch opened shows waiting_user over the other *)
(* branches, and except in created, while the workflow is as instantiated  *)
(* and the requirement pending (updateExecution).  A requirement that is   *)
(* still pending has no attempt, of any node, that runs, waits or was      *)
(* interrupted, whatever users have skipped, paused or completed so far    *)
(* (transitionCurrentExecution, manage-node-execution.ts:862-878).         *)
ExecutionFollowsWorkflow ==
  /\ \/ exec = Projection(node)
     \/ exec = "created" /\ node = InstantiatedStatus /\ req = "pending"
     \/ exec = "waiting_user" /\ node[current] = "waiting_user"
  /\ req = "pending" =>
       \A id \in NodeRunIds :
         Status(id) \notin {"running", "waiting_user", "interrupted"}

(* What docs/product-architecture.md:434-450 says and the code does not do: *)
(* a node that waits for the user, with every required question answered,  *)
(* can be completed once its gates pass.  Here two branches that wait at   *)
(* the same time block each other: completing one leaves the execution     *)
(* waiting_user, and updateCurrentNode (repositories.ts:3847-3879) refuses *)
(* to update an execution that is not running.                             *)
WaitingNodeCanComplete ==
  \A n \in Nodes :
    /\ node[n] = "waiting_user"
    /\ Status(Latest(n)) = "waiting_user"
    /\ Latest(n) \notin asked
    => ENABLED CompleteNode(Latest(n))

-----------------------------------------------------------------------------
(* The aggregate implements WorkflowContract: a pending node waits, a      *)
(* completed or skipped one is done, and any other is open, however often  *)
(* it is paused, interrupted, failed, cancelled or retried.                *)

Stage ==
  [n \in Nodes |-> CASE node[n] = "pending" -> "waiting"
                     [] node[n] \in DoneStatus -> "done"
                     [] OTHER -> "open"]

Contract == INSTANCE WorkflowContract
              WITH stage <- Stage, finished <- req = "completed"

ContractSpec == Contract!Spec

=============================================================================
