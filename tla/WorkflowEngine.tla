--------------------------- MODULE WorkflowEngine ---------------------------
(***************************************************************************)
(* Who drives the aggregate of NodeExecution: the user's commands, the     *)
(* dispatch worker (AdvanceWorkflowUseCase), the executions it and the     *)
(* user start (ExecuteWorkflowNodeUseCase), the AI runs they wait for, and *)
(* the recovery at startup after a crash.                                  *)
(*                                                                         *)
(* Every await in an execution is a point where anything else may happen:  *)
(* an execution is a job with a program counter, and one step of it is the *)
(* code between two awaits that matter.  The database survives a crash;    *)
(* jobs, the worker and pending cancellations do not.                      *)
(***************************************************************************)
EXTENDS NodeExecution

CONSTANTS
  Approvable,   \* nodes whose gate the user resolves (approval, custom gate)
  MaxCrashes    \* bound on crashes

ASSUME EngineAssumption ==
  /\ Approvable \subseteq Nodes
  /\ MaxCrashes \in Nat

VARIABLES
  ai,        \* status of each AI run
  job,       \* the execution that owns each AI run id: pc, NodeRun, who asked
  served,    \* dispatches whose row is completed, as <<kind, NodeRun>>
  worker,    \* AdvanceWorkflowUseCase: state, todo, busy, again
  stop,      \* AI runs a committed user command is about to cancel
  answered,  \* NodeRuns whose answered question is about to be reevaluated
  phase,     \* where the process is: startup steps, then "up"
  crashes

engineVars == <<ai, job, served, worker, stop, answered, phase, crashes>>
allVars == <<vars, engineVars>>

\* One AI run id stands for one execution, so the number of executions of a
\* behaviour is bounded by the number of AiRuns.
FreeRuns == {r \in AiRuns : job[r].pc = "free"}
NewRun == CHOOSE r \in FreeRuns : TRUE

JobPc == {"free", "route", "generate", "bind", "undo", "await", "complete",
          "wait", "error", "fail", "done", "thrown"}
AiStatus == {"none", "live", "cancelling", "completed", "failed", "cancelled",
             "interrupted"}
Startup == {"runs", "interrupt", "requeue", "drain", "reconcile", "redrain"}
Dispatches == {"auto", "recovery"} \X NodeRunIds

-----------------------------------------------------------------------------
(* What a transaction does to the rest.                                    *)

\* A job that has read the revisions for completeNode (pc "complete") gets a
\* conflict when anything it read is written before its transaction.
Touched(id) == \/ node' # node \/ limit' # limit \/ req' # req
               \/ run'[id] # run[id]

Conflicted(jobs) ==
  [r \in AiRuns |->
     IF jobs[r].pc = "complete" /\ Touched(jobs[r].id)
     THEN [jobs[r] EXCEPT !.pc = "error"] ELSE jobs[r]]

\* A recovery row counts as completed only for the revision it was made for.
Rows(done) == {d \in done : d[1] = "recovery" => d[2] \in recov'}

At(r, pc) == [job EXCEPT ![r].pc = pc]

\* One transaction, after which the jobs are those given.
Tx(action, jobs) ==
  /\ action
  /\ job' = Conflicted(jobs)
  /\ served' = Rows(served)
  /\ UNCHANGED crashes

\* AdvanceWorkflowUseCase.drain: start a drain or have the active one repeat.
DrainRequested ==
  worker' = IF worker.state = "idle" THEN [worker EXCEPT !.state = "list"]
            ELSE [worker EXCEPT !.again = TRUE]

Started(jobs, id, by) == [jobs EXCEPT ![NewRun] = [pc |-> "route", id |-> id, by |-> by]]

CurrentBinding(r) ==
  /\ run[job[r].id].ai = r
  /\ Latest(job[r].id[1]) = job[r].id

-----------------------------------------------------------------------------
(* ExecuteWorkflowNodeUseCase.execute.                                     *)

\* routeModel finds no model: execute throws before it has done anything.
RouteFails(r) ==
  /\ job[r].pc = "route"
  /\ job' = At(r, "thrown")
  /\ UNCHANGED <<vars, ai, served, worker, stop, answered, phase, crashes>>

Reserve(r) ==
  /\ job[r].pc = "route"
  /\ \/ Tx(ReserveNode(job[r].id), At(r, "generate"))
     \/ /\ ~ENABLED ReserveNode(job[r].id)
        /\ job' = At(r, "thrown")
        /\ UNCHANGED <<vars, served, crashes>>
  /\ UNCHANGED <<ai, worker, stop, answered, phase>>

\* executeNode: the AI run is created and starts, is saved as one that has
\* failed already (createFailedRun), or executeNode throws.
Generate(r) ==
  /\ job[r].pc = "generate"
  /\ \/ \E s \in {"live", "failed"} : ai' = [ai EXCEPT ![r] = s] /\ job' = At(r, "bind")
     \/ ai' = ai /\ job' = At(r, "undo")
  /\ UNCHANGED <<vars, served, worker, stop, answered, phase, crashes>>

Bind(r) ==
  /\ job[r].pc = "bind"
  /\ \/ Tx(BindAiRun(job[r].id, r), At(r, "await"))
     \/ job' = At(r, "undo") /\ UNCHANGED <<vars, served, crashes>>
  /\ UNCHANGED <<ai, worker, stop, answered, phase>>

\* settleFailure, together with the cancellation of the AI run if there is one.
SettleFailure(id, by) ==
  IF by = "recovery" THEN FailRecovery(id) ELSE FinishNode(id, "failed")

CanSettleFailure(id, by) ==
  IF by = "recovery" THEN CanTransition(id, {"running"}, "interrupted")
  ELSE CanFinish(id, "failed")

\* Mutant of Undo: the AI run that could not be bound is left alone.
UndoOnlySettles(r) ==
  LET settle == SettleFailure(job[r].id, job[r].by)
  IN  /\ job[r].pc = "undo"
      /\ \/ Tx(settle, At(r, "thrown"))
         \/ /\ ~CanSettleFailure(job[r].id, job[r].by)
            /\ job' = At(r, "thrown")
            /\ UNCHANGED <<vars, served, crashes>>
      /\ UNCHANGED <<ai, worker, stop, answered, phase>>

Undo(r) ==
  LET settle == SettleFailure(job[r].id, job[r].by)
  IN  /\ job[r].pc = "undo"
      /\ \/ Tx(settle, At(r, "thrown"))
         \/ /\ ~CanSettleFailure(job[r].id, job[r].by)
            /\ job' = At(r, "thrown")
            /\ UNCHANGED <<vars, served, crashes>>
      /\ ai' = [ai EXCEPT ![r] = IF @ = "live" THEN "cancelling" ELSE @]
      /\ UNCHANGED <<worker, stop, answered, phase>>

-----------------------------------------------------------------------------
(* ExecuteWorkflowNodeUseCase.settleNode.                                  *)

\* The AI run has ended: ask whether it is still the one bound to the latest
\* attempt, and read how it ended.
Settle(r) ==
  /\ job[r].pc = "await"
  /\ ai[r] \in {"completed", "failed", "cancelled", "interrupted"}
  /\ job' = At(r, CASE ~CurrentBinding(r)               -> "done"
                    [] CurrentBinding(r) /\ ai[r] = "completed"   -> "complete"
                    [] CurrentBinding(r) /\ ai[r] = "interrupted" -> "done"
                    [] OTHER                              -> "fail")
  /\ UNCHANGED <<vars, ai, served, worker, stop, answered, phase, crashes>>

\* completeOrWait: complete and drain, or find a gate closed.
Complete(r) ==
  /\ job[r].pc = "complete"
  /\ \/ Tx(CompleteNode(job[r].id), At(r, "done")) /\ DrainRequested
     \/ /\ job' = At(r, "wait")
        /\ UNCHANGED <<vars, served, worker, crashes>>
     \/ /\ job[r].id \notin asked
        /\ ~ENABLED CompleteNode(job[r].id)
        /\ job' = At(r, "error")
        /\ UNCHANGED <<vars, served, worker, crashes>>
  /\ UNCHANGED <<ai, stop, answered, phase>>

WaitGate(r) ==
  /\ job[r].pc = "wait"
  /\ \/ Tx(WaitForUser(job[r].id), At(r, "done"))
     \/ /\ ~ENABLED WaitForUser(job[r].id)
        /\ job' = At(r, "error")
        /\ UNCHANGED <<vars, served, crashes>>
  /\ UNCHANGED <<ai, worker, stop, answered, phase>>

\* The catch of settleNode: any failure to complete fails the node, if the
\* binding still holds.
SettleError(r) ==
  /\ job[r].pc = "error"
  /\ job' = At(r, IF CurrentBinding(r) THEN "fail" ELSE "done")
  /\ UNCHANGED <<vars, ai, served, worker, stop, answered, phase, crashes>>

\* finishNode with the AI run's own failure, or with failed out of the catch.
\* Nothing drains the dispatches of the nodes this admits.
Outcome(r) == IF ai[r] = "cancelled" THEN "cancelled" ELSE "failed"

SettleFailed(r) ==
  /\ job[r].pc = "fail"
  /\ \/ Tx(FinishNode(job[r].id, Outcome(r)), At(r, "done"))
     \/ /\ ~CanFinish(job[r].id, Outcome(r))
        /\ job' = At(r, "done")
        /\ UNCHANGED <<vars, served, crashes>>
  /\ UNCHANGED <<ai, worker, stop, answered, phase>>

\* The gateway's stream ends the run; once cancelling, it cannot complete.
AiRunEnds(r) ==
  /\ \/ ai[r] = "live" /\ \E s \in {"completed", "failed"} : ai' = [ai EXCEPT ![r] = s]
     \/ ai[r] = "cancelling" /\ \E s \in {"cancelled", "failed"} : ai' = [ai EXCEPT ![r] = s]
  /\ phase # "runs"
  /\ UNCHANGED <<vars, job, served, worker, stop, answered, phase, crashes>>

\* The run had completed when it was cancelled: consume drops the completion of
\* a run that is cancelling, the stream ends, and the run stays cancelling.
CompletionDropped(r) ==
  /\ ai[r] = "cancelling"
  /\ job[r].pc = "await"
  /\ phase # "runs"
  /\ job' = At(r, "done")
  /\ UNCHANGED <<vars, ai, served, worker, stop, answered, phase, crashes>>

\* CancelAiRunUseCase, after the command that asked for it has committed.
CancelRun(r) ==
  /\ r \in stop
  /\ stop' = stop \ {r}
  /\ ai' = [ai EXCEPT ![r] = IF @ = "live" THEN "cancelling" ELSE @]
  /\ UNCHANGED <<vars, job, served, worker, answered, phase, crashes>>

Execution(r) ==
  \/ RouteFails(r) \/ Reserve(r) \/ Generate(r) \/ Bind(r) \/ Undo(r)
  \/ Settle(r) \/ Complete(r) \/ WaitGate(r) \/ SettleError(r) \/ SettleFailed(r)

-----------------------------------------------------------------------------
(* AdvanceWorkflowUseCase.                                                 *)

Dispatchable ==
  (({"auto"} \X auto) \cup ({"recovery"} \X recov)) \ served

ListDispatches ==
  /\ worker.state = "list"
  /\ worker' = [worker EXCEPT !.state = "pass", !.todo = Dispatchable, !.again = FALSE]
  /\ UNCHANGED <<vars, ai, job, served, stop, answered, phase, crashes>>

\* Mutant of Executes: the statuses are not looked at.
ExecutesAny(d) == d[2][1] \in Executable

\* What process decides for a claimed dispatch.
Executes(d) ==
  LET id == d[2]
      n  == d[2][1]
  IN  IF d[1] = "recovery"
      THEN /\ exec \in {"running", "interrupted"}
           /\ id \in recov
           /\ Status(id) = "interrupted"
           /\ n \in Executable
           /\ node[n] = "interrupted"
      ELSE /\ exec = "running"
           /\ n \in Executable
           /\ node[n] \in {"ready", "failed"}
           /\ Status(id) \in {"ready", "failed"}

ExecutionOver == exec \in {"completed", "cancelled"}

\* process starts the execution, has nothing to do and completes the dispatch,
\* or throws: the execution is over, or no model can be routed.  What threw
\* stays to be listed again.
ProcessDispatch(d) ==
  /\ worker.state = "pass" /\ worker.busy = NoRun
  /\ d \in worker.todo
  /\ \/ /\ ~ExecutionOver /\ Executes(d) /\ FreeRuns # {}
        /\ job' = Started(job, d[2], d[1])
        /\ worker' = [worker EXCEPT !.todo = @ \ {d}, !.busy = NewRun]
        /\ served' = served
     \/ /\ ~ExecutionOver /\ ~Executes(d)
        /\ worker' = [worker EXCEPT !.todo = @ \ {d}]
        /\ served' = served \cup ({d} \cap Dispatchable)
        /\ job' = job
     \/ /\ ExecutionOver \/ Executes(d)
        /\ worker' = [worker EXCEPT !.todo = @ \ {d}]
        /\ UNCHANGED <<job, served>>
  /\ UNCHANGED <<vars, ai, stop, answered, phase, crashes>>

\* execute has returned to process: the dispatch is completed, or failed.
ReturnToWorker ==
  LET r == worker.busy
      d == <<job[r].by, job[r].id>>
  IN  /\ r # NoRun
      /\ job[r].pc \notin {"route", "generate", "bind", "undo"}
      /\ worker' = [worker EXCEPT !.busy = NoRun]
      /\ served' = IF job[r].pc = "thrown" \/ d \notin Dispatchable
                   THEN served ELSE served \cup {d}
      /\ UNCHANGED <<vars, ai, job, stop, answered, phase, crashes>>

\* Mutant of EndPass: passes are repeated as long as something is listed.
EndPassWhenEmpty ==
  /\ worker.state = "pass" /\ worker.todo = {} /\ worker.busy = NoRun
  /\ worker' = [worker EXCEPT !.state =
                  IF worker.again \/ Dispatchable # {} THEN "list" ELSE "closing"]
  /\ UNCHANGED <<vars, ai, job, served, stop, answered, phase, crashes>>

\* drainUntilSettled: another pass if one was asked for; otherwise the drain is
\* over, and activeDrain is cleared one turn later.
EndPass ==
  /\ worker.state = "pass" /\ worker.todo = {} /\ worker.busy = NoRun
  /\ worker' = [worker EXCEPT !.state = IF worker.again THEN "list" ELSE "closing"]
  /\ UNCHANGED <<vars, ai, job, served, stop, answered, phase, crashes>>

EndDrain ==
  /\ worker.state = "closing"
  /\ worker' = [worker EXCEPT !.state = "idle", !.again = FALSE]
  /\ UNCHANGED <<vars, ai, job, served, stop, answered, phase, crashes>>

Worker ==
  \/ ListDispatches \/ ReturnToWorker \/ EndPass \/ EndDrain
  \/ \E d \in worker.todo : ProcessDispatch(d)

-----------------------------------------------------------------------------
(* The user's commands (ControlWorkflowNodeUseCase and others).            *)

UserTx(action, jobs) ==
  /\ phase = "up"
  /\ Tx(action, jobs)
  /\ UNCHANGED <<ai, phase>>

\* start, and resume or retry of an attempt that is ready already.
Start(n) ==
  /\ phase = "up" /\ FreeRuns # {}
  /\ n \in Executable
  /\ Status(Latest(n)) = "ready"
  /\ job' = Started(job, Latest(n), "user")
  /\ UNCHANGED <<vars, ai, served, worker, stop, answered, phase, crashes>>

Pause(n) ==
  /\ UserTx(PauseNode(n), job)
  /\ stop' = stop \cup ({run[Latest(n)].ai} \ {NoRun})
  /\ UNCHANGED <<worker, answered>>

Resume(n) ==
  /\ FreeRuns # {} /\ n \in Executable
  /\ UserTx(ResumeNode(n), Started(job, Latest(n), "user"))
  /\ UNCHANGED <<worker, stop, answered>>

Cancel(n) ==
  /\ UserTx(CancelNode(n), job)
  /\ stop' = stop \cup ({run[Latest(n)].ai} \ {NoRun})
  /\ UNCHANGED <<worker, answered>>

Skip(n) ==
  /\ UserTx(SkipNode(n), job)
  /\ UNCHANGED <<worker, stop, answered>>

\* A retry whose execution throws at once, no model being routed, has still
\* prepared the attempt.
Retry(n) ==
  /\ \/ FreeRuns # {} /\ UserTx(PrepareRetry(n), Started(job, <<n, latest[n] + 1>>, "user"))
     \/ UserTx(PrepareRetry(n), job)
  /\ UNCHANGED <<worker, stop, answered>>

ChangeParallelism(k) ==
  /\ UserTx(SetParallelism(k), job)
  /\ UNCHANGED <<worker, stop, answered>>

\* ResolveNodeGateUseCase: the decision is saved with the NodeRun, and the node
\* is completed in the same transaction if that was the last closed gate.  It is
\* not asked whether the AI run has ended.
ResolveGate(id) ==
  /\ id[1] \in Approvable
  /\ \/ UserTx(CompleteNode(id), job) /\ DrainRequested
     \/ /\ phase = "up"
        /\ Status(id) \in {"ready", "running", "waiting_user"}
        /\ job' = [r \in AiRuns |->
                     IF job[r].pc = "complete" /\ job[r].id = id
                     THEN [job[r] EXCEPT !.pc = "error"] ELSE job[r]]
        /\ UNCHANGED <<vars, ai, served, worker, phase, crashes>>
  /\ UNCHANGED <<stop, answered>>

Ask(id) ==
  /\ UserTx(OpenQuestion(id), job)
  /\ UNCHANGED <<worker, stop, answered>>

Answer(id) ==
  /\ UserTx(ResolveQuestion(id), job)
  /\ answered' = answered \cup {id}
  /\ UNCHANGED <<worker, stop>>

\* ResolveNodeQuestionUseCase.reevaluate: complete the node that was waiting.
Reevaluate(id) ==
  /\ phase = "up"
  /\ id \in answered
  /\ answered' = answered \ {id}
  /\ \/ /\ Status(id) = "waiting_user"
        /\ Tx(CompleteNode(id), job)
        /\ DrainRequested
     \/ UNCHANGED <<vars, job, served, worker, crashes>>
  /\ UNCHANGED <<ai, stop, phase>>

User ==
  \/ \E n \in Nodes :
       \/ Start(n) \/ Pause(n) \/ Resume(n) \/ Cancel(n) \/ Skip(n) \/ Retry(n)
  \/ \E id \in NodeRunIds :
       \/ ResolveGate(id) \/ Ask(id) \/ Answer(id) \/ Reevaluate(id)
  \/ \E k \in 1..MaxLimit : ChangeParallelism(k)

-----------------------------------------------------------------------------
(* Crash and startup (main.ts): AI runs, then NodeRuns, then the worker.   *)

Idle == [state |-> "idle", todo |-> {}, busy |-> NoRun, again |-> FALSE]

Crash ==
  /\ crashes < MaxCrashes
  /\ crashes' = crashes + 1
  /\ phase' = "runs"
  /\ job' = [r \in AiRuns |->
               IF job[r].pc = "free" THEN job[r] ELSE [job[r] EXCEPT !.pc = "done"]]
  /\ worker' = Idle
  /\ stop' = {}
  /\ answered' = {}
  /\ UNCHANGED <<vars, ai, served>>

RecoverRuns ==
  /\ phase = "runs"
  /\ ai' = [r \in AiRuns |->
              IF ai[r] \in {"live", "cancelling"} THEN "interrupted" ELSE ai[r]]
  /\ phase' = "interrupt"
  /\ UNCHANGED <<vars, job, served, worker, stop, answered, crashes>>

\* Mutant of Interruptible: only NodeRuns with an AI run are looked for.
InterruptibleBound ==
  {n \in Nodes : /\ exec = "running" /\ node[n] = "running"
                 /\ Status(Latest(n)) = "running" /\ run[Latest(n)].ai # NoRun}

\* RecoverInterruptedNodeRunsUseCase looks at running executions only.
Interruptible ==
  {n \in Nodes : exec = "running" /\ node[n] = "running" /\ Status(Latest(n)) = "running"}

RecoverNode(n) ==
  /\ phase = "interrupt"
  /\ n \in Interruptible
  /\ Tx(InterruptNode(Latest(n)), job)
  /\ UNCHANGED <<ai, worker, stop, answered, phase>>

RequeueNode(n) ==
  /\ phase = "requeue"
  /\ Latest(n) \notin recov
  /\ Tx(RequeueInterrupted(n), job)
  /\ UNCHANGED <<ai, worker, stop, answered, phase>>

NextPhase ==
  /\ \/ phase = "interrupt" /\ Interruptible = {} /\ phase' = "requeue" /\ UNCHANGED worker
     \/ /\ phase = "requeue"
        /\ \A n \in Nodes : Latest(n) \in recov \/ ~ENABLED RequeueInterrupted(n)
        /\ phase' = "drain"
        /\ DrainRequested
     \/ phase = "drain" /\ worker.state = "idle" /\ phase' = "reconcile" /\ UNCHANGED worker
     \/ phase = "redrain" /\ worker.state = "idle" /\ phase' = "up" /\ UNCHANGED worker
  /\ UNCHANGED <<vars, ai, job, served, stop, answered, crashes>>

\* ReconcileWorkflowDispatchesUseCase for the requirement, then its drain.
Reconcile ==
  /\ phase = "reconcile"
  /\ IF exec = "running"
     THEN Tx(ReconcileDispatches, job)
     ELSE UNCHANGED <<vars, job, served, crashes>>
  /\ DrainRequested
  /\ phase' = "redrain"
  /\ UNCHANGED <<ai, stop, answered>>

Recovery ==
  \/ RecoverRuns \/ NextPhase \/ Reconcile
  \/ \E n \in Nodes : RecoverNode(n) \/ RequeueNode(n)

-----------------------------------------------------------------------------

EngineInit ==
  /\ Init
  /\ ai = [r \in AiRuns |-> "none"]
  /\ job = [r \in AiRuns |-> [pc |-> "free", id |-> Latest(CHOOSE n \in Nodes : TRUE),
                             by |-> "user"]]
  /\ served = {}
  /\ worker = Idle
  /\ stop = {}
  /\ answered = {}
  /\ phase = "up"
  /\ crashes = 0

EngineNext ==
  \/ \E r \in AiRuns :
       Execution(r) \/ AiRunEnds(r) \/ CompletionDropped(r) \/ CancelRun(r)
  \/ Worker
  \/ User
  \/ Recovery
  \/ Crash

EngineSpec == EngineInit /\ [][EngineNext]_allVars

-----------------------------------------------------------------------------

(* Every variable has its type.                                            *)
EngineTypeOK ==
  /\ TypeOK
  /\ ai \in [AiRuns -> AiStatus]
  /\ job \in [AiRuns -> [pc : JobPc, id : NodeRunIds, by : {"user", "auto", "recovery"}]]
  /\ served \subseteq Dispatches
  /\ worker \in [state : {"idle", "list", "pass", "closing"}, todo : SUBSET Dispatches,
                 busy : AiRuns \cup {NoRun}, again : BOOLEAN]
  /\ stop \subseteq AiRuns
  /\ answered \subseteq NodeRunIds
  /\ phase \in Startup \cup {"up"}
  /\ crashes \in 0..MaxCrashes

(* A NodeRun that is running, the latest of its node, always has an        *)
(* execution at work on it: the one whose AI run is bound to it, or one    *)
(* about to bind.  No crash, refused transaction, pause or late result     *)
(* leaves a node shown running with nobody to finish it, until startup has *)
(* interrupted it (execute-workflow-node.ts:61-233,                        *)
(* recover-workflows.ts:58-183).                                           *)
RunningHasExecution ==
  \A n \in Nodes :
    Status(Latest(n)) = "running" =>
      \/ phase \in {"runs", "interrupt"}
      \/ \E r \in AiRuns :
           /\ job[r].id = Latest(n)
           /\ \/ /\ run[Latest(n)].ai = r
                 /\ job[r].pc \in {"await", "complete", "wait", "error", "fail"}
              \/ /\ run[Latest(n)].ai = NoRun
                 /\ job[r].pc \in {"generate", "bind", "undo"}

(* No AI run is left streaming into the void: a live one has an execution  *)
(* that awaits it, binds it or is about to cancel it, before and after a   *)
(* restart (execute-workflow-node.ts:95-140, recover-interrupted-runs.ts). *)
LiveRunIsAwaited ==
  \A r \in AiRuns :
    ai[r] = "live" => phase = "runs" \/ job[r].pc \in {"bind", "undo", "await"}

(* "paused, waiting_user, blocked, cancelled and completed tasks are not   *)
(* recovered automatically" (docs/product-architecture.md:461): no step    *)
(* taken while the process starts changes such a node, whatever dispatches *)
(* earlier sessions left behind.                                           *)
RecoveryRespectsUser ==
  [][phase # "up" =>
       \A n \in Nodes :
         node[n] \in {"paused", "waiting_user", "cancelled", "completed", "skipped"}
           => node'[n] = node[n]]_allVars

-----------------------------------------------------------------------------
(* What the documents and tests say and the code does not do.              *)

(* Startup interrupts every branch that was running                        *)
(* (recover-workflows.test.ts:147, docs/product-architecture.md:459).      *)
RecoveryInterruptsAll ==
  [][phase = "interrupt" /\ phase' = "requeue"
       => \A id \in NodeRunIds : Status(id) # "running"]_allVars

=============================================================================
