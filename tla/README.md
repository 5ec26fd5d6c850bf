# A TLA+ verification of realmflow's stateful core

realmflow is a desktop application (Electron, TypeScript) that takes a
*requirement* through a *workflow*: a graph of nodes, each worked on by a human,
by an AI generation or by a tool. Its core is the workflow runtime: which node
may start, who starts it, how the result of an AI run reaches it, what the user
may do to it meanwhile, how it is rolled back, and what a restart does with
everything that was under way. Beside it two more services keep promises across
failures and restarts: *schedules*, which run skills at the slots of a cron
expression, and the *knowledge index*, which keeps a vector store in step with
the user's notes. This directory models these in TLA+, model-checks them with
TLC and proves, with TLAPS, nearly all of their safety properties for every
value of the constants.

Paths below are relative to `src/`; `WF` stands for
`electron/src/application/workflow`.

## 1. Inventory

| component | state | operations | hard behaviour | correct when |
|---|---|---|---|---|
| **Workflow graph rules** `domain/workflow.ts`, `node-run.ts`, `workflow-execution.ts`, `workflow-rollback.ts` | none (pure functions over a workflow) | `getReadyNodeIds`, `getStableReadyNodeIds`, `recalculateEditableNodeStatuses`, `getWorkflowExecutionProjection`, `planWorkflowRollback`, transition tables | boundary of the parallelism limit; statuses that count as active; reachability | nothing is admitted before its predecessors are done or beyond the limit; no slot is wasted; the projection never hides work |
| **Node execution aggregate** `WF/manage-node-execution.ts`, `WF/workflow-runtime.ts`, repositories | workflow nodes, execution, requirement, node runs (attempts), dispatch rows | `reserveNode`, `bindAiRun`, `waitForUser`, `finishNode`, `failRecovery`, `pauseNode`, `resumeNode`, `interruptNode`, `cancelNode`, `skipNode`, `prepareRetry`, `completeNode` | four kinds of record with revisions of their own must agree after any sequence of legal commands | dependency order, slots used, joint completion |
| **Parallelism setting** `WF/set-workflow-parallelism.ts` | `maxParallelism` | `execute` | raising admits at once, lowering below the number of active nodes | same |
| **Questions and gates** `WF/manage-node-questions.ts`, `resolve-node-question.ts`, `resolve-node-gate.ts`, `node-completion-gate-evaluator.ts` | open questions, decisions on the node run | open, resolve, reevaluate, resolve gate | an answer races with the AI run that asked; other branches run on | a gate delays a completion and never loses it |
| **Node executions** `WF/execute-workflow-node.ts` | one asynchronous call per start | route, reserve, generate, bind, settle | every `await` is a point where a command, a second start or a crash may come in between | no node is left running with nobody at work on it, no AI run streams unattended |
| **Dispatch worker** `WF/advance-workflow.ts`, `workflow-dispatch.ts`, `reconcile-workflow-dispatches.ts` | `activeDrain`, `drainRequested`, dispatch rows | drain, process | dispatches of earlier sessions, failing dispatches, requests during a drain | stale rows have no effect; a drain ends |
| **User commands** `WF/control-workflow-node.ts` | none | start, pause, resume, cancel, skip, retry | the command's second half (cancel the AI run, start the execution) runs after its transaction | |
| **Recovery** `electron/src/main.ts`, `recover-interrupted-runs.ts`, `WF/recover-workflows.ts` | none | rollbacks, AI runs, node runs, drain, reconciliation, drain | a crash between any two steps; what the user decided must stand | everything interrupted is found; nothing else is touched; startup ends |
| **AI runs of nodes** `electron/src/ai-run/` | run status, event sequence, artifacts | create, consume, cancel | cancellation against completion, repeated or missing events, file and row together | |
| **Rollback** `WF/rollback-workflow-to-node.ts`, `coordinate-workflow-rollback.ts` | rollback operation | plan, commit, coordinate, repeat, recover | AI runs are cancelled and knowledge is synchronized after the commit; two coordinations at once; a crash in between | no AI run goes on for a cancelled attempt; a committed rollback is coordinated |
| **Topology edits** `WF/manage-requirement-workflow.ts`, `WF/workflow-runtime.ts`, `WF/started-node-protection.ts` | nodes and edges of a requirement's workflow | insert, remove, update edge, reorder | an edit while other nodes run; readiness in the workflow and in the node runs | nothing that has started is touched; the order of what stays is kept; the workflow can go on |
| **Templates, todos** `WF/manage-workflow-templates.ts`, `manage-node-todos.ts` | versions, checklists | publish, migrate, check off | | |
| **Requirements, workspaces, trash** `electron/src/application/commands/` | rows and directories | create, rename, trash, restore | rows and directories together | |
| **SQLite connection** `connection-coordinator.ts` | a re-entrant lock by async context | runExclusive, transactions | work not awaited inside a transaction | transactions are serial |
| **Knowledge indexing** `application/knowledge/` | jobs and generations in SQLite, points in Qdrant, one worker, one drain loop | enqueue, claim, write, verify, commit, fail, recover, rebuild, collect garbage | two stores and no common transaction; an edit, an archive, a collection or a shutdown between any two awaits of the worker | a search finds one generation, complete, at the note's present revision when it was published; every pending job is served |
| **Conversations** `application/conversation/`, `domain/*-turn.ts` | turns projected from events | send, project, resume | order of events | |
| **Agent runtime, DSH sessions** `application/agent-runtime/`, `application/dsh/` | budgets, delegations, pending calls, sessions | dispatch, delegate, reconcile, ingest | calls that were made before a restart | |
| **Schedules** `application/schedules/` | schedules, runs, trigger cursors, one timer, the scheduler's queue | create, edit, pause, delete, run now, reconcile, arm, claim, finish, catch up | a timer or an edit that arrives during a reconciliation; runs cut off by a crash | a slot runs once; one run of a schedule at a time; no wake-up is lost |
| **Backup and restore** `application/backup/`, `startup-restore.ts` | staged restore | stage, apply at startup | restart between the steps | |
| **Models and network** `models/`, `network/` | concurrency slots per key | acquire, release, clear | waiters and `clear` | the limit holds |
| **Connectors, capabilities, tools, files, terminal, overlay, Qdrant process, IPC, renderer, Python worker** | adapters | | mostly I/O | |

**How they interact.** The renderer sends commands over IPC. A command on a
node goes to `ControlWorkflowNodeUseCase`, which runs one transaction of
`ManageNodeExecutionUseCase` and, after its commit, starts an execution or
cancels an AI run. A transaction that admits a node with an executor writes an
*automatic dispatch*; `AdvanceWorkflowUseCase` drains dispatches one after the
other and starts `ExecuteWorkflowNodeUseCase`, which reserves the node run,
creates an AI run, binds it to the node run, and, when the run's stream has
ended, completes the node, lets it wait for the user or fails it. A completion
drains again. All transactions share one SQLite connection, serialised by
`SqliteConnectionCoordinator`; everything else interleaves at every `await`.
At startup `main.ts` coordinates pending rollbacks, closes AI runs, interrupts
the node runs that were running and enqueues their recovery, drains, reconciles
dispatches, drains again, and only then opens IPC.

Schedules and the knowledge index touch none of this: a schedule runs a skill,
and a note is saved, enqueued and drained by the IPC handler that saves it. They
share the SQLite connection, the event loop and the startup, where the index
recovers before IPC opens and rebuilds in the background after it, while
schedules recover their runs, start the timer and catch up.

The hazards this design is exposed to are listed in `PROJECT.json`, each with
its line and with the properties that guard it or the reason why none does yet.

## 2. Modules

```
WorkflowGraph            pure scheduling rules             <- WorkflowGraphProofs
   |  \
   |  WorkflowRules        the rules on every graph
   |     |  implements
   |  RollbackPlan         the worklist of a rollback        <- MCWorkflowGraph
   |                                                       <- WorkflowRulesProofs
NodeExecution            one action per transaction        <- MCNodeExecution
   |      \ implements                                     <- NodeExecutionProofs
   |       WorkflowContract   what a workflow promises
   |      / implements (with Reopen)
WorkflowEngine           users, worker, executions, AI     <- MCWorkflowEngine
   |    /                runs, crash and startup           <- WorkflowEngineProofs
WorkflowRollback         rollback and its coordination     <- MCWorkflowRollback
                                                           <- WorkflowRollbackProofs

TopologyEdits            edits of a started workflow       <- MCTopologyEdits
   uses WorkflowGraph on the nodes and edges of the moment <- TopologyEditsProofs

Schedules                store, service, scheduler, crash  <- MCSchedules
                                                           <- SchedulesProofs

KnowledgeIndex           queue, worker, collector, startup <- MCKnowledgeIndex
          \ implements                                     <- KnowledgeIndexProofs
           IndexContract      what a search is promised
```

**WorkflowGraph** holds the rules as operators on a workflow
`st \in [Nodes -> NodeStatus]` over a fixed acyclic graph: `ReadyNodes`,
`StableReady`, `Admit`, `Recalculate`, `Projection`, `Affected`, `RolledBack`
and the two transition tables. Arrays that the code sorts and slices are sets
with an order: `FirstK(S, k)` is the slice. `AdmitFillsTheSlots` and
`ProjectionShowsWork` are its laws. **WorkflowRules** makes the graph a variable:
its states are all acyclic graphs with all statuses, its steps give the workflow
what an operator computes. Beside the sets it has the arrays of the code: what is
sorted and filtered is a member of `Sorted(S)` (there is one, since positions are
distinct), `ReadyPerEdge` is the filter of `getReadyNodeIds`, and `StableReadyIds`
the concatenation and slice of `getStableReadyNodeIds`; `StableReadyIsTheSlice`
compares them with `StableReady`. **RollbackPlan** runs `planWorkflowRollback` as
the loop it is: `Begin` checks the target, `Discard` and `Visit` pop a node from
the stack `remaining` and collect `affected`, and `Write` gives the workflow the
statuses made of it (`Planned`). `PlanIsTheRollback` compares them with
`RolledBack`, which is what `WorkflowRollback` uses. The edges of a node are pushed
in any order, since the code takes the one it is given.

**NodeExecution** is the aggregate. Its variables are the records of the
database: `node` and `limit` (`RequirementWorkflow`), `exec` and `current`
(`WorkflowExecution`), `req` (`Requirement`), `latest` and `run` (`NodeRun`, all
attempts), `asked` (required questions), `auto` and `recov` (dispatch rows).
One action is one transaction; its guard is every check that throws, in the
code's order of evaluation where that matters. What the transactions share are
operators with the names of the code: `Commit` is `updateExecution`, `Finished`
is the readiness half of `finishNode`, `Admitted`/`Activated`/`Dispatched` are
`activateReadyNodeRuns`. The module is *open*: any transaction may arrive at
any time, so what holds of it holds whoever drives it.

**WorkflowContract** says what a workflow promises without mentioning statuses,
attempts or limits: nodes open after everything before them is done, done work
is not reopened, one step closes at most one node, and the requirement is
finished in the step that closes the last. `NodeExecution` refines it by `Stage`.

**WorkflowEngine** adds the processes. `job[r]` is an execution of
`ExecuteWorkflowNodeUseCase` with the program counter `route -> generate -> bind
-> await -> complete -> done`, and `undo`, `wait`, `error`, `fail`, `thrown` on
the other paths; one step is the code between two awaits that matter. `worker`
is `AdvanceWorkflowUseCase`: `list`, `pass`, `closing` (the loop has read
`drainRequested`, `finally` has not run yet), `idle`. `served` are completed
dispatch rows. `stop` and `answered` hold the second halves of commands whose
transaction has committed. `phase` is the startup of `main.ts`. `Crash` may
come at any step; the database stays, jobs, worker, `stop` and `answered` go.
Optimistic concurrency is kept where an execution can lose by it: a job that
has read revisions (`complete`) is sent to `error` by any transaction that
writes what it read (`Conflicted`).

**WorkflowRollback** extends `WorkflowEngine`. `RollBackTo` is the transaction
of `RollbackWorkflowToNodeUseCase`: the node and everything after it get a new
attempt, the old attempts that had not ended are cancelled, a completed
requirement opens again. `operation` is the row `WorkflowRollbackOperation`,
`coord[k]` a call of `CoordinateWorkflowRollbackUseCase` (the AI runs it has
still to cancel, those that failed, whether another call has saved the operation
meanwhile), `gateway` the AI runs `DshAiRunGateway` has registered in this
session. `Replay` is a repeated request, `RecoverPending` the first step of the
startup, which waits for it. Rolling back undoes work, so the contract is
refined with `Reopen` as a further step: what is undone is undone with
everything after it.

**TopologyEdits** makes nodes and edges variables: `order` gives each present
node its position, `edges` are pairs, and `Graph` and `Now` are `WorkflowGraph`
on them. `InsertNode`, `RemoveNode`, `UpdateEdge` and `Reorder` are the four
edits with their validation (`Valid`, `Mutable`); the starts and ends of nodes
come in between as in `NodeExecution`, with one attempt per node and without
questions, gates and pauses. `UpdateEdge` and `Reorder` compute readiness anew,
`InsertNode` and `RemoveNode` do not, and no edit touches the execution or the
run of a node that stays. `edited` remembers that an edit did one of the two
things told of below the findings (a node put ahead of a ready one, readiness
moved), so that the properties say exactly what holds without it. The template
is valid and numbers its nodes without gaps (`TemplateAssumption`): a template is
saved so (`manage-workflow-templates.ts:849`), and `instantiateRequirementWorkflow`
asserts that it is valid (`domain/workflow.ts:454`).

**Schedules** has the rows `schedule`, `run` and `cursor` (a trigger cursor: the
revision it was planned for, the due slot, a missed slot), `job[i]`, the call of
`ScheduleService` that writes run `i`, and `scheduler`, the fields of
`CronScheduleScheduler`: a reconciliation under way (`op`), one queued behind it
(`pending`) and the timer. `ListSchedules`, `ReconcileTriggers` and `ArmNext`
are `reconcileAndArm` cut at its awaits; `TimerFires`, `ContinueLongDelay` and
`ClaimScheduledRun` are the timer; `RunNow`, `Create`, `Update`, `PauseOrResume`
and `Delete` the user; `RecoverInterrupted` to `OpenWindow` the startup.

**KnowledgeIndex** has the rows of the queue (`about`, `job`, `gen`, `saved`,
`deleted`), the other store (`points`), the notes and the callers that have
saved a note and not yet enqueued it (`asking`) or archived one and not yet
collected it (`hiding`). `worker.pc` follows `KnowledgeIndexWorker.executeNext`:
`read -> save -> upsert -> mark -> verify -> check -> commit`, and
`clean -> mend -> close` through its catch block. `loop` says who calls
`runNext`: a drain, the startup's rebuild or nobody. `collector[c]` is a call of
`collect`. `app` is the phase of `main.ts`: a start recovers cut-off jobs
(`Start`), lists and recovers written ones (`ListWritten`, `RecoverJob`),
collects, and goes up; `Shutdown` aborts the worker, `Exit` waits for it,
`Crash` waits for nothing and spares only the two stores.

**IndexContract** is a register per note: what a search finds changes only to
the revision the note has at that moment, and an archived note is hidden for
good. `KnowledgeIndex` refines it by `Shown`.

### What is abstracted

* User commands carry revisions; a stale one is refused and changes nothing, so
  only fresh ones appear. Repeated idempotent commands change nothing either.
* Only required questions are modelled (an optional one never changes a node).
  Whether artifacts, todos and approvals let a node complete is a free choice.
* Automatic dispatches are never cut off at 50 rows per pass, and a pass takes
  them in any order.
* `tool` and `ai_generate` nodes differ only in that a tool node cannot be
  retried; both are `Executable`.
* An AI run that is created failed is a live run that ends at once.
* One AI run id stands for one execution, so the size of `AiRuns` bounds the
  number of executions; `MaxAttempt`, `MaxLimit` and `MaxCrashes` bound the rest.
* Statuses that are only ever shown (`displayStatus`, logs, wording) are absent.
* A rollback gets its todos and artifacts as data; they decide nothing.
* Time in `Schedules` is a counter, a cron expression the set of its slots; a
  timer's longest delay (`MaxDelay`) stands for `MAX_TIMER_DELAY`. A run executes
  a skill: `main.ts` gives the service a tool runtime that refuses everything.
* The sources of `KnowledgeIndex` are notes, the ones with a version and an
  archive. A SQLite transaction or one Qdrant call is one step, a job and its
  generation have one number, and manifest and search points are one flag. A
  call of `collect` that finds all modelled collectors busy is left out. The
  rebuild counts a target as failed when the bound on jobs is reached. The
  last start is neither shut down nor crashed, so that liveness is about a
  program that stays up.

## 3. Runs

| run | instance | distinct states | what it shows |
|---|---|---|---|
| `WorkflowGraph` | every acyclic graph on 3 nodes, 8 statuses, limits 1..3 | 301,056 | `StableReadyIsTheSlice`, `AdmitFillsTheSlots`, `ProjectionShowsWork`, `PlanIsTheRollback`: arrays and worklist give what the operators say; admission fills the slots exactly and is idempotent; the projection hides no work |
| `NodeExecution` | diamond a -> {b, c} -> d, 2 slots, one retry of b, c and d skippable | 152,617 | `TypeOK`, `DependencyOrder`, `PendingIsUntouched`, `NoIdleSlot`, `AdmissionWithinLimit`, `CompletedTogether`, `ExecutionFollowsWorkflow`, and the refinement `ContractSpec` |
| `EngineOverlap` | one AI node that may be skipped, two executions, two crashes | 763,923 | `RunningHasExecution`, `LiveRunIsAwaited` |
| `EngineRecovery` | human node a -> AI node b, a retry, two crashes | 106,167 | `RecoveryRespectsUser` |
| `Rollback` | AI node a -> human node b, one slot, two attempts, one AI run, one crash, two coordinations, fairness | 370,888 | `RollbackTypeOK`, `SupersededRunIsStopped`, `RollbackIsCoordinated`, `StartupEnds`, and the refinement `RollbackContractSpec` |
| `Schedules` | one schedule with slots 1 and 3, two runs, two edits, one restart, a clock of three ticks, fairness | 458,642 | `TypeOK`, `SlotRunsOnce`, `OneActiveRun`, `RunningIsExecuted`, `QuietIsArmed`, `SlotIsNotDropped`, `DueSlotIsDecided` |
| `KnowledgeIndex` | one note that may be archived, two revisions, three jobs, one collector, one failing call, two starts, fairness | 358,134 | `TypeOK`, `OneCurrent`, `CurrentIsComplete`, `JobOutcome`, `BacklogIsKept`, `FreshWhenQuiet`, `PendingIsServed`, and the refinement `ContractSpec` |
| `Topology` | a -> b and an independent c, two slots, x to insert, two edits | 22,824 | `TypeOK`, `CompletedTogether`, `DependencyOrder`, `SomethingCanStart`, `PrecedenceIsKept` |
| `JoinOfWaiting` | the diamond | violation | finding 1 |
| `BranchRecovery` | two branches and their join, one crash | violation | finding 2 |
| `MissedSlot` | the instance of `Schedules` | violation | finding 3 |
| `StartupRefused` | the instance of `KnowledgeIndex`, no failing call | violation | finding 4 |

**Why the bounds are enough.** The rules of the graph look at a node, its direct
predecessors and the count of active nodes: three nodes give every relation
between two nodes and a third that competes for the slot, and limits up to three
reach "more slots than nodes". Three nodes are also the least in which the
worklist pushes one twice: an edge and a path of two beside it (`Discard` fires
only then). The diamond of `NodeExecution` has a fork, a join, two nodes that
compete for two slots and one that waits for both; lowering the limit to one
while both branches are active is among its behaviours. The statuses left out of
the first run (`blocked`, `skipped`, `cancelled`) fall into the same classes as
`waiting_user`, `completed` and `failed`. One node is enough for the races of
executions, which are about one node run; two executions of it give an old and a
new one, a crash reaches each of their steps, and a second one reaches the
recovery of the first: a node run whose recovered start failed is enqueued again
(`RequeueNode`) only then. `BindAiRun` needs an AI run
and fires in the engine's runs only. What the bounds do not reach is said where
a theorem takes over.

A chain of an AI step and a human step gives a rollback each kind of target: the
first node (everything is undone), the last one, and one whose AI run is live,
ended, or created but not yet bound; two coordinations are the least that can
overwrite each other. `Skippable` is empty there because of the first point
below the findings. Two slots with one between
them, and a timer that reaches one tick, make the scheduler arm, wake early,
continue and skip a slot; two runs are what an overlap and a slot run twice
need. One note is enough for the index because jobs of different notes meet only
in the queue's order, which the theorems cover for any number of notes: three
jobs give one that is current, one in the worker's hands and one that
supersedes; one fault reaches each call that can fail, and the crash each step.

Three nodes and one to insert let an edit meet a chain, a node beside it and a
node between two others; two edits are an edit of an edited workflow (remove
what was inserted, reverse what was connected). Two slots leave one node running
while another one is edited.

`CHECK_DEADLOCK FALSE` stands in every configuration because the system may
really stop: a completed workflow has nothing left to do, and an engine whose
AI run ids are used up waits for its user.

**Fairness.** `FairRollbackSpec` assumes weak fairness of `Process` as a whole:
while the program has code of its own to run (a coordination, the recovery, the
worker or an execution between two awaits) it runs some of it, and awaits of
SQLite return. It is not assumed that any one of them gets its turn. Nothing is
assumed of users, of the model gateway (`AiRunEnds`) or of crashes, so
`StartupEnds` holds even when no AI run ever ends and every dispatch fails.
`Schedules` assumes weak fairness of `SchedulerStep` and `StartupStep`, the event
loop and its timers, not of the clock, users or an execution, which may last as
long as it likes. `KnowledgeIndex` assumes it of `Work` and `Boot`: the worker's
promises settle and the startup goes on; saving, enqueueing, archiving,
collecting, shutdown and crash may happen or not.

Every property has a mutant in `PROJECT.json`, a change of one definition of
the kind a wrong edit of the code would make, that TLC finds to violate it. The
mutants stand next to the definitions they mutate.

## 4. Findings

1. **Two branches that wait block each other** (`JoinOfWaiting`).
   `updateExecution` calls `updateCurrentNode` when the execution's status does
   not change, and that throws unless the status is `running`
   (`repositories.ts:3847-3879`). While a second branch waits, completing the
   first would leave `waiting_user`: the transaction is rolled back, and neither
   can be completed.
2. **A waiting branch hides its siblings from recovery** (`BranchRecovery`).
   `recover-workflows.ts:66` looks at executions that are `running`; a question
   of one branch makes the whole execution `waiting_user`, and a sibling that
   was running at the crash stays `running` with nobody at work.
3. **A missed slot is forgotten** (`MissedSlot`). `recoverInterrupted` writes a
   new revision into the schedule of a run that was cut off, and the
   reconciliation then drops the cursor of the old revision with its overdue
   slot; a `run_once` schedule is not made up for.
4. **A startup that always refuses** (`StartupRefused`). A note archived while
   its job runs fails the job's generation without the job. The worker's catch
   block throws on it, the job stays `qdrant_written`, and at every later start
   `listQdrantWrittenRecovery` throws and the program quits.
Noticed on the way, described here without a run of their own:

* A node that is skipped before its predecessors are done, and then rolled back
  to, is `ready` although they are not (`domain/workflow-rollback.ts:77` asks
  only for a slot, the tests of `domain/workflow.test.ts:610` for done
  predecessors). `RollbackContractSpec` would fail on it; the theorems about the
  contract name it as their hypothesis (`RollsBackInOrder`, `SkipsFirst`).
* With two executions of one node, a late result can cancel a node that a
  rollback has undone. A job whose AI run was cancelled is about to finish
  attempt 1; meanwhile a retry makes attempt 2, a second start that had read
  attempt 1 reserves it again (`cancelled` may move to `running`), and a rollback
  makes the node `pending`; then `finishNode` of attempt 1 cancels it. TLC finds
  this when the chain gets two AI runs and three attempts. It is the other half of
  `RollsBackInOrder`; with two attempts it cannot happen
  (`TwoAttemptsKeepContract`).
* In the same way a second start that had read the node run as `ready` reserves
  it while it waits for an answer, which clears its AI run, so that a rollback does
  not write that run down to be cancelled. `SupersededRunIsStopped` names these
  executions (`Rivals`) and holds of all others.
* A gone session blocks every rollback. `cancelRun` throws for an AI run this
  session has not created (`dsh-ai-run-gateway.ts:1085`), so an operation that
  names one stays `coordination_pending` and every further rollback is refused;
  `docs/architecture.md:307` calls such a cancellation an idempotent success.
  `CancelRolledBack` and `Conclude` show it; `RollbackIsCoordinated` asks only
  that the coordination takes place.
* An edit can strand a workflow. `updateEdge` and `reorder` compute the statuses
  of the nodes anew and leave the node runs: with one slot, reversing the edge of
  a workflow `a -> b` that has not started makes `b` `ready` with a `pending` run
  and `a` `pending` with a `ready` one, and neither can be started or ended. The
  tests of `domain/workflow.test.ts:750` and `:870` look at the workflow alone.
  `SomethingCanStart` excludes it by name (`"moved"`); without that it fails.
* A node inserted in front of a `ready` one does not take its readiness: the
  later node can be started first (`domain/workflow.test.ts:535` asks for every
  direct predecessor to be done). `DependencyOrder` of `TopologyEdits` excludes
  it by name (`"ahead"`).
* A start that has read a node run as `ready` can reserve it after a rollback
  has cancelled it. The same holds after a retry has replaced a cancelled
  attempt: its execution takes the node, and `RunningHasExecution` fails. That is
  why `EngineOverlap` has one attempt; `EngineRecovery` and `Rollback` have two.
* An AI run that completes while its required question is open finds the node
  `waiting_user`; `waitForUser` throws and the catch of `settleNode` fails the
  node (`execute-workflow-node.ts`).
* A job cut off after its manifest was saved meets its own manifest when it is
  claimed again: the insert conflicts and the attempt fails (`SaveManifest`).
* Points that the worker upserts after an archive and a collection are marked
  deleted and stay in Qdrant; that is why `BacklogIsKept` speaks of notes that
  are not archived.
* An archive of the note being indexed makes the drain throw; jobs behind it
  wait for the next drain. `PendingIsServed` and `FreshWhenQuiet` exclude that
  state by name (`Stuck`).
* `stop` ends a drain; the loop of the startup's rebuild goes on claiming jobs
  until none is pending, and the exit waits for it.
* A run whose schedule is edited or deleted while it executes cannot be
  finished; it counts as active, and blocks its schedule, until the next start
  (named in `RunningIsExecuted`).
* The result of a manual or a catch-up run raises its schedule's revision without
  a notice to the scheduler (`schedule-service.ts:805`, `Finish`): the armed cursor
  is of the old revision, its slot is dropped when the timer fires, and a
  reconciliation that listed the schedule before leaves it without a cursor until
  the next refresh. `QuietIsArmed` excepts that state (`LastChangedByRun`), and
  `SlotIsNotDropped` speaks of cursors of the present revision.
* `settleNode` reads its binding before the transaction that ends the node
  (`execute-workflow-node.ts:162`), and a command can commit in between. Completing
  is refused by the revisions it read (`Conflicted`), `finishNode` is not: a node
  can be ended by a run that is no longer its own (`Settle`, then `SettleFailed`).
  No property excludes it. Where the attempt has been replaced meanwhile, it is among
  the cases that the hypotheses `RollsBackInOrder` and `WorksOnLatest` rule out.

`RunningHasExecution` fails where parallel branches meet a waiting one, for the
reason shown by `BranchRecovery`, and where an execution works for an attempt that
was replaced. It is therefore checked on one node with one attempt, and proved in
general under the hypothesis that neither happens. `ExecutionFollowsWorkflow`
allows two states in which the execution is not the projection: `waiting_user` over
running branches while the node in focus waits (as in finding 2),
and `created`, but only while the workflow is as instantiated and the requirement
pending. It also relates the requirement to the attempts: one still pending has no
attempt that runs, waits or was interrupted, though users may have skipped, paused
or completed nodes.

## 5. Proofs

Every theorem holds for every value of the constants that satisfies the
assumptions of its module; the bounds of the runs (`MaxAttempt`, `MaxCrashes`,
`MaxJobs` and the like) are constants as well, and no proof uses how large they
are unless its theorem says so. All invariants and action properties that the
passing runs check are stated by a theorem, two of them under hypotheses
(`RunningHasExecution`, `RollbackContractSpec`); TLC checks each of them on the
instance of its run too.

### The rules

`WorkflowRulesProofs` proves, for every finite acyclic graph, all statuses and
every limit:

| theorem | statement |
|---|---|
| `AdmissionFillsTheSlots` | `Spec => []AdmitFillsTheSlots`: admission and recount are idempotent, fill the slots, and exceed the limit only where started nodes did |
| `ProjectionShowsAllWork` | `Spec => []ProjectionShowsWork`: who can start or be admitted is seen |
| `SliceIsStableReady` | `Spec => []StableReadyIsTheSlice`: the array of `getStableReadyNodeIds` holds `StableReady`, each node once |
| `WorklistPlansTheRollback` | `PlanSpec => []PlanIsTheRollback`: the worklist ends only with the plan the transaction writes |
| `PlanningImplementsRules` | `PlanSpec => Spec`: planning and then writing is a rollback in one step, so the theorems above hold of the loop too |

The last three say that the operators the other proofs use are what the code
computes. A sorted array holds each member of its set behind as many as precede it
(`SortedRank`: it is injective, so it takes as many values as the set has, and the
ones before place `i` are the `i - 1` smaller ones); so its first `k` places are
`FirstK` (`SliceIsFirstK`). `WorklistInv` says of the worklist that what is visited
or waits is affected, and that an edge from a visited node leads to one that is
visited or waits; with an empty stack the visited nodes are closed under edges, and
`Affected` is the least such set.

The module instantiates the lemmas of `WorkflowGraphProofs` (`AdmissionLaw`,
`ProjectionLaw`), whose assumptions on a graph are invariants here
(`GraphIsValid`, `InvHolds`).

`FirstK` returns at most `k` members, because the number of members before a
member is an injection into `0..k-1` (`FirstKBound`), and, unless it returns the
whole set, at least `k`, because the first member left out has only members of the
slice before it (`FirstKFull`); so `Admit` never passes the limit
(`AdmitBounded`, `AdmitWithin`), leaves no slot idle (`AdmitFills`) and has
nothing left to do a second time (`AdmitTwice`). What a rollback touches is closed
under edges and holds none of the target's predecessors (`AffectedClosed`,
`PredsNotAffected`, from the absence of cycles; `RolledBackShape`).

### The aggregate

`NodeExecutionProofs` proves, for every finite acyclic graph, every limit,
number of attempts, retry limit and set of AI runs, from `GraphAssumption`,
`AcyclicAssumption` and `ExecutionAssumption` only:

| theorem | statement |
|---|---|
| `TypeCorrect` | `Spec => []TypeOK` |
| `PendingStaysUntouched` | `Spec => []PendingIsUntouched` |
| `DependenciesHold` | `Spec => []DependencyOrder` |
| `SlotsAreUsed` | `Spec => []NoIdleSlot` |
| `LimitIsKept` | `Spec => AdmissionWithinLimit` |
| `ExecutionFollows` | `Spec => []ExecutionFollowsWorkflow` |
| `CompletionIsJoint` | `Nodes # {}` implies `Spec => []CompletedTogether` |
| `ContractIsKept` | `Nodes # {}` implies `Spec => ContractSpec` |

**The argument.** The invariant that is inductive is
`Sound == TypeOK /\ PendingIsUntouched /\ DependencyOrder /\ NoIdleSlot`.
`DependencyOrder` alone is not: a transaction on a node run moves the node as
well, and only `PendingIsUntouched` rules out that a node run has been started
whose node is still pending. The seventeen actions are reduced to five kinds of
step on the workflow (`KindOfStep`), for which less is needed than
`PendingIsUntouched`, so that rollbacks can use it too: `Undisturbed`, that the
latest attempt of a pending node is pending and no earlier one at work. The kinds are
*quiet* (nodes unchanged), *moves* (a node changes between statuses that are
neither pending nor done), *leaves* (a node is cancelled or fails and its slot is
given away), *closes* (completed or skipped) and *resizes* (the limit changes). Each property is then preserved by each kind:
`OrderStep`, `SlotStep`, `LimitStep`, `CompletedStep`. The refinement follows
from the same split (`StagesAdvance`, `ContractStep`). `ExecutionFollowsWorkflow`
is inductive on its own given `TypeOK` (`FollowStep`). For the execution, a
transaction writes the projection, or leaves nodes, execution, focus and
requirement as they are, or opens a question and shows the node in focus waiting
for the user, the exception it names (`ExecWrites`). For the requirement, nothing
makes it pending again (`PendingIsLeftForGood`), and while it stays pending no
attempt is put to work, because the reservation that would do it makes it active
(`PendingIsAtRest`).

`CompletionIsJoint` and `ContractIsKept` assume `Nodes # {}`: the projection of
a workflow without nodes is `completed` while its execution is `created` and
its requirement `pending`, and no node is left whose completion could change
that. `validate-workflow-template-publication.ts:49` refuses to publish a
template without nodes.

### The knowledge index

`KnowledgeIndexProofs` proves, for any set of notes, number of revisions, jobs,
concurrent collections, failed calls and starts, from `IndexAssumption` only:

| theorem | statement |
|---|---|
| `IndexTypeCorrect` | `Spec => []TypeOK` |
| `AtMostOneCurrent` | `Spec => []OneCurrent` |
| `CurrentStaysComplete` | `Spec => []CurrentIsComplete` |
| `JobsAndGenerationsAgree` | `Spec => []JobOutcome` |
| `IndexContractIsKept` | `Spec => ContractSpec` |
| `BacklogStays` | `Spec => []BacklogIsKept` |
| `FirstRunEndsFresh` | `Spec => []FreshWhenQuiet` |

**The argument.** `IInv` is the invariant that is inductive. `OneCurrent` and
`CurrentIsComplete` are not, alone: that nothing deletes the points of a current
generation rests on who may delete. `Swept` says that what a collection holds is
retired or failed, and `GenSteps` that such a generation never changes again, so
a collection that read its list long ago still deletes nothing that is shown.
`WorkerHolds` says that the worker's job is `running` or `qdrant_written`, that
it works only while the program is up, and that what it verifies is written
unless its generation has failed under it; `Listed` says the same of the
candidates of the recovery, which runs only before. `Matched` ties a job to its
generation, so that the job in the worker's hands is never the completed one of
a current generation and the catch block deletes no points a search needs.
`Numbered`, `Bounded` and `Requested` are bookkeeping. `RowSteps` reduces the
twenty-odd actions to the eleven that change rows; `PromotionSteps` shows that a
step makes at most one generation current, one whose points are full and whose
note is as it was. The refinement follows: a promotion is `Publish`, an archive
`Archive`, a save `Write`, and every other step leaves `Shown` as it is.

`BacklogStays` has an inductive invariant of its own
over `IInv`. `Backlog` adds what makes a collection of three steps safe among
several others: a collection that is about to mark a generation has deleted its
points, nobody but the worker writes points, and the worker at `upsert` holds a
generation in staging, which is not garbage, unless the note was archived.

`FirstRunEndsFresh` says that the service forgets no edit. `FreshInv` follows an edit through the hands it
passes. `Asked`: the requests of a note rise to its present revision, and no job
was made for one of them. `OnItsWay`: once all are enqueued, some job of the note
is up to date and is shown, pending, or under way. `PendingIsNew`, `Unheld` and
`Working`: a pending job was never begun, a job begun is in the worker's hands,
and the worker does not fail one that is up to date. `Served`: where a job is
pending somebody drains, or a drain is due, unless a wedged job made a loop throw
(the `Stuck` of the property). `Opening` and `NoRebuild` say that the first start
finds nothing.

### The engine

`WorkflowEngineProofs` proves, for any workflow with a node and any number of
executions, attempts and crashes:

| theorem | statement |
|---|---|
| `EngineTypesCorrect` | `EngineSpec => []EngineTypeOK` |
| `EngineTakesTransactions` | `EngineSpec => Spec` |
| `EngineKeepsContract` | `EngineSpec` implies `DependencyOrder`, `NoIdleSlot`, `CompletedTogether`, `AdmissionWithinLimit` and `ContractSpec` |
| `LiveRunsAreAwaited` | `EngineSpec => []LiveRunIsAwaited` |
| `StartupRespectsUser` | `EngineSpec => RecoveryRespectsUser` |
| `RunningNodesAreAttended` | `EngineSpec /\ []ShowsRunning /\ []WorksOnLatest => []RunningHasExecution` |
| `LinearNodesAreAttended` | `Linear` and `SingleAttempts` imply `EngineSpec => []RunningHasExecution` |

The second is the reason the aggregate is an open module: the users, the worker,
the executions and the startup act on it by its transactions, or not at all, so
all that is proved of it holds under them (the third).

`LiveRunIsAwaited` needs that an id no execution has generated with is unused
(`RunsAreOwned`). `RecoveryRespectsUser` looks like a property of guards and is
not: the drain at startup meets dispatches of earlier sessions and executions that
started a moment ago. `StartupInv` says that until the worker is called nothing of
the earlier session is at work (`QuietRestart`), that the only execution about to
reserve is the one the worker waits for, on a node it has found `ready`, `failed`
or `interrupted`, and that an execution past its reservation has its node running
and to itself (`StartupOwnsItsNodes`). The last clause is what makes a late
result harmless there.

`RunningHasExecution` is false in general, and `RunningNodesAreAttended` says
exactly when: `ShowsRunning` (the execution is shown running while a node runs)
fails by finding 2, `WorksOnLatest` (who has reserved an attempt that is replaced
only waits for its AI run to end) by the late starts told of below the findings.
Under both it holds for parallel branches, retries and any number of executions
and crashes. `AttendedInv` is what is inductive then: node and latest node run are
running together (`RunsTogether`), a superseded attempt is over
(`SupersededIsOver`), the AI run written in a running attempt is the one an
execution of it awaits (`BoundToExecution`), and an execution whose AI run was
stopped or cut off finds its attempt over (`StoppedIsOver`, `InterruptedIsOver`).
Whether a failed settlement can be written is spelled out (`CanFinish`,
`CanSettleFailure`), since the prover has no rule for `ENABLED`.

`LinearNodesAreAttended` derives both hypotheses where any two nodes come one after
the other, what may be skipped comes first or last, and no retry is configured,
which covers the instance of `EngineOverlap`: at most one node is past `pending`
and not done, so a waiting branch has no running sibling (`LinearShowsRunning`),
and every id in a dispatch, the worker's list or an execution is a first attempt
(`OnlyFirst`).

### Rollback

`WorkflowRollbackProofs` proves

| theorem | statement |
|---|---|
| `RollbackReopens` | `RollBackTo(n)` is `Contract!Reopen`, if what comes before `n` is done |
| `RollbackKeepsOrder` | under the same condition it keeps `DependencyOrder` and makes `CompletedTogether` true |
| `RollbackTypesCorrect` | `RollbackSpec => []RollbackTypeOK` |
| `RolledBackRunsAreAwaited` | `RollbackSpec => []LiveRunIsAwaited` |
| `CoordinationRespectsUser` | `RollbackSpec => RecoveryRespectsUser` |
| `SupersededRunsAreStopped` | `RollbackSpec => []SupersededRunIsStopped` |
| `RollbacksInOrderKeepContract` | if every rollback is `RollsBackInOrder`, `RollbackSpec` implies `RollbackContractSpec`, `[]DependencyOrder` and `[]CompletedTogether` |
| `TwoAttemptsKeepContract` | `AtMostTwoAttempts` and `SkipsFirst` imply `RollbackSpec => RollbackContractSpec` |

All but the first two assume a node at least. `RolledBackRunsAreAwaited` and
`CoordinationRespectsUser` extend the invariants of the engine over rollbacks,
coordinations that fail and repeat, and the coordination at startup. The first two
are about the transaction alone.

`SupersededRunsAreStopped` follows an AI run through the hands it passes.
`BoundOrStopped`: while its execution awaits it, it is bound to an attempt that is
not cancelled, or about to be stopped, or in the unresolved operation, or a rival
has taken its attempt. The rollback moves it from the first to the third, and
`CoordinationsKnow` keeps it there: what a coordination has dealt with is no longer
live, unless another one has saved the operation meanwhile, and then it saves
nothing itself. `OnlyGenerated` says that no row names an AI run that is not made
yet, so that a run created after the rollback is not taken for stopped.

`RollbackContractSpec` is false of rollbacks at large, for the two reasons told of
below the findings, and `RollsBackInOrder(n)` names them: what comes before `n` is
done, and no replaced attempt of an affected node is at work (`AtWork`: in a state
from which a late result still moves it). `InOrder` is inductive then;
`PendingIsUntouched` is not kept by rollbacks, `Undisturbed` is, and it is all that
the steps of the engine need (`KindOfStep`). `TwoAttemptsKeepContract` speaks of the
behaviours in which no node gets a third attempt: what a rollback undoes has only
its first one then, so none that was replaced before, and a node that can be skipped
has nothing before it (`SkipsFirst`). There the contract holds without a condition
on the steps; the instance of `Rollback` is one of these.

### Topology edits

`TopologyEditsProofs` proves, for any template, ids, limit and number of edits:

| theorem | statement |
|---|---|
| `EditsKeepWorkflowValid` | `Spec => []TypeOK`: an acyclic graph, positions without gaps, a run per node |
| `EditsKeepCompletion` | `DOMAIN Template # {}` implies `Spec => []CompletedTogether` |
| `EditsKeepOrder` | `Spec => []DependencyOrder` |
| `EditsStrandNothing` | `DOMAIN Template # {}` implies `Spec => []SomethingCanStart` |
| `EditsKeepPrecedence` | `Spec => PrecedenceIsKept` |

`CompletedTogether` is not inductive: removing an open node could leave only nodes
that are done. `SomeOpen` says why it does not: unless all are done, somebody is
neither pending nor done, and such a node cannot be removed. What keeps that true
is `AdmitOpens`: in an acyclic graph where nobody is active and some are pending,
one of the pending ones is ready, and the first of those is admitted, because the
limit is at least one. It holds of a recount from scratch (`RescheduledOpens`) and
of the end of a node alike. `SomethingCanStart` adds `InStep`: while readiness was
never moved, node runs have the statuses of their nodes. Precedence is a matter of
closed sets: a set closed under the edges after a removal becomes closed under
those before it by adding the removed node exactly if one of its successors is
in the set (`RemoveKeepsPrecedence`), and an insertion splits an edge, which
closes nothing new (`InsertKeepsPrecedence`).

### Schedules

`SchedulesProofs` proves, for any schedules, crons, policies, runs, edits and
restarts, from `ScheduleAssumption` only:

| theorem | statement |
|---|---|
| `SchedulesTypeCorrect` | `Spec => []TypeOK` |
| `OneRunAtATime` | `Spec => []OneActiveRun` |
| `EachSlotRunsOnce` | `Spec => []SlotRunsOnce` |
| `RunningRunsAreExecuted` | `Spec => []RunningIsExecuted` |
| `NoSlotIsDropped` | `Spec => SlotIsNotDropped` |
| `QuietSchedulerIsArmed` | `Spec => []QuietIsArmed` |

`Shape` adds to the types that rows and calls are complete. A slot is decided only
when it is past (`SlotsArePast`), and a cursor lies ahead of every slot its
schedule has run (`CursorsAreAhead`). That is not inductive by itself, because a
reconciliation writes cursors it has computed before other steps came in between;
`PlansAreAhead` says that a plan which will still be written is ahead as well,
since whoever runs a slot in between moves the cursor's revision or the
schedule's. Both rest on `RevisionsAreRead`: whoever holds a revision has read it
from the schedule. `RunningIsExecuted` needs `JobsOwnTheirRuns`, that an execution
knows the run it works for. `SlotIsNotDropped` needs `PlansFollowCursors`, that the
plan for an up-to-date cursor is up to date. `QuietIsArmed` needs the most:
`SchedulerIsOrderly` (a timer stands only when nothing else is to be done, and what
is under way is superseded exactly when a refresh is queued), `CursorsAreRight`
(whoever changed a schedule since it was listed has queued a refresh, except the
result of a run) and `TimerIsRight`.

### What is only model-checked

* Liveness: `StartupEnds`, `RollbackIsCoordinated`, `DueSlotIsDecided`,
  `PendingIsServed`. The prover has no rule for fairness here.
* `RunningHasExecution` and `RollbackContractSpec` beyond the hypotheses of their
  theorems: they are false there, as told below the findings.
* The properties of the runs that expect a violation are false of the code.
* That sorting and filtering an array gives the sorted array of what passes the
  filter is taken from the language: `Sorted` is the result, and what a recursive
  sort or filter computes would be an induction over the data.

## 6. Not modelled, and why

`PROJECT.json` lists every component with its status. Left out for good:
terminal, overlay, files and documents, Python worker, IPC and renderer,
adapters to connectors and model protocols (input, output and data conversion,
with little control of their own). Left out so far: what the plan
below names. Of modelled components these parts are missing:

* *Knowledge indexing*: the incremental builds and document states of
  repositories, the index keys of files, documents, artifacts and memories,
  profile rotation, and the cleanup of deleted workspaces. They share the queue
  and the worker of `KnowledgeIndex` and add data to its rows.
* *Schedules*: the command log that makes repeated commands idempotent.
* *AI run of a node*: event sequence numbers and the artifact's file.
* *Node questions and gates*: options, optional questions, stored approvals.
* *Topology edits*: `updateNode`, which changes names and configuration only, and
  nodes that wait, pause or are retried between edits.
* *Workflow graph rules*: publication of templates.

Most of the repository by lines is data and presentation: catalogues of
providers and extensions, localised messages, validation of IPC payloads,
SQL migrations, the renderer. It has no behaviour a state machine would show.

## 7. Plan

Done, in this order: rules, aggregate and promise (`WorkflowGraph`,
`NodeExecution`, `WorkflowContract`); the processes
(`WorkflowEngine`); `Schedules`; `WorkflowRollback`; `KnowledgeIndex` and
`IndexContract`; `TopologyEdits`; the proofs of section 5; and `RollbackPlan`. Left, in order of
weight:

1. Liveness of dispatches in `WorkflowEngine` (a request lost in `closing`,
   `finishNode` without a drain), and a property over the identity of runs for
   results that arrive late.
2. `ArtifactStream`: the event sequence of an AI run and the commit of its
   artifact with file and row. Abstract specification: each event is applied
   once, in order.
3. `ConnectionCoordinator` (re-entrant lock; theorem: at most one transaction)
   and `ConcurrencyLimiter` (slots per key with `clear`).
4. Incremental repository builds in `KnowledgeIndex`.
5. DSH session lifecycle and pending calls, staged restore, trash with its
   directories.
6. Proofs: a weaker contract that holds of every rollback, with the two exceptions
   of `RollsBackInOrder` as steps of their own, and the workflows between linear
   ones and those with finding 2 for `RunningHasExecution`.
