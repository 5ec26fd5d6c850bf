------------------------ MODULE WorkflowEngineProofs ------------------------
(***************************************************************************)
(* Proofs about WorkflowEngine: it only takes the transactions of          *)
(* NodeExecution, so what is proved of the open aggregate holds of the     *)
(* driven one; no AI run streams into the void; what runs while the        *)
(* process starts leaves the nodes the user or the gates hold alone; and a *)
(* running NodeRun has its execution.                                      *)
(***************************************************************************)
EXTENDS WorkflowEngine, NodeExecutionProofs

JobTable == [AiRuns -> [pc : JobPc, id : NodeRunIds, by : {"user", "auto", "recovery"}]]

WorkerType == [state : {"idle", "list", "pass", "closing"}, todo : SUBSET Dispatches,
               busy : AiRuns \cup {NoRun}, again : BOOLEAN]

-----------------------------------------------------------------------------
(* What the helpers of the engine return.                                  *)

LEMMA JobsType ==
  ASSUME NEW jobs \in JobTable
  PROVE  /\ Conflicted(jobs) \in JobTable
         /\ \A r \in AiRuns :
              /\ Conflicted(jobs)[r].id = jobs[r].id
              /\ Conflicted(jobs)[r].by = jobs[r].by
              /\ \/ Conflicted(jobs)[r].pc = jobs[r].pc
                 \/ jobs[r].pc = "complete" /\ Conflicted(jobs)[r].pc = "error"
<1>1. ASSUME NEW r \in AiRuns
      PROVE  /\ Conflicted(jobs)[r] \in [pc : JobPc, id : NodeRunIds, by : {"user", "auto", "recovery"}]
             /\ Conflicted(jobs)[r].id = jobs[r].id
             /\ Conflicted(jobs)[r].by = jobs[r].by
             /\ \/ Conflicted(jobs)[r].pc = jobs[r].pc
                \/ jobs[r].pc = "complete" /\ Conflicted(jobs)[r].pc = "error"
  <2>1. jobs[r] \in [pc : JobPc, id : NodeRunIds, by : {"user", "auto", "recovery"}]
    BY DEF JobTable
  <2> QED BY <2>1 DEF Conflicted, JobPc
<1> QED BY <1>1 DEF JobTable, Conflicted

LEMMA AtType ==
  ASSUME job \in JobTable, NEW r \in AiRuns, NEW pc \in JobPc
  PROVE  /\ At(r, pc) \in JobTable
         /\ At(r, pc)[r].pc = pc
         /\ \A q \in AiRuns : /\ At(r, pc)[q].id = job[q].id
                              /\ At(r, pc)[q].by = job[q].by
                              /\ q # r => At(r, pc)[q] = job[q]
BY DEF At, JobTable

LEMMA NewRunIsFree ==
  ASSUME FreeRuns # {}
  PROVE  NewRun \in AiRuns /\ job[NewRun].pc = "free"
BY DEF NewRun, FreeRuns

LEMMA StartedType ==
  ASSUME job \in JobTable, FreeRuns # {}, NEW id \in NodeRunIds,
         NEW by \in {"user", "auto", "recovery"}
  PROVE  /\ Started(job, id, by) \in JobTable
         /\ Started(job, id, by)[NewRun] = [pc |-> "route", id |-> id, by |-> by]
         /\ \A r \in AiRuns \ {NewRun} : Started(job, id, by)[r] = job[r]
<1>1. NewRun \in AiRuns
  BY NewRunIsFree
<1>2. [pc |-> "route", id |-> id, by |-> by]
        \in [pc : JobPc, id : NodeRunIds, by : {"user", "auto", "recovery"}]
  BY DEF JobPc
<1> HIDE DEF NewRun
<1> QED BY <1>1, <1>2 DEF Started, JobTable

LEMMA ServedType ==
  ASSUME EngineTypeOK
  PROVE  /\ Dispatchable \subseteq Dispatches
         /\ Rows(served) \subseteq Dispatches
BY DEF EngineTypeOK, TypeOK, Dispatchable, Dispatches, Rows

LEMMA DrainType ==
  ASSUME EngineTypeOK, DrainRequested
  PROVE  /\ worker' \in WorkerType
         /\ worker'.todo = worker.todo /\ worker'.busy = worker.busy
BY DEF EngineTypeOK, WorkerType, DrainRequested

-----------------------------------------------------------------------------
(* Types, and the transactions of NodeExecution.                           *)

\* What EngineTypeOK says of the engine's own variables.
EngineVars ==
  /\ ai \in [AiRuns -> AiStatus]
  /\ job \in JobTable
  /\ served \subseteq Dispatches
  /\ worker \in WorkerType
  /\ stop \subseteq AiRuns
  /\ answered \subseteq NodeRunIds
  /\ phase \in Startup \cup {"up"}
  /\ crashes \in 0..MaxCrashes

LEMMA EngineTypeParts == EngineTypeOK <=> TypeOK /\ EngineVars
BY DEF EngineTypeOK, EngineVars, JobTable, WorkerType

\* A transaction of a job of NodeRun id that leaves it at pc.
LEMMA TxType ==
  ASSUME EngineTypeOK, NEW jobs \in JobTable,
         job' = Conflicted(jobs), served' = Rows(served)
  PROVE  job' \in JobTable /\ served' \subseteq Dispatches
BY JobsType, ServedType

LEMMA ExecutionTypes ==
  ASSUME EngineTypeOK, NEW r \in AiRuns, Execution(r)
  PROVE  [Next]_vars /\ EngineVars'
<1> USE EngineTypeParts
<1>j. job[r].id \in NodeRunIds /\ job \in JobTable /\ ai[r] \in AiStatus
  BY DEF EngineVars, JobTable
<1>a. \A pc \in JobPc : At(r, pc) \in JobTable
  BY <1>j, AtType
<1>c. \A pc \in JobPc : job' = Conflicted(At(r, pc)) /\ served' = Rows(served)
                          => job' \in JobTable /\ served' \subseteq Dispatches
  BY <1>a, TxType
<1>v. crashes \in 0..MaxCrashes /\ stop \subseteq AiRuns /\ answered \subseteq NodeRunIds
      /\ phase \in Startup \cup {"up"} /\ worker \in WorkerType /\ served \subseteq Dispatches
      /\ ai \in [AiRuns -> AiStatus]
  BY DEF EngineVars
<1>d. DrainRequested => worker' \in WorkerType
  BY DrainType
<1>o. Outcome(r) \in {"failed", "cancelled"}
  BY DEF Outcome
<1>p. {"route", "generate", "bind", "undo", "await", "complete",
       "wait", "error", "fail", "done", "thrown"} \subseteq JobPc
  BY DEF JobPc
<1> HIDE EngineTypeParts
<1>1. CASE RouteFails(r)
  BY <1>1, <1>a, <1>v, <1>p DEF RouteFails, EngineVars, vars
<1>2. CASE Reserve(r)
  <2>1. /\ job' \in JobTable /\ served' \subseteq Dispatches
        /\ UNCHANGED <<ai, worker, stop, answered, phase, crashes>>
    BY <1>2, <1>a, <1>c, <1>v, <1>p DEF Reserve, Tx
  <2>2. ReserveNode(job[r].id) \/ UNCHANGED vars
    BY <1>2 DEF Reserve, Tx
  <2> QED BY <1>j, <1>v, <2>1, <2>2 DEF EngineVars, Next
<1>3. CASE Generate(r)
  <2>1. ai' \in [AiRuns -> AiStatus]
    BY <1>3, <1>v DEF Generate, AiStatus
  <2>2. job' \in JobTable
    BY <1>3, <1>a, <1>p DEF Generate
  <2> QED BY <1>3, <1>v, <2>1, <2>2 DEF Generate, EngineVars, vars
<1>4. CASE Bind(r)
  <2>1. /\ job' \in JobTable /\ served' \subseteq Dispatches
        /\ UNCHANGED <<ai, worker, stop, answered, phase, crashes>>
    BY <1>4, <1>a, <1>c, <1>v, <1>p DEF Bind, Tx
  <2>2. BindAiRun(job[r].id, r) \/ UNCHANGED vars
    BY <1>4 DEF Bind, Tx
  <2> QED BY <1>j, <1>v, <2>1, <2>2 DEF EngineVars, Next
<1>5. CASE Undo(r)
  <2>1. /\ job' \in JobTable /\ served' \subseteq Dispatches
        /\ UNCHANGED <<worker, stop, answered, phase, crashes>>
    BY <1>5, <1>a, <1>c, <1>v, <1>p DEF Undo, Tx
  <2>2. FailRecovery(job[r].id) \/ FinishNode(job[r].id, "failed") \/ UNCHANGED vars
    BY <1>5 DEF Undo, Tx, SettleFailure
  <2>3. ai' \in [AiRuns -> AiStatus]
    BY <1>5, <1>v DEF Undo, AiStatus
  <2> QED BY <1>j, <1>v, <2>1, <2>2, <2>3 DEF EngineVars, Next
<1>6. CASE Settle(r)
  <2>1. \E pc \in {"done", "complete", "fail"} : job' = At(r, pc)
    BY <1>6 DEF Settle
  <2> QED BY <1>6, <2>1, <1>a, <1>v, <1>p DEF Settle, EngineVars, vars
<1>7. CASE Complete(r)
  <2>1. /\ job' \in JobTable /\ served' \subseteq Dispatches /\ worker' \in WorkerType
        /\ UNCHANGED <<ai, stop, answered, phase, crashes>>
    BY <1>7, <1>a, <1>c, <1>d, <1>v, <1>p DEF Complete, Tx
  <2>2. CompleteNode(job[r].id) \/ UNCHANGED vars
    BY <1>7 DEF Complete, Tx
  <2> QED BY <1>j, <1>v, <2>1, <2>2 DEF EngineVars, Next
<1>8. CASE WaitGate(r)
  <2>1. /\ job' \in JobTable /\ served' \subseteq Dispatches
        /\ UNCHANGED <<ai, worker, stop, answered, phase, crashes>>
    BY <1>8, <1>a, <1>c, <1>v, <1>p DEF WaitGate, Tx
  <2>2. WaitForUser(job[r].id) \/ UNCHANGED vars
    BY <1>8 DEF WaitGate, Tx
  <2> QED BY <1>j, <1>v, <2>1, <2>2 DEF EngineVars, Next
<1>9. CASE SettleError(r)
  BY <1>9, <1>a, <1>v, <1>p DEF SettleError, EngineVars, vars
<1>10. CASE SettleFailed(r)
  <2>1. /\ job' \in JobTable /\ served' \subseteq Dispatches
        /\ UNCHANGED <<ai, worker, stop, answered, phase, crashes>>
    BY <1>10, <1>a, <1>c, <1>v, <1>p DEF SettleFailed, Tx
  <2>2. FinishNode(job[r].id, Outcome(r)) \/ UNCHANGED vars
    BY <1>10 DEF SettleFailed, Tx
  <2> QED BY <1>j, <1>v, <1>o, <2>1, <2>2 DEF EngineVars, Next
<1> QED BY <1>1, <1>2, <1>3, <1>4, <1>5, <1>6, <1>7, <1>8, <1>9, <1>10 DEF Execution

LEMMA AiRunTypes ==
  ASSUME EngineTypeOK, NEW r \in AiRuns,
         AiRunEnds(r) \/ CompletionDropped(r) \/ CancelRun(r)
  PROVE  [Next]_vars /\ EngineVars'
<1>v. EngineVars
  BY EngineTypeParts
<1>1. CASE AiRunEnds(r)
  <2>1. ai' \in [AiRuns -> AiStatus]
    BY <1>1, <1>v DEF AiRunEnds, EngineVars, AiStatus
  <2> QED BY <1>1, <1>v, <2>1 DEF AiRunEnds, EngineVars, vars
<1>2. CASE CompletionDropped(r)
  <2>1. job' \in JobTable
    BY <1>2, <1>v, AtType DEF CompletionDropped, EngineVars, JobPc
  <2> QED BY <1>2, <1>v, <2>1 DEF CompletionDropped, EngineVars, vars
<1>3. CASE CancelRun(r)
  <2>1. ai' \in [AiRuns -> AiStatus]
    BY <1>3, <1>v DEF CancelRun, EngineVars, AiStatus
  <2> QED BY <1>3, <1>v, <2>1 DEF CancelRun, EngineVars, vars
<1> QED BY <1>1, <1>2, <1>3

LEMMA WorkerTypes ==
  ASSUME EngineTypeOK, Worker
  PROVE  [Next]_vars /\ EngineVars'
<1>v. EngineVars /\ Dispatchable \subseteq Dispatches
  BY EngineTypeParts, ServedType
<1>w. worker.todo \subseteq Dispatches /\ worker \in WorkerType /\ NoRun \notin AiRuns
  BY <1>v, ExecutionAssumption DEF EngineVars, WorkerType, ExecutionAssumption
<1>1. CASE ListDispatches
  <2>1. worker' \in WorkerType
    BY <1>1, <1>v, <1>w DEF ListDispatches, WorkerType
  <2> QED BY <1>1, <1>v, <2>1 DEF ListDispatches, EngineVars, vars
<1>2. CASE ReturnToWorker
  <2>1. worker' \in WorkerType
    BY <1>2, <1>w DEF ReturnToWorker, WorkerType
  <2>2. served' \subseteq Dispatches
    BY <1>2, <1>v DEF ReturnToWorker, EngineVars
  <2> QED BY <1>2, <1>v, <2>1, <2>2 DEF ReturnToWorker, EngineVars, vars
<1>3. CASE EndPass \/ EndDrain
  <2>1. worker' \in WorkerType
    BY <1>3, <1>w DEF EndPass, EndDrain, WorkerType
  <2> QED BY <1>3, <1>v, <2>1 DEF EndPass, EndDrain, EngineVars, vars
<1>4. ASSUME NEW d \in worker.todo, ProcessDispatch(d) PROVE [Next]_vars /\ EngineVars'
  <2>1. d[2] \in NodeRunIds /\ d[1] \in {"user", "auto", "recovery"}
    BY <1>w DEF Dispatches
  <2>2. worker' \in WorkerType
    BY <1>4, <1>w, NewRunIsFree DEF ProcessDispatch, WorkerType
  <2>3. job' \in JobTable
    BY <1>4, <1>v, <2>1, StartedType DEF ProcessDispatch, EngineVars
  <2>4. served' \subseteq Dispatches
    BY <1>4, <1>v DEF ProcessDispatch, EngineVars
  <2> QED BY <1>4, <1>v, <2>2, <2>3, <2>4 DEF ProcessDispatch, EngineVars, vars
<1> QED BY <1>1, <1>2, <1>3, <1>4 DEF Worker

LEMMA UserTypes ==
  ASSUME EngineTypeOK, User
  PROVE  [Next]_vars /\ EngineVars'
<1>v. EngineVars /\ TypeOK
  BY EngineTypeParts
<1>j. job \in JobTable /\ stop \subseteq AiRuns /\ answered \subseteq NodeRunIds
  BY <1>v DEF EngineVars
<1>d. DrainRequested => worker' \in WorkerType
  BY DrainType
<1>2. ASSUME NEW n \in Nodes, Start(n) PROVE [Next]_vars /\ EngineVars'
  <2>1. job' \in JobTable
    BY <1>2, <1>j, <1>v, LatestRun, StartedType DEF Start
  <2> QED BY <1>2, <1>v, <2>1 DEF Start, EngineVars, vars
<1>3. ASSUME NEW n \in Nodes, Pause(n) \/ Cancel(n) PROVE [Next]_vars /\ EngineVars'
  <2>1. Latest(n) \in NodeRunIds
    BY <1>v, LatestRun
  <2>2. run[Latest(n)].ai \in AiRuns \cup {NoRun}
    BY <1>v, <2>1 DEF TypeOK, RunRecord
  <2>3. stop' \subseteq AiRuns
    BY <1>3, <1>j, <2>2 DEF Pause, Cancel
  <2>4. /\ job' \in JobTable /\ served' \subseteq Dispatches
        /\ UNCHANGED <<ai, phase, crashes, worker, answered>>
    BY <1>3, <1>j, TxType DEF Pause, Cancel, UserTx, Tx
  <2>5. PauseNode(n) \/ CancelNode(n)
    BY <1>3 DEF Pause, Cancel, UserTx, Tx
  <2> QED BY <1>v, <2>3, <2>4, <2>5 DEF EngineVars, Next
<1>4. ASSUME NEW n \in Nodes, Resume(n) PROVE [Next]_vars /\ EngineVars'
  <2>1. Latest(n) \in NodeRunIds
    BY <1>v, LatestRun
  <2>2. Started(job, Latest(n), "user") \in JobTable
    BY <1>4, <1>j, <2>1, StartedType DEF Resume
  <2>3. /\ job' \in JobTable /\ served' \subseteq Dispatches
        /\ UNCHANGED <<ai, phase, crashes, worker, stop, answered>>
    BY <1>4, <2>2, TxType DEF Resume, UserTx, Tx
  <2>4. ResumeNode(n)
    BY <1>4 DEF Resume, UserTx, Tx
  <2> QED BY <1>v, <2>3, <2>4 DEF EngineVars, Next
<1>5. ASSUME NEW n \in Nodes, Skip(n) PROVE [Next]_vars /\ EngineVars'
  <2>1. /\ job' \in JobTable /\ served' \subseteq Dispatches
        /\ UNCHANGED <<ai, phase, crashes, worker, stop, answered>>
    BY <1>5, <1>j, TxType DEF Skip, UserTx, Tx
  <2>2. SkipNode(n)
    BY <1>5 DEF Skip, UserTx, Tx
  <2> QED BY <1>v, <2>1, <2>2 DEF EngineVars, Next
<1>6. ASSUME NEW n \in Nodes, Retry(n) PROVE [Next]_vars /\ EngineVars'
  <2>1. PrepareRetry(n)
    BY <1>6 DEF Retry, UserTx, Tx
  <2>2. latest[n] + 1 \in Attempts
    BY <1>v, <2>1, ExecutionAssumption DEF PrepareRetry, TypeOK, Attempts, ExecutionAssumption
  <2>3. <<n, latest[n] + 1>> \in NodeRunIds
    BY <2>2 DEF NodeRunIds
  <2>4. FreeRuns # {} => Started(job, <<n, latest[n] + 1>>, "user") \in JobTable
    BY <1>j, <2>3, StartedType
  <2>5. \E jobs \in JobTable : job' = Conflicted(jobs) /\ served' = Rows(served)
    BY <1>6, <1>j, <2>4 DEF Retry, UserTx, Tx
  <2>6. UNCHANGED <<ai, phase, crashes, worker, stop, answered>>
    BY <1>6 DEF Retry, UserTx, Tx
  <2> QED BY <1>v, <2>1, <2>5, <2>6, TxType DEF EngineVars, Next
<1>7. ASSUME NEW k \in 1..MaxLimit, ChangeParallelism(k) PROVE [Next]_vars /\ EngineVars'
  <2>1. /\ job' \in JobTable /\ served' \subseteq Dispatches
        /\ UNCHANGED <<ai, phase, crashes, worker, stop, answered>>
    BY <1>7, <1>j, TxType DEF ChangeParallelism, UserTx, Tx
  <2>2. SetParallelism(k)
    BY <1>7 DEF ChangeParallelism, UserTx, Tx
  <2> QED BY <1>v, <2>1, <2>2 DEF EngineVars, Next
<1>8. ASSUME NEW id \in NodeRunIds, ResolveGate(id) PROVE [Next]_vars /\ EngineVars'
  <2>1. CASE UserTx(CompleteNode(id), job) /\ DrainRequested
    <3>1. /\ job' \in JobTable /\ served' \subseteq Dispatches
          /\ UNCHANGED <<ai, phase, crashes>>
      BY <2>1, <1>j, TxType DEF UserTx, Tx
    <3>2. CompleteNode(id)
      BY <2>1 DEF UserTx, Tx
    <3>3. UNCHANGED <<stop, answered>>
      BY <1>8 DEF ResolveGate
    <3> QED BY <1>v, <1>d, <2>1, <3>1, <3>2, <3>3 DEF EngineVars, Next
  <2>2. CASE ~(UserTx(CompleteNode(id), job) /\ DrainRequested)
    <3>1. /\ job' = [r \in AiRuns |->
                       IF job[r].pc = "complete" /\ job[r].id = id
                       THEN [job[r] EXCEPT !.pc = "error"] ELSE job[r]]
          /\ UNCHANGED <<vars, ai, served, worker, phase, crashes, stop, answered>>
      BY <1>8, <2>2 DEF ResolveGate
    <3>2. job' \in JobTable
      BY <1>j, <3>1 DEF JobTable, JobPc
    <3> QED BY <1>v, <3>1, <3>2 DEF EngineVars, vars
  <2> QED BY <2>1, <2>2
<1>9. ASSUME NEW id \in NodeRunIds, Ask(id) \/ Answer(id) PROVE [Next]_vars /\ EngineVars'
  <2>1. /\ job' \in JobTable /\ served' \subseteq Dispatches
        /\ UNCHANGED <<ai, phase, crashes, worker, stop>>
        /\ answered' \subseteq NodeRunIds
    BY <1>9, <1>j, TxType DEF Ask, Answer, UserTx, Tx
  <2>2. OpenQuestion(id) \/ ResolveQuestion(id)
    BY <1>9 DEF Ask, Answer, UserTx, Tx
  <2> QED BY <1>v, <2>1, <2>2 DEF EngineVars, Next
<1>10. ASSUME NEW id \in NodeRunIds, Reevaluate(id) PROVE [Next]_vars /\ EngineVars'
  <2>1. /\ UNCHANGED <<ai, phase, stop>>
        /\ answered' \subseteq NodeRunIds
    BY <1>10, <1>j DEF Reevaluate
  <2>2. CASE Tx(CompleteNode(id), job) /\ DrainRequested
    <3>1. job' \in JobTable /\ served' \subseteq Dispatches /\ UNCHANGED crashes
      BY <2>2, <1>j, TxType DEF Tx
    <3>2. CompleteNode(id)
      BY <2>2 DEF Tx
    <3> QED BY <1>v, <1>d, <2>1, <2>2, <3>1, <3>2 DEF EngineVars, Next
  <2>3. CASE UNCHANGED <<vars, job, served, worker, crashes>>
    BY <1>v, <2>1, <2>3 DEF EngineVars, vars
  <2> QED BY <1>10, <2>2, <2>3 DEF Reevaluate
<1> QED BY <1>2, <1>3, <1>4, <1>5, <1>6, <1>7, <1>8, <1>9, <1>10 DEF User

LEMMA RecoveryTypes ==
  ASSUME EngineTypeOK, Recovery
  PROVE  [Next]_vars /\ EngineVars'
<1>v. EngineVars /\ TypeOK
  BY EngineTypeParts
<1>j. job \in JobTable
  BY <1>v DEF EngineVars
<1>p. {"runs", "interrupt", "requeue", "drain", "reconcile", "redrain", "up"}
        = Startup \cup {"up"}
  BY DEF Startup
<1>d. DrainRequested => worker' \in WorkerType
  BY DrainType
<1>1. CASE RecoverRuns
  <2>1. ai' \in [AiRuns -> AiStatus]
    BY <1>1, <1>v DEF RecoverRuns, EngineVars, AiStatus
  <2> QED BY <1>1, <1>v, <1>p, <2>1 DEF RecoverRuns, EngineVars, vars
<1>2. CASE NextPhase
  <2>1. phase' \in Startup \cup {"up"}
    BY <1>2, <1>p DEF NextPhase
  <2>2. worker' \in WorkerType
    BY <1>2, <1>v, <1>d DEF NextPhase, EngineVars
  <2> QED BY <1>2, <1>v, <2>1, <2>2 DEF NextPhase, EngineVars, vars
<1>3. CASE Reconcile
  <2>1. worker' \in WorkerType /\ phase' \in Startup \cup {"up"}
    BY <1>3, <1>p, <1>d DEF Reconcile
  <2>2. job' \in JobTable /\ served' \subseteq Dispatches /\ UNCHANGED crashes
    BY <1>3, <1>v, <1>j, TxType DEF Reconcile, Tx, EngineVars
  <2>3. ReconcileDispatches \/ UNCHANGED vars
    BY <1>3 DEF Reconcile, Tx
  <2>4. UNCHANGED <<ai, stop, answered>>
    BY <1>3 DEF Reconcile
  <2> QED BY <1>v, <2>1, <2>2, <2>3, <2>4 DEF EngineVars, Next
<1>4. ASSUME NEW n \in Nodes, RecoverNode(n) \/ RequeueNode(n)
      PROVE  [Next]_vars /\ EngineVars'
  <2>1. Latest(n) \in NodeRunIds
    BY <1>v, LatestRun
  <2>2. /\ job' \in JobTable /\ served' \subseteq Dispatches
        /\ UNCHANGED <<ai, worker, stop, answered, phase, crashes>>
    BY <1>4, <1>j, TxType DEF RecoverNode, RequeueNode, Tx
  <2>3. InterruptNode(Latest(n)) \/ RequeueInterrupted(n)
    BY <1>4 DEF RecoverNode, RequeueNode, Tx
  <2> QED BY <1>v, <2>1, <2>2, <2>3 DEF EngineVars, Next
<1> QED BY <1>1, <1>2, <1>3, <1>4 DEF Recovery

LEMMA CrashTypes ==
  ASSUME EngineTypeOK, Crash
  PROVE  [Next]_vars /\ EngineVars'
<1>v. EngineVars
  BY EngineTypeParts
<1>1. job' \in JobTable
  BY <1>v DEF Crash, EngineVars, JobTable, JobPc
<1>2. worker' \in WorkerType
  BY DEF Crash, Idle, WorkerType
<1>3. crashes' \in 0..MaxCrashes
  BY <1>v, EngineAssumption DEF Crash, EngineVars, EngineAssumption
<1> QED BY <1>v, <1>1, <1>2, <1>3 DEF Crash, EngineVars, Startup, vars

LEMMA EngineStepTypes ==
  ASSUME EngineTypeOK, [EngineNext]_allVars
  PROVE  [Next]_vars /\ EngineTypeOK'
<1>1. [Next]_vars /\ EngineVars'
  <2>1. CASE UNCHANGED allVars
    BY <2>1, EngineTypeParts DEF allVars, engineVars, EngineVars, vars
  <2> QED
    BY <2>1, ExecutionTypes, AiRunTypes, WorkerTypes, UserTypes, RecoveryTypes, CrashTypes
    DEF EngineNext
<1>2. TypeOK'
  BY <1>1, TypeStep, EngineTypeParts
<1> QED BY <1>1, <1>2 DEF EngineTypeOK, EngineVars, JobTable, WorkerType

LEMMA EngineInitTypes ==
  ASSUME Nodes # {}, EngineInit
  PROVE  EngineTypeOK
<1>1. TypeOK
  BY TypeInit DEF EngineInit
<1>2. Latest(CHOOSE n \in Nodes : TRUE) \in NodeRunIds
  BY <1>1, LatestRun
<1> QED
  BY <1>1, <1>2, EngineAssumption
  DEF EngineInit, EngineTypeOK, AiStatus, JobPc, Idle, EngineAssumption

-----------------------------------------------------------------------------
(* The theorems about types and transactions.                              *)

(* Executions, worker, commands, startup and crashes keep the types: no    *)
(* job points at a NodeRun that is not there (execute-workflow-node.ts,    *)
(* advance-workflow.ts).                                                   *)
THEOREM EngineTypesCorrect ==
  ASSUME Nodes # {}
  PROVE  EngineSpec => []EngineTypeOK
<1>1. EngineInit => EngineTypeOK
  BY EngineInitTypes
<1>2. EngineTypeOK /\ [EngineNext]_allVars => EngineTypeOK'
  BY EngineStepTypes
<1> QED BY <1>1, <1>2, PTL DEF EngineSpec

(* However executions, worker, user, crashes and startup interleave, the   *)
(* aggregate only ever takes the transactions of NodeExecution             *)
(* (manage-node-execution.ts), so that every theorem about Spec holds of   *)
(* the driven workflow.                                                    *)
THEOREM EngineTakesTransactions ==
  ASSUME Nodes # {}
  PROVE  EngineSpec => Spec
<1>1. EngineInit => Init
  BY DEF EngineInit
<1>2. EngineTypeOK /\ [EngineNext]_allVars => [Next]_vars
  BY EngineStepTypes
<1> QED BY <1>1, <1>2, EngineTypesCorrect, PTL DEF EngineSpec, Spec

(* In particular no crash, retry, recovery or late result starts a node    *)
(* before its predecessors are done, leaves a slot idle, admits a node     *)
(* beyond the limit or completes the execution without the requirement.    *)
THEOREM EngineKeepsContract ==
  ASSUME Nodes # {}
  PROVE  EngineSpec => /\ [](DependencyOrder /\ NoIdleSlot /\ CompletedTogether)
                       /\ AdmissionWithinLimit
                       /\ ContractSpec
BY EngineTakesTransactions, DependenciesHold, SlotsAreUsed, CompletionIsJoint,
   LimitIsKept, ContractIsKept, PTL

-----------------------------------------------------------------------------
(* AI runs and the executions that own them.                               *)

\* A live AI run has its execution at the await that follows its creation, or
\* waiting for its end; an id no execution has generated with is unused.
RunsAreOwned ==
  \A r \in AiRuns :
    /\ ai[r] = "live" => phase = "runs" \/ job[r].pc \in {"bind", "undo", "await"}
    /\ job[r].pc \in {"free", "route", "generate"} => ai[r] = "none"

\* What a step may do to AI run r and its execution, while phase is kept.
Keeps(r) ==
  /\ job'[r].pc = job[r].pc
  /\ \/ ai'[r] = ai[r]
     \/ ai[r] # "none" /\ ai'[r] # "live"

Proceeds(r) ==
  \/ Keeps(r)
  \/ ai'[r] = ai[r] /\ job[r].pc = "free" /\ job'[r].pc = "route"
  \/ ai'[r] = ai[r] /\ job[r].pc = "route" /\ job'[r].pc \in {"generate", "thrown"}
  \/ job[r].pc = "generate" /\ job'[r].pc \in {"bind", "undo"}
  \/ ai'[r] = ai[r] /\ job[r].pc = "bind" /\ job'[r].pc \in {"await", "undo"}
  \/ ai'[r] # "live" /\ job[r].pc = "undo" /\ job'[r].pc = "thrown"
  \/ /\ ai'[r] = ai[r] /\ ai[r] # "live" /\ job[r].pc = "await"
     /\ job'[r].pc \in {"complete", "done", "fail"}
  \/ /\ ai'[r] = ai[r] /\ job[r].pc \in {"complete", "wait", "error", "fail"}
     /\ job'[r].pc \in {"wait", "error", "fail", "done"}

\* All proceed, and the phase does not go back to runs.
AllProceed ==
  /\ \A r \in AiRuns : Proceeds(r)
  /\ phase' = phase

LEMMA ProceedKeepsOwners ==
  ASSUME EngineTypeOK, RunsAreOwned, AllProceed
  PROVE  RunsAreOwned'
<1> SUFFICES ASSUME NEW r \in AiRuns
    PROVE  /\ ai'[r] = "live" => phase' = "runs" \/ job'[r].pc \in {"bind", "undo", "await"}
           /\ job'[r].pc \in {"free", "route", "generate"} => ai'[r] = "none"
  BY DEF RunsAreOwned
<1>1. Proceeds(r) /\ phase' = phase
  BY DEF AllProceed
<1>2. /\ ai[r] = "live" => phase = "runs" \/ job[r].pc \in {"bind", "undo", "await"}
      /\ job[r].pc \in {"free", "route", "generate"} => ai[r] = "none"
  BY DEF RunsAreOwned
<1> QED BY <1>1, <1>2 DEF Proceeds, Keeps

\* Two ways to leave an execution alone: not to write it, or to commit a
\* transaction that makes its completion conflict.
LEMMA OthersProceed ==
  ASSUME NEW jobs \in JobTable, job' = Conflicted(jobs) \/ job' = jobs,
         NEW q \in AiRuns, jobs[q] = job[q],
         \/ ai'[q] = ai[q]
         \/ ai[q] # "none" /\ ai'[q] # "live" /\ job[q].pc # "complete"
  PROVE  Proceeds(q)
<1>1. \/ job'[q].pc = job[q].pc
      \/ job[q].pc = "complete" /\ job'[q].pc = "error"
  BY JobsType
<1>2. CASE job'[q].pc = job[q].pc
  BY <1>2 DEF Proceeds, Keeps
<1>3. CASE job[q].pc = "complete" /\ job'[q].pc = "error"
  BY <1>3 DEF Proceeds
<1> QED BY <1>1, <1>2, <1>3

\* One execution moves to pc, by a transaction or without one.
LEMMA OneProceeds ==
  ASSUME EngineTypeOK, NEW r \in AiRuns, NEW pc \in JobPc \ {"complete"}, ai' = ai,
         job' = Conflicted(At(r, pc)) \/ job' = At(r, pc), phase' = phase,
         \/ job[r].pc = "route" /\ pc \in {"generate", "thrown"}
         \/ job[r].pc = "bind" /\ pc \in {"await", "undo"}
         \/ ai[r] # "live" /\ job[r].pc = "await" /\ pc \in {"done", "fail"}
         \/ /\ job[r].pc \in {"complete", "wait", "error", "fail"}
            /\ pc \in {"wait", "error", "fail", "done"}
  PROVE  AllProceed
<1>1. job \in JobTable /\ At(r, pc) \in JobTable /\ At(r, pc)[r].pc = pc
      /\ \A q \in AiRuns \ {r} : At(r, pc)[q] = job[q]
  <2>1. pc \in JobPc /\ job \in JobTable
    BY DEF EngineTypeOK, JobTable
  <2> QED BY <2>1, AtType
<1>2. job'[r].pc = pc
  BY <1>1, JobsType
<1>3. Proceeds(r)
  BY <1>2 DEF Proceeds
<1>4. \A q \in AiRuns \ {r} : Proceeds(q)
  BY <1>1, OthersProceed
<1> QED BY <1>3, <1>4 DEF AllProceed

LEMMA ExecutionProceeds ==
  ASSUME EngineTypeOK, NEW r \in AiRuns, Execution(r)
  PROVE  AllProceed
<1>j. job \in JobTable /\ ai \in [AiRuns -> AiStatus] /\ job[r].pc \in JobPc
  BY DEF EngineTypeOK, JobTable
<1>p. {"route", "generate", "bind", "undo", "await", "complete",
       "wait", "error", "fail", "done", "thrown"} \subseteq JobPc
  BY DEF JobPc
<1>1. CASE RouteFails(r)
  BY <1>1, <1>p, OneProceeds DEF RouteFails
<1>2. CASE Reserve(r)
  <2>1. /\ ai' = ai /\ phase' = phase /\ job[r].pc = "route"
        /\ \E pc \in {"generate", "thrown"} : job' = Conflicted(At(r, pc)) \/ job' = At(r, pc)
    BY <1>2 DEF Reserve, Tx
  <2> QED BY <2>1, <1>p, OneProceeds
<1>3. CASE Generate(r)
  <2>1. /\ job[r].pc = "generate" /\ phase' = phase
        /\ \A q \in AiRuns \ {r} : ai'[q] = ai[q]
        /\ \E pc \in {"bind", "undo"} : job' = At(r, pc)
    BY <1>3, <1>j DEF Generate
  <2>2. PICK pc \in {"bind", "undo"} : job' = At(r, pc)
    BY <2>1
  <2>3. pc \in JobPc
    BY <1>p
  <2>4. At(r, pc) \in JobTable /\ job'[r].pc = pc
        /\ \A q \in AiRuns \ {r} : At(r, pc)[q] = job[q]
    BY <1>j, <2>2, <2>3, AtType
  <2>5. Proceeds(r)
    BY <2>1, <2>4 DEF Proceeds
  <2>6. \A q \in AiRuns \ {r} : Proceeds(q)
    BY <2>1, <2>2, <2>4, OthersProceed
  <2> QED BY <2>1, <2>5, <2>6 DEF AllProceed
<1>4. CASE Bind(r)
  <2>1. /\ ai' = ai /\ phase' = phase /\ job[r].pc = "bind"
        /\ \E pc \in {"await", "undo"} : job' = Conflicted(At(r, pc)) \/ job' = At(r, pc)
    BY <1>4 DEF Bind, Tx
  <2> QED BY <2>1, <1>p, OneProceeds
<1>5. CASE Undo(r)
  <2>1. /\ job[r].pc = "undo" /\ phase' = phase
        /\ \A q \in AiRuns \ {r} : ai'[q] = ai[q]
        /\ ai'[r] # "live"
        /\ job' = Conflicted(At(r, "thrown")) \/ job' = At(r, "thrown")
    BY <1>5, <1>j DEF Undo, Tx
  <2>2. At(r, "thrown") \in JobTable /\ At(r, "thrown")[r].pc = "thrown"
        /\ \A q \in AiRuns \ {r} : At(r, "thrown")[q] = job[q]
    BY <1>j, <1>p, AtType
  <2>3. job'[r].pc = "thrown"
    BY <2>1, <2>2, JobsType
  <2>4. Proceeds(r)
    BY <2>1, <2>3 DEF Proceeds
  <2>5. \A q \in AiRuns \ {r} : Proceeds(q)
    BY <2>1, <2>2, OthersProceed
  <2> QED BY <2>1, <2>4, <2>5 DEF AllProceed
<1>6. CASE Settle(r)
  <2>1. /\ job[r].pc = "await" /\ phase' = phase /\ ai' = ai /\ ai[r] # "live"
        /\ \E pc \in {"done", "complete", "fail"} : job' = At(r, pc)
    BY <1>6 DEF Settle
  <2>2. PICK pc \in {"done", "complete", "fail"} : job' = At(r, pc)
    BY <2>1
  <2>3. pc \in JobPc
    BY <1>p
  <2>4. At(r, pc) \in JobTable /\ job'[r].pc = pc
        /\ \A q \in AiRuns \ {r} : At(r, pc)[q] = job[q]
    BY <1>j, <2>2, <2>3, AtType
  <2>5. Proceeds(r)
    BY <2>1, <2>4 DEF Proceeds
  <2>6. \A q \in AiRuns \ {r} : Proceeds(q)
    BY <2>1, <2>2, <2>4, OthersProceed
  <2> QED BY <2>1, <2>5, <2>6 DEF AllProceed
<1>7. CASE Complete(r) \/ WaitGate(r) \/ SettleError(r) \/ SettleFailed(r)
  <2>1. /\ ai' = ai /\ phase' = phase /\ job[r].pc \in {"complete", "wait", "error", "fail"}
        /\ \E pc \in {"wait", "error", "fail", "done"} :
             job' = Conflicted(At(r, pc)) \/ job' = At(r, pc)
    BY <1>7 DEF Complete, WaitGate, SettleError, SettleFailed, Tx
  <2> QED BY <2>1, <1>p, OneProceeds
<1> QED BY <1>1, <1>2, <1>3, <1>4, <1>5, <1>6, <1>7 DEF Execution

\* A job that is started takes an id that is free; the rest go on.
LEMMA StartProceeds ==
  ASSUME EngineTypeOK, FreeRuns # {}, NEW id \in NodeRunIds,
         NEW by \in {"user", "auto", "recovery"}, ai' = ai, phase' = phase,
         \/ job' = Started(job, id, by)
         \/ job' = Conflicted(Started(job, id, by))
  PROVE  AllProceed
<1> DEFINE jobs == Started(job, id, by)
<1>1. /\ NewRun \in AiRuns /\ job[NewRun].pc = "free"
      /\ jobs \in JobTable /\ jobs[NewRun].pc = "route"
      /\ \A q \in AiRuns \ {NewRun} : jobs[q] = job[q]
  <2>1. job \in JobTable
    BY DEF EngineTypeOK, JobTable
  <2>2. /\ jobs \in JobTable
        /\ jobs[NewRun] = [pc |-> "route", id |-> id, by |-> by]
        /\ \A q \in AiRuns \ {NewRun} : jobs[q] = job[q]
    BY <2>1, StartedType
  <2> QED BY <2>2, NewRunIsFree
<1> HIDE DEF jobs
<1>2. job' = jobs \/ job' = Conflicted(jobs)
  BY DEF jobs
<1>3. job'[NewRun].pc = "route"
  BY <1>1, <1>2, JobsType
<1>4. Proceeds(NewRun)
  BY <1>1, <1>3 DEF Proceeds
<1>5. \A q \in AiRuns \ {NewRun} : Proceeds(q)
  BY <1>1, <1>2, OthersProceed
<1> QED BY <1>4, <1>5 DEF AllProceed

\* No job is written but by the conflict of a transaction.
LEMMA RestProceeds ==
  ASSUME EngineTypeOK, ai' = ai, job' = job \/ job' = Conflicted(job)
  PROVE  \A r \in AiRuns : Proceeds(r)
<1>1. job \in JobTable
  BY DEF EngineTypeOK, JobTable
<1> QED BY <1>1, OthersProceed

LEMMA AiRunProceeds ==
  ASSUME EngineTypeOK, NEW r \in AiRuns,
         AiRunEnds(r) \/ CompletionDropped(r) \/ CancelRun(r)
  PROVE  AllProceed
<1>j. job \in JobTable /\ ai \in [AiRuns -> AiStatus]
  BY DEF EngineTypeOK, JobTable
<1>1. CASE AiRunEnds(r) \/ CancelRun(r)
  <2>1. /\ job' = job /\ phase' = phase
        /\ \A q \in AiRuns : Keeps(q)
    BY <1>1, <1>j DEF AiRunEnds, CancelRun, Keeps
  <2> QED BY <2>1 DEF Proceeds, AllProceed
<1>2. CASE CompletionDropped(r)
  <2>1. /\ ai' = ai /\ phase' = phase /\ ai[r] # "live" /\ job[r].pc = "await"
        /\ job' = At(r, "done") /\ "done" \in JobPc \ {"complete"}
    BY <1>2 DEF CompletionDropped, JobPc
  <2> QED BY <2>1, OneProceeds
<1> QED BY <1>1, <1>2

LEMMA WorkerProceeds ==
  ASSUME EngineTypeOK, Worker
  PROVE  AllProceed
<1>1. CASE ListDispatches \/ ReturnToWorker \/ EndPass \/ EndDrain
  BY <1>1, RestProceeds DEF ListDispatches, ReturnToWorker, EndPass, EndDrain, AllProceed
<1>2. ASSUME NEW d \in worker.todo, ProcessDispatch(d) PROVE AllProceed
  <2>1. d[2] \in NodeRunIds /\ d[1] \in {"user", "auto", "recovery"}
    BY DEF EngineTypeOK, Dispatches
  <2>2. ai' = ai /\ phase' = phase
        /\ \/ FreeRuns # {} /\ job' = Started(job, d[2], d[1])
           \/ job' = job
    BY <1>2 DEF ProcessDispatch
  <2> QED BY <2>1, <2>2, StartProceeds, RestProceeds DEF AllProceed
<1> QED BY <1>1, <1>2 DEF Worker

LEMMA UserProceeds ==
  ASSUME EngineTypeOK, User
  PROVE  AllProceed
<1>t. TypeOK
  BY DEF EngineTypeOK
<1>1. ASSUME NEW n \in Nodes, Start(n) \/ Resume(n) PROVE AllProceed
  <2>1. ai' = ai /\ phase' = phase /\ FreeRuns # {}
        /\ \/ job' = Started(job, Latest(n), "user")
           \/ job' = Conflicted(Started(job, Latest(n), "user"))
    BY <1>1 DEF Start, Resume, UserTx, Tx
  <2>2. Latest(n) \in NodeRunIds
    BY <1>t, LatestRun
  <2> QED BY <2>1, <2>2, StartProceeds
<1>2. ASSUME NEW n \in Nodes, Retry(n) PROVE AllProceed
  <2>1. PrepareRetry(n)
    BY <1>2 DEF Retry, UserTx, Tx
  <2>2. latest[n] + 1 \in Attempts
    BY <1>t, <2>1, ExecutionAssumption DEF PrepareRetry, TypeOK, Attempts, ExecutionAssumption
  <2>3. <<n, latest[n] + 1>> \in NodeRunIds
    BY <2>2 DEF NodeRunIds
  <2>4. ai' = ai /\ phase' = phase
        /\ \/ /\ FreeRuns # {}
              /\ job' = Conflicted(Started(job, <<n, latest[n] + 1>>, "user"))
           \/ job' = Conflicted(job)
    BY <1>2 DEF Retry, UserTx, Tx
  <2>5. CASE job' = Conflicted(job)
    BY <2>4, <2>5, RestProceeds DEF AllProceed
  <2>6. CASE /\ FreeRuns # {}
             /\ job' = Conflicted(Started(job, <<n, latest[n] + 1>>, "user"))
    BY <2>3, <2>4, <2>6, StartProceeds
  <2> QED BY <2>4, <2>5, <2>6
<1>3. ASSUME \/ \E n \in Nodes : Pause(n) \/ Cancel(n) \/ Skip(n)
             \/ \E id \in NodeRunIds : Ask(id) \/ Answer(id) \/ Reevaluate(id)
             \/ \E k \in 1..MaxLimit : ChangeParallelism(k)
      PROVE  AllProceed
  <2>1. ai' = ai /\ phase' = phase /\ (job' = job \/ job' = Conflicted(job))
    BY <1>3 DEF Pause, Cancel, Skip, Ask, Answer, Reevaluate, ChangeParallelism, UserTx, Tx
  <2> QED BY <2>1, RestProceeds DEF AllProceed
<1>4. ASSUME NEW id \in NodeRunIds, ResolveGate(id) PROVE AllProceed
  <2>1. ai' = ai /\ phase' = phase
        /\ \/ job' = Conflicted(job)
           \/ job' = [r \in AiRuns |->
                        IF job[r].pc = "complete" /\ job[r].id = id
                        THEN [job[r] EXCEPT !.pc = "error"] ELSE job[r]]
    BY <1>4 DEF ResolveGate, UserTx, Tx
  <2>2. CASE job' = Conflicted(job)
    BY <2>1, <2>2, RestProceeds DEF AllProceed
  <2>3. CASE job' = [r \in AiRuns |->
                       IF job[r].pc = "complete" /\ job[r].id = id
                       THEN [job[r] EXCEPT !.pc = "error"] ELSE job[r]]
    <3>1. \A r \in AiRuns : \/ job'[r].pc = job[r].pc
                            \/ job[r].pc = "complete" /\ job'[r].pc = "error"
      BY <2>3 DEF EngineTypeOK
    <3> QED BY <2>1, <3>1 DEF AllProceed, Proceeds, Keeps
  <2> QED BY <2>1, <2>2, <2>3
<1> QED BY <1>1, <1>2, <1>3, <1>4 DEF User

LEMMA OwnersStep ==
  ASSUME EngineTypeOK, RunsAreOwned, [EngineNext]_allVars
  PROVE  RunsAreOwned'
<1>1. CASE UNCHANGED allVars
  BY <1>1 DEF RunsAreOwned, allVars, engineVars
<1>2. CASE Recovery \/ Crash
  <2>1. CASE RecoverRuns
    BY <2>1 DEF RecoverRuns, RunsAreOwned
  <2>2. CASE NextPhase \/ Reconcile
    <3>1. phase # "runs" /\ ai' = ai /\ (job' = job \/ job' = Conflicted(job))
      BY <2>2 DEF NextPhase, Reconcile, Tx
    <3>2. \A r \in AiRuns : Proceeds(r)
      BY <3>1, RestProceeds
    <3> QED BY <3>1, <3>2 DEF RunsAreOwned, Proceeds, Keeps
  <2>3. ASSUME NEW n \in Nodes, RecoverNode(n) \/ RequeueNode(n) PROVE RunsAreOwned'
    <3>1. ai' = ai /\ phase' = phase /\ job' = Conflicted(job)
      BY <2>3 DEF RecoverNode, RequeueNode, Tx
    <3> QED BY <3>1, RestProceeds, ProceedKeepsOwners DEF AllProceed
  <2>4. CASE Crash
    <3>1. ai' = ai /\ phase' = "runs"
          /\ \A r \in AiRuns : \/ job[r].pc = "free" /\ job'[r].pc = "free"
                               \/ job'[r].pc = "done"
      BY <2>4 DEF Crash, EngineTypeOK
    <3> QED BY <3>1 DEF RunsAreOwned
  <2> QED BY <1>2, <2>1, <2>2, <2>3, <2>4 DEF Recovery
<1>3. CASE AllProceed
  BY <1>3, ProceedKeepsOwners
<1> QED
  BY <1>1, <1>2, <1>3, ExecutionProceeds, AiRunProceeds, WorkerProceeds, UserProceeds
  DEF EngineNext

(* No AI run streams into the void, for any graph, number of executions,   *)
(* crashes and interleaving: a live one is about to be bound or cancelled, *)
(* awaited, or left by a crash for startup to interrupt                    *)
(* (execute-workflow-node.ts:95-140, recover-interrupted-runs.ts).         *)
THEOREM LiveRunsAreAwaited ==
  ASSUME Nodes # {}
  PROVE  EngineSpec => []LiveRunIsAwaited
<1>1. EngineInit => RunsAreOwned
  BY DEF EngineInit, RunsAreOwned
<1>2. EngineTypeOK /\ RunsAreOwned /\ [EngineNext]_allVars => RunsAreOwned'
  BY OwnersStep
<1>3. RunsAreOwned => LiveRunIsAwaited
  BY DEF RunsAreOwned, LiveRunIsAwaited
<1> QED BY <1>1, <1>2, <1>3, EngineTypesCorrect, PTL DEF EngineSpec

-----------------------------------------------------------------------------
(* What runs while the process starts.                                     *)

\* The program counters of an execution that has reserved its NodeRun.
Reserved == {"generate", "bind", "undo", "await", "complete", "wait", "error", "fail"}

NodeOf(r) == job[r].id[1]

\* Until the worker is called, nothing of the earlier session is at work.
QuietRestart ==
  phase \in {"runs", "interrupt", "requeue"} =>
    /\ worker.state = "idle" /\ worker.busy = NoRun
    /\ \A r \in AiRuns : job[r].pc \in {"free", "done", "thrown"}

\* The only execution about to reserve is the one the worker waits for, and its
\* node is one that process looked at; an execution past that has its node
\* running and to itself.
StartupOwnsItsNodes ==
  phase # "up" =>
    \A r \in AiRuns :
      /\ job[r].pc = "route" => /\ worker.busy = r
                                /\ node[NodeOf(r)] \in {"ready", "failed", "interrupted"}
      /\ job[r].pc \in Reserved => node[NodeOf(r)] = "running"
      /\ \A q \in AiRuns \ {r} :
           job[r].pc \in Reserved /\ job[q].pc \in Reserved => NodeOf(r) # NodeOf(q)

StartupInv == QuietRestart /\ StartupOwnsItsNodes

\* Only node n moves, and nodes that have waited for their turn.
Elsewhere(n) == \A m \in Nodes \ {n} : node'[m] = node[m] \/ node[m] = "pending"

LEMMA TransactionMoves ==
  ASSUME EngineTypeOK, NEW id \in NodeRunIds
  PROVE  /\ ReserveNode(id) => Elsewhere(id[1]) /\ node'[id[1]] = "running"
         /\ \A r : BindAiRun(id, r) => node' = node
         /\ WaitForUser(id) \/ FailRecovery(id) \/ InterruptNode(id) => Elsewhere(id[1])
         /\ \A s \in {"failed", "cancelled"} : FinishNode(id, s) => Elsewhere(id[1])
         /\ CompleteNode(id) => Elsewhere(id[1])
<1>t. TypeOK /\ id[1] \in Nodes /\ node \in [Nodes -> NodeStatus]
  BY DEF EngineTypeOK, TypeOK, NodeRunIds
<1>1. ASSUME NEW s \in {"failed", "cancelled", "completed"}, node' = Finished(id[1], s)
      PROVE  Elsewhere(id[1])
  <2>1. s \in NodeStatus \ ActiveStatus /\ s # "pending"
    BY DEF NodeStatus, ActiveStatus
  <2> QED BY <1>t, <1>1, <2>1, EndFacts DEF Elsewhere
<1>2. ASSUME NEW s, node' = [node EXCEPT ![id[1]] = s]
      PROVE  Elsewhere(id[1]) /\ node'[id[1]] = s
  BY <1>t, <1>2 DEF Elsewhere
<1>3. ASSUME NEW s \in {"failed", "cancelled"}, FinishNode(id, s) PROVE Elsewhere(id[1])
  <2>1. node' = Finished(id[1], s)
    BY <1>3 DEF FinishNode, Commit
  <2> QED BY <1>1, <2>1
<1>4. ASSUME CompleteNode(id) PROVE Elsewhere(id[1])
  <2>1. node' = Finished(id[1], "completed")
    BY <1>4 DEF CompleteNode, Commit
  <2> QED BY <1>1, <2>1
<1>5. ASSUME ReserveNode(id) PROVE Elsewhere(id[1]) /\ node'[id[1]] = "running"
  BY <1>2, <1>5 DEF ReserveNode, Transition, Commit
<1>6. ASSUME WaitForUser(id) \/ FailRecovery(id) \/ InterruptNode(id)
      PROVE  Elsewhere(id[1])
  BY <1>2, <1>6 DEF WaitForUser, FailRecovery, InterruptNode, Transition, Commit
<1>7. ASSUME NEW r, BindAiRun(id, r) PROVE node' = node
  BY <1>7 DEF BindAiRun
<1> QED BY <1>3, <1>4, <1>5, <1>6, <1>7

\* What a step of execution r does to the nodes and to the executions.
Works(r) ==
  /\ phase' = phase
  /\ worker'.busy = worker.busy
  /\ worker'.state = worker.state \/ job[r].pc \in Reserved
  /\ \A q \in AiRuns : job'[q].id = job[q].id
  /\ \A q \in AiRuns \ {r} : \/ job'[q].pc = job[q].pc
                             \/ job[q].pc = "complete" /\ job'[q].pc = "error"
  /\ \/ /\ node' = node /\ job[r].pc \in Reserved
        /\ job'[r].pc \in Reserved \cup {"done", "thrown"}
     \/ node' = node /\ job[r].pc = "route" /\ job'[r].pc = "thrown"
     \/ /\ job[r].pc = "route" /\ job'[r].pc = "generate"
        /\ Elsewhere(NodeOf(r)) /\ node'[NodeOf(r)] = "running"
     \/ /\ job[r].pc \in Reserved /\ job'[r].pc \in {"done", "thrown"}
        /\ Elsewhere(NodeOf(r))

\* The jobs' part of Works.
LEMMA JobsWork ==
  ASSUME EngineTypeOK, NEW r \in AiRuns, NEW pc \in JobPc \ {"complete"},
         job' = Conflicted(At(r, pc)) \/ job' = At(r, pc)
  PROVE  /\ job'[r].pc = pc
         /\ \A q \in AiRuns : job'[q].id = job[q].id
         /\ \A q \in AiRuns \ {r} : \/ job'[q].pc = job[q].pc
                                    \/ job[q].pc = "complete" /\ job'[q].pc = "error"
<1>1. /\ At(r, pc) \in JobTable /\ At(r, pc)[r].pc = pc
      /\ \A q \in AiRuns : At(r, pc)[q].id = job[q].id
      /\ \A q \in AiRuns \ {r} : At(r, pc)[q] = job[q]
  <2>1. pc \in JobPc /\ job \in JobTable
    BY DEF EngineTypeOK, JobTable
  <2> QED BY <2>1, AtType
<1> QED BY <1>1, JobsType

LEMMA ExecutionWorks ==
  ASSUME EngineTypeOK, NEW r \in AiRuns, Execution(r)
  PROVE  Works(r)
<1>j. job \in JobTable /\ job[r].id \in NodeRunIds
  BY DEF EngineTypeOK, JobTable
<1>p. {"route", "generate", "bind", "undo", "await", "wait", "error", "fail", "done", "thrown"}
        \subseteq JobPc \ {"complete"}
  BY DEF JobPc
<1>1. CASE RouteFails(r)
  <2>1. /\ job[r].pc = "route" /\ job' = At(r, "thrown")
        /\ node' = node /\ worker' = worker /\ phase' = phase
    BY <1>1 DEF RouteFails, vars
  <2> QED BY <1>p, <2>1, JobsWork DEF Works
<1>2. CASE Reserve(r)
  <2>1. worker' = worker /\ phase' = phase /\ job[r].pc = "route"
    BY <1>2 DEF Reserve
  <2>2. CASE ReserveNode(job[r].id) /\ job' = Conflicted(At(r, "generate"))
    <3>1. Elsewhere(NodeOf(r)) /\ node'[NodeOf(r)] = "running"
      BY <1>j, <2>2, TransactionMoves DEF NodeOf
    <3> QED BY <1>p, <2>1, <2>2, <3>1, JobsWork DEF Works
  <2>3. CASE UNCHANGED vars /\ job' = At(r, "thrown")
    BY <1>p, <2>1, <2>3, JobsWork DEF Works, vars
  <2> QED BY <1>2, <2>2, <2>3 DEF Reserve, Tx
<1>3. CASE Generate(r) \/ SettleError(r)
  <2>1. /\ worker' = worker /\ phase' = phase /\ node' = node
        /\ job[r].pc \in {"generate", "error"}
        /\ \E pc \in {"bind", "undo", "fail", "done"} : job' = At(r, pc)
    BY <1>3 DEF Generate, SettleError, vars
  <2> QED BY <1>p, <2>1, JobsWork DEF Works, Reserved
<1>4. CASE Bind(r)
  <2>1. /\ worker' = worker /\ phase' = phase /\ job[r].pc = "bind"
        /\ \E pc \in {"await", "undo"} : job' = Conflicted(At(r, pc)) \/ job' = At(r, pc)
    BY <1>4 DEF Bind, Tx
  <2>2. node' = node
    BY <1>4, <1>j, TransactionMoves DEF Bind, Tx, vars
  <2> QED BY <1>p, <2>1, <2>2, JobsWork DEF Works, Reserved
<1>5. CASE Undo(r)
  <2>1. /\ worker' = worker /\ phase' = phase /\ job[r].pc = "undo"
        /\ job' = Conflicted(At(r, "thrown")) \/ job' = At(r, "thrown")
    BY <1>5 DEF Undo, Tx
  <2>2. FailRecovery(job[r].id) \/ FinishNode(job[r].id, "failed") \/ node' = node
    BY <1>5 DEF Undo, Tx, SettleFailure, vars
  <2>3. Elsewhere(NodeOf(r)) \/ node' = node
    BY <1>j, <2>2, TransactionMoves DEF NodeOf
  <2> QED BY <1>p, <2>1, <2>3, JobsWork DEF Works, Reserved
<1>6. CASE Settle(r)
  <2>1. /\ job[r].pc = "await" /\ worker' = worker /\ phase' = phase /\ node' = node
        /\ \E pc \in {"done", "complete", "fail"} : job' = At(r, pc)
    BY <1>6 DEF Settle, vars
  <2>2. PICK pc \in {"done", "complete", "fail"} : job' = At(r, pc)
    BY <2>1
  <2>3. pc \in JobPc
    BY DEF JobPc
  <2>4. /\ job'[r].pc = pc
        /\ \A q \in AiRuns : job'[q].id = job[q].id
        /\ \A q \in AiRuns \ {r} : job'[q] = job[q]
    BY <1>j, <2>2, <2>3, AtType
  <2> QED BY <2>1, <2>4 DEF Works, Reserved
<1>7. CASE Complete(r)
  <2>1. /\ phase' = phase /\ job[r].pc = "complete" /\ worker'.busy = worker.busy
    BY <1>7, DrainType DEF Complete
  <2>2. CASE CompleteNode(job[r].id) /\ job' = Conflicted(At(r, "done"))
    <3>1. Elsewhere(NodeOf(r))
      BY <1>j, <2>2, TransactionMoves DEF NodeOf
    <3> QED BY <1>p, <2>1, <2>2, <3>1, JobsWork DEF Works, Reserved
  <2>3. CASE UNCHANGED vars /\ (job' = At(r, "wait") \/ job' = At(r, "error"))
    BY <1>p, <2>1, <2>3, JobsWork DEF Works, Reserved, vars
  <2> QED BY <1>7, <2>2, <2>3 DEF Complete, Tx
<1>8. CASE WaitGate(r)
  <2>1. worker' = worker /\ phase' = phase /\ job[r].pc = "wait"
    BY <1>8 DEF WaitGate
  <2>2. CASE WaitForUser(job[r].id) /\ job' = Conflicted(At(r, "done"))
    <3>1. Elsewhere(NodeOf(r))
      BY <1>j, <2>2, TransactionMoves DEF NodeOf
    <3> QED BY <1>p, <2>1, <2>2, <3>1, JobsWork DEF Works, Reserved
  <2>3. CASE UNCHANGED vars /\ job' = At(r, "error")
    BY <1>p, <2>1, <2>3, JobsWork DEF Works, Reserved, vars
  <2> QED BY <1>8, <2>2, <2>3 DEF WaitGate, Tx
<1>9. CASE SettleFailed(r)
  <2>1. /\ worker' = worker /\ phase' = phase /\ job[r].pc = "fail"
        /\ job' = Conflicted(At(r, "done")) \/ job' = At(r, "done")
    BY <1>9 DEF SettleFailed, Tx
  <2>2. FinishNode(job[r].id, Outcome(r)) \/ node' = node
    BY <1>9 DEF SettleFailed, Tx, vars
  <2>3. Outcome(r) \in {"failed", "cancelled"}
    BY DEF Outcome
  <2>4. Elsewhere(NodeOf(r)) \/ node' = node
    BY <1>j, <2>2, <2>3, TransactionMoves DEF NodeOf
  <2> QED BY <1>p, <2>1, <2>4, JobsWork DEF Works, Reserved
<1> QED BY <1>1, <1>2, <1>3, <1>4, <1>5, <1>6, <1>7, <1>8, <1>9 DEF Execution

\* The inductive step and the promise for an execution at work.
LEMMA WorkStep ==
  ASSUME EngineTypeOK, StartupInv, NEW r \in AiRuns, Works(r), phase # "up"
  PROVE  /\ StartupInv'
         /\ \A n \in Nodes :
              node[n] \in {"paused", "waiting_user", "cancelled", "completed", "skipped"}
                => node'[n] = node[n]
<1>1. phase \notin {"runs", "interrupt", "requeue"} /\ phase' = phase
  BY DEF StartupInv, QuietRestart, Works, Reserved
<1>2. \A q \in AiRuns :
        /\ NodeOf(q) \in Nodes /\ (NodeOf(q))' = NodeOf(q)
        /\ job[q].pc = "route" => /\ worker.busy = q
                                  /\ node[NodeOf(q)] \in {"ready", "failed", "interrupted"}
        /\ job[q].pc \in Reserved => node[NodeOf(q)] = "running"
        /\ \A p \in AiRuns \ {q} :
             job[q].pc \in Reserved /\ job[p].pc \in Reserved => NodeOf(q) # NodeOf(p)
  BY DEF EngineTypeOK, NodeRunIds, NodeOf, Works, StartupInv, StartupOwnsItsNodes
<1>3. \A q \in AiRuns \ {r} :
        /\ job[q].pc = "route" => job[r].pc \in Reserved
        /\ job'[q].pc \in Reserved => job[q].pc \in Reserved
        /\ job'[q].pc = "route" => job[q].pc = "route"
  BY <1>2 DEF Works, Reserved
<1> USE DEF NodeOf
<1>4. \A q \in AiRuns \ {r} :
        job[q].pc \in Reserved \cup {"route"} => node'[NodeOf(q)] = node[NodeOf(q)]
  <2> SUFFICES ASSUME NEW q \in AiRuns \ {r}, job[q].pc \in Reserved \cup {"route"}
               PROVE  node'[NodeOf(q)] = node[NodeOf(q)]
    OBVIOUS
  <2>1. NodeOf(q) # NodeOf(r)
    BY <1>2, <1>3 DEF Works, Reserved
  <2>2. node[NodeOf(q)] # "pending"
    BY <1>2
  <2> QED BY <1>2, <2>1, <2>2 DEF Works, Elsewhere
\* The execution's own node is not one of those to be left alone.
<1>5. ASSUME NEW n \in Nodes,
             node[n] \in {"paused", "waiting_user", "cancelled", "completed", "skipped"}
      PROVE  node'[n] = node[n]
  <2>1. job[r].pc \in Reserved \cup {"route"} => n # NodeOf(r)
    BY <1>2, <1>5
  <2> QED BY <1>5, <2>1 DEF Works, Elsewhere
<1>6. job'[r].pc \in Reserved => node'[NodeOf(r)] = "running"
  BY <1>2 DEF Works, Reserved
<1>7. job'[r].pc # "route"
  BY DEF Works, Reserved
<1>8. StartupOwnsItsNodes'
  <2> SUFFICES ASSUME NEW q \in AiRuns
      PROVE  /\ job'[q].pc = "route" =>
                   /\ worker'.busy = q
                   /\ node'[NodeOf(q)] \in {"ready", "failed", "interrupted"}
             /\ job'[q].pc \in Reserved => node'[NodeOf(q)] = "running"
             /\ \A p \in AiRuns \ {q} :
                  job'[q].pc \in Reserved /\ job'[p].pc \in Reserved => NodeOf(q) # NodeOf(p)
    BY <1>2 DEF StartupOwnsItsNodes
  <2>1. job'[q].pc = "route" =>
          /\ worker'.busy = q
          /\ node'[NodeOf(q)] \in {"ready", "failed", "interrupted"}
    BY <1>2, <1>3, <1>4, <1>7 DEF Works
  <2>2. job'[q].pc \in Reserved => node'[NodeOf(q)] = "running"
    BY <1>2, <1>3, <1>4, <1>6
  <2>3. ASSUME NEW p \in AiRuns \ {q}, job'[q].pc \in Reserved, job'[p].pc \in Reserved
        PROVE  NodeOf(q) # NodeOf(p)
    <3>1. CASE job[q].pc \in Reserved /\ job[p].pc \in Reserved
      BY <1>2, <3>1
    <3>2. CASE q = r /\ job[r].pc = "route"
      BY <1>2, <1>3, <2>3, <3>2
    <3>3. CASE p = r /\ job[r].pc = "route"
      BY <1>2, <1>3, <2>3, <3>3
    <3>4. job[r].pc \in Reserved \cup {"route"}
      BY DEF Works
    <3> QED BY <1>3, <2>3, <3>1, <3>2, <3>3, <3>4
  <2> QED BY <2>1, <2>2, <2>3
<1>9. QuietRestart'
  BY <1>1 DEF QuietRestart
<1> QED BY <1>5, <1>8, <1>9 DEF StartupInv

\* Executions and nodes are left as they are, but for completions in conflict.
StandsStill ==
  /\ node' = node
  /\ \A q \in AiRuns : /\ job'[q].id = job[q].id
                       /\ \/ job'[q].pc = job[q].pc
                          \/ job[q].pc = "complete" /\ job'[q].pc = "error"

LEMMA StillOwns ==
  ASSUME EngineTypeOK, StartupOwnsItsNodes, StandsStill, phase # "up",
         \A q \in AiRuns : worker.busy = q /\ job[q].pc = "route" => worker'.busy = q
  PROVE  StartupOwnsItsNodes'
<1>1. \A q \in AiRuns :
        /\ (NodeOf(q))' = NodeOf(q)
        /\ job'[q].pc = "route" => job[q].pc = "route"
        /\ job'[q].pc \in Reserved => job[q].pc \in Reserved
  BY DEF StandsStill, NodeOf, Reserved
<1>2. \A q \in AiRuns :
        /\ job[q].pc = "route" => /\ worker.busy = q
                                  /\ node[NodeOf(q)] \in {"ready", "failed", "interrupted"}
        /\ job[q].pc \in Reserved => node[NodeOf(q)] = "running"
        /\ \A p \in AiRuns \ {q} :
             job[q].pc \in Reserved /\ job[p].pc \in Reserved => NodeOf(q) # NodeOf(p)
  BY DEF StartupOwnsItsNodes
<1>3. node' = node
  BY DEF StandsStill
<1> SUFFICES ASSUME NEW q \in AiRuns
    PROVE  /\ job'[q].pc = "route" =>
                 /\ worker'.busy = q
                 /\ node'[NodeOf(q)] \in {"ready", "failed", "interrupted"}
           /\ job'[q].pc \in Reserved => node'[NodeOf(q)] = "running"
           /\ \A p \in AiRuns \ {q} :
                job'[q].pc \in Reserved /\ job'[p].pc \in Reserved => NodeOf(q) # NodeOf(p)
  BY <1>1 DEF StartupOwnsItsNodes
<1> QED BY <1>1, <1>2, <1>3

\* A dispatch is processed when no execution is about to reserve, and only for
\* a node that is ready, failed or interrupted.
LEMMA DispatchOwns ==
  ASSUME EngineTypeOK, StartupOwnsItsNodes, phase # "up",
         NEW d \in worker.todo, ProcessDispatch(d), Executes(d), FreeRuns # {},
         job' = Started(job, d[2], d[1]), worker'.busy = NewRun
  PROVE  StartupOwnsItsNodes'
<1>j. job \in JobTable /\ NoRun \notin AiRuns
  BY ExecutionAssumption DEF EngineTypeOK, JobTable, ExecutionAssumption
<1>d. d[2] \in NodeRunIds /\ d[1] \in {"user", "auto", "recovery"}
  BY DEF EngineTypeOK, Dispatches
<1>n. node' = node /\ worker.busy = NoRun
  BY DEF ProcessDispatch, vars
<1>1. /\ NewRun \in AiRuns /\ job[NewRun].pc = "free"
      /\ job'[NewRun] = [pc |-> "route", id |-> d[2], by |-> d[1]]
      /\ \A q \in AiRuns \ {NewRun} : job'[q] = job[q]
  <2>1. /\ Started(job, d[2], d[1])[NewRun] = [pc |-> "route", id |-> d[2], by |-> d[1]]
        /\ \A q \in AiRuns \ {NewRun} : Started(job, d[2], d[1])[q] = job[q]
    BY <1>j, <1>d, StartedType
  <2> QED BY <2>1, NewRunIsFree
<1>2. node[d[2][1]] \in {"ready", "failed", "interrupted"}
  BY DEF Executes
<1>3. \A q \in AiRuns :
        /\ job[q].pc # "route"
        /\ job[q].pc \in Reserved => node[job[q].id[1]] = "running"
        /\ \A p \in AiRuns \ {q} :
             job[q].pc \in Reserved /\ job[p].pc \in Reserved => job[q].id[1] # job[p].id[1]
  BY <1>j, <1>n DEF StartupOwnsItsNodes, NodeOf
<1>4. job'[NewRun].pc = "route" /\ job'[NewRun].id = d[2] /\ job'[NewRun].pc \notin Reserved
  BY <1>1 DEF Reserved
<1> SUFFICES ASSUME NEW q \in AiRuns
    PROVE  /\ job'[q].pc = "route" =>
                 /\ worker'.busy = q
                 /\ node'[job'[q].id[1]] \in {"ready", "failed", "interrupted"}
           /\ job'[q].pc \in Reserved => node'[job'[q].id[1]] = "running"
           /\ \A p \in AiRuns \ {q} :
                job'[q].pc \in Reserved /\ job'[p].pc \in Reserved
                  => job'[q].id[1] # job'[p].id[1]
  BY DEF StartupOwnsItsNodes, NodeOf
<1>5. CASE q = NewRun
  BY <1>n, <1>2, <1>4, <1>5
<1>6. CASE q # NewRun
  BY <1>n, <1>1, <1>3, <1>4, <1>6
<1> QED BY <1>5, <1>6

LEMMA WorkerStep ==
  ASSUME EngineTypeOK, StartupInv, Worker, phase # "up"
  PROVE  StartupInv' /\ node' = node
<1>s. StartupOwnsItsNodes /\ QuietRestart
  BY DEF StartupInv
<1>1. ASSUME phase \notin {"runs", "interrupt", "requeue"}, phase' = phase PROVE QuietRestart'
  BY <1>1 DEF QuietRestart
<1>2. CASE ListDispatches \/ EndPass \/ EndDrain
  <2>1. phase \notin {"runs", "interrupt", "requeue"} /\ phase' = phase
    BY <1>2, <1>s DEF ListDispatches, EndPass, EndDrain, QuietRestart
  <2>2. StandsStill /\ worker'.busy = worker.busy
    BY <1>2 DEF ListDispatches, EndPass, EndDrain, StandsStill, vars, EngineTypeOK
  <2> QED BY <1>s, <1>1, <2>1, <2>2, StillOwns DEF StartupInv, StandsStill
<1>3. CASE ReturnToWorker
  <2>1. phase \notin {"runs", "interrupt", "requeue"} /\ phase' = phase
    BY <1>3, <1>s DEF ReturnToWorker, QuietRestart
  <2>2. StandsStill
    BY <1>3 DEF ReturnToWorker, StandsStill, vars
  <2>3. \A q \in AiRuns : ~(worker.busy = q /\ job[q].pc = "route")
    BY <1>3 DEF ReturnToWorker
  <2> QED BY <1>s, <1>1, <2>1, <2>2, <2>3, StillOwns DEF StartupInv, StandsStill
<1>4. ASSUME NEW d \in worker.todo, ProcessDispatch(d) PROVE StartupInv' /\ node' = node
  <2>1. phase \notin {"runs", "interrupt", "requeue"} /\ phase' = phase /\ node' = node
    BY <1>4, <1>s DEF ProcessDispatch, QuietRestart, vars
  <2>2. CASE job' = job /\ worker'.busy = worker.busy
    <3>1. StandsStill
      BY <2>1, <2>2 DEF StandsStill
    <3> QED BY <1>s, <1>1, <2>1, <2>2, <3>1, StillOwns DEF StartupInv
  <2>3. CASE /\ Executes(d) /\ FreeRuns # {}
             /\ job' = Started(job, d[2], d[1]) /\ worker'.busy = NewRun
    BY <1>4, <1>s, <1>1, <2>1, <2>3, DispatchOwns DEF StartupInv
  <2>4. \/ job' = job /\ worker'.busy = worker.busy
        \/ /\ Executes(d) /\ FreeRuns # {}
           /\ job' = Started(job, d[2], d[1]) /\ worker'.busy = NewRun
    BY <1>4 DEF ProcessDispatch, EngineTypeOK
  <2> QED BY <2>2, <2>3, <2>4
<1> QED BY <1>2, <1>3, <1>4 DEF Worker

\* The statuses of the nodes that only the user or a gate moves on.
Held == {"paused", "waiting_user", "cancelled", "completed", "skipped"}

LeavesHeld == \A n \in Nodes : node[n] \in Held => node'[n] = node[n]

LEMMA RecoveryStep ==
  ASSUME EngineTypeOK, StartupInv, Recovery
  PROVE  phase # "up" /\ StartupInv' /\ LeavesHeld
<1>s. StartupOwnsItsNodes /\ QuietRestart /\ job \in JobTable
  BY DEF StartupInv, EngineTypeOK, JobTable
<1>c. job' = job \/ job' = Conflicted(job)
      => \A q \in AiRuns : /\ job'[q].id = job[q].id
                           /\ \/ job'[q].pc = job[q].pc
                              \/ job[q].pc = "complete" /\ job'[q].pc = "error"
  BY <1>s, JobsType
<1>1. CASE RecoverRuns
  <2>1. phase # "up" /\ phase = "runs" /\ StandsStill /\ worker' = worker /\ job' = job
    BY <1>1 DEF RecoverRuns, StandsStill, vars
  <2>2. QuietRestart'
    BY <1>s, <2>1 DEF QuietRestart
  <2> QED BY <1>s, <2>1, <2>2, StillOwns DEF StartupInv, StandsStill, LeavesHeld
<1>2. CASE NextPhase
  <2>1. phase # "up" /\ StandsStill /\ job' = job
    BY <1>2 DEF NextPhase, StandsStill, vars
  <2>2. worker'.busy = worker.busy
    BY <1>2, DrainType DEF NextPhase
  <2>3. QuietRestart'
    BY <1>2, <1>s, <2>1 DEF NextPhase, QuietRestart
  <2> QED BY <1>s, <2>1, <2>2, <2>3, StillOwns DEF StartupInv, StandsStill, LeavesHeld
<1>3. CASE Reconcile
  <2>1. phase # "up" /\ phase' = "redrain" /\ worker'.busy = worker.busy
    BY <1>3, DrainType DEF Reconcile
  <2>2. node' = node /\ (job' = job \/ job' = Conflicted(job))
    BY <1>3 DEF Reconcile, ReconcileDispatches, Tx, vars
  <2>3. StandsStill
    BY <1>c, <2>2 DEF StandsStill
  <2>4. QuietRestart'
    BY <2>1 DEF QuietRestart
  <2> QED BY <1>s, <2>1, <2>3, <2>4, StillOwns DEF StartupInv, StandsStill, LeavesHeld
<1>4. ASSUME NEW n \in Nodes, RecoverNode(n) \/ RequeueNode(n)
      PROVE  phase # "up" /\ StartupInv' /\ LeavesHeld
  <2>1. /\ phase \in {"interrupt", "requeue"} /\ phase' = phase /\ worker' = worker
        /\ job' = Conflicted(job)
    BY <1>4 DEF RecoverNode, RequeueNode, Tx
  <2>2. \A q \in AiRuns : job[q].pc \in {"free", "done", "thrown"} /\ job'[q].pc = job[q].pc
    BY <1>s, <1>c, <2>1 DEF QuietRestart
  <2>3. QuietRestart' /\ StartupOwnsItsNodes'
    BY <1>s, <2>1, <2>2 DEF QuietRestart, StartupOwnsItsNodes, Reserved
  <2>4. LeavesHeld
    <3>1. CASE RequeueNode(n)
      BY <3>1 DEF RequeueNode, Tx, RequeueInterrupted, LeavesHeld
    <3>2. CASE RecoverNode(n)
      <4>1. node[n] = "running" /\ InterruptNode(Latest(n))
        BY <3>2 DEF RecoverNode, Interruptible, Tx
      <4>2. Latest(n) \in NodeRunIds /\ Latest(n)[1] = n
        BY LatestRun DEF EngineTypeOK, Latest
      <4>3. Elsewhere(n)
        BY <4>1, <4>2, TransactionMoves
      <4> QED BY <4>1, <4>3 DEF Elsewhere, LeavesHeld, Held
    <3> QED BY <1>4, <3>1, <3>2
  <2> QED BY <2>1, <2>3, <2>4 DEF StartupInv
<1> QED BY <1>1, <1>2, <1>3, <1>4 DEF Recovery

\* A crash leaves nothing at work.
LEMMA CrashStep ==
  ASSUME EngineTypeOK, Crash
  PROVE  StartupInv' /\ LeavesHeld
<1>1. /\ phase' = "runs" /\ worker' = Idle /\ node' = node
      /\ \A q \in AiRuns : job'[q].pc \in {"free", "done"}
  BY DEF Crash, vars, EngineTypeOK
<1>2. QuietRestart'
  BY <1>1 DEF QuietRestart, Idle
<1>3. StartupOwnsItsNodes'
  BY <1>1 DEF StartupOwnsItsNodes, Reserved
<1> QED BY <1>1, <1>2, <1>3 DEF StartupInv, LeavesHeld

LEMMA StartupStep ==
  ASSUME EngineTypeOK, StartupInv, [EngineNext]_allVars
  PROVE  StartupInv' /\ (phase # "up" => LeavesHeld)
<1>1. CASE UNCHANGED allVars
  BY <1>1 DEF allVars, engineVars, vars, StartupInv, QuietRestart, StartupOwnsItsNodes,
     NodeOf, LeavesHeld
<1>2. ASSUME phase = "up", phase' = phase PROVE StartupInv' /\ (phase # "up" => LeavesHeld)
  BY <1>2 DEF StartupInv, QuietRestart, StartupOwnsItsNodes
<1>3. CASE phase = "up" /\ ~UNCHANGED allVars
  BY <1>2, <1>3, ExecutionProceeds, AiRunProceeds, WorkerProceeds, UserProceeds,
     RecoveryStep, CrashStep
  DEF EngineNext, AllProceed
<1>4. CASE phase # "up" /\ ~UNCHANGED allVars
  <2>1. ~User
    <3>1. ASSUME NEW n \in Nodes
          PROVE  ~(\/ Start(n) \/ Pause(n) \/ Resume(n) \/ Cancel(n) \/ Skip(n) \/ Retry(n))
      BY <1>4 DEF Start, Pause, Resume, Cancel, Skip, Retry, UserTx
    <3>2. ASSUME NEW id \in NodeRunIds
          PROVE  ~(\/ ResolveGate(id) \/ Ask(id) \/ Answer(id) \/ Reevaluate(id))
      BY <1>4 DEF ResolveGate, Ask, Answer, Reevaluate, UserTx
    <3>3. ASSUME NEW k \in 1..MaxLimit PROVE ~ChangeParallelism(k)
      BY <1>4 DEF ChangeParallelism, UserTx
    <3> QED BY <3>1, <3>2, <3>3 DEF User
  <2>2. ASSUME NEW r \in AiRuns, Execution(r) PROVE StartupInv' /\ LeavesHeld
    BY <1>4, <2>2, ExecutionWorks, WorkStep DEF LeavesHeld, Held
  <2>3. ASSUME NEW r \in AiRuns, CompletionDropped(r) PROVE StartupInv' /\ LeavesHeld
    <3>1. /\ job[r].pc = "await" /\ job' = At(r, "done") /\ "done" \in JobPc \ {"complete"}
          /\ node' = node /\ worker' = worker /\ phase' = phase
      BY <2>3 DEF CompletionDropped, JobPc, vars
    <3>2. Works(r)
      BY <3>1, JobsWork DEF Works, Reserved
    <3> QED BY <1>4, <3>2, WorkStep DEF LeavesHeld, Held
  <2>4. ASSUME NEW r \in AiRuns, AiRunEnds(r) \/ CancelRun(r) PROVE StartupInv' /\ LeavesHeld
    <3>1. job' = job /\ node' = node /\ worker' = worker /\ phase' = phase
      BY <2>4 DEF AiRunEnds, CancelRun, vars
    <3> QED BY <3>1 DEF StartupInv, QuietRestart, StartupOwnsItsNodes, NodeOf, LeavesHeld
  <2>5. ASSUME Worker PROVE StartupInv' /\ LeavesHeld
    BY <1>4, <2>5, WorkerStep DEF LeavesHeld
  <2> QED BY <1>4, <2>1, <2>2, <2>3, <2>4, <2>5, RecoveryStep, CrashStep DEF EngineNext
<1> QED BY <1>1, <1>3, <1>4

(* Whatever dispatches and executions earlier sessions left behind, and     *)
(* however often the process crashes while it starts, startup changes no    *)
(* node that is paused, waits for the user, or is cancelled, completed or   *)
(* skipped (recover-workflows.ts:58-183, advance-workflow.ts:90-140).       *)
THEOREM StartupRespectsUser ==
  ASSUME Nodes # {}
  PROVE  EngineSpec => RecoveryRespectsUser
<1>1. EngineInit => StartupInv
  BY DEF EngineInit, StartupInv, QuietRestart, StartupOwnsItsNodes
<1>2. EngineTypeOK /\ StartupInv /\ [EngineNext]_allVars => StartupInv'
  BY StartupStep
<1>3. EngineTypeOK /\ StartupInv /\ [EngineNext]_allVars =>
        [phase # "up" =>
           \A n \in Nodes :
             node[n] \in {"paused", "waiting_user", "cancelled", "completed", "skipped"}
               => node'[n] = node[n]]_allVars
  BY StartupStep DEF LeavesHeld, Held
<1> QED BY <1>1, <1>2, <1>3, EngineTypesCorrect, PTL DEF EngineSpec, RecoveryRespectsUser

-----------------------------------------------------------------------------
(* How executions move, and which step binds an AI run.                    *)

\* The execution has created its AI run, or has ended without one.
Generated(r) == job[r].pc \notin {"free", "route", "generate"}

\* What a step may do to AI run r and its execution.
RunMoves(r) ==
  /\ job[r].pc # "free" => job'[r].id = job[r].id
  /\ Generated(r) => Generated(r)'
  /\ job[r].pc \notin {"free", "route"} => job'[r].pc \notin {"free", "route"}
  /\ job'[r].pc = "await" => job[r].pc \in {"await", "bind"}
  /\ ai'[r] = "live" => ai[r] = "live" \/ job[r].pc = "generate"

\* An execution keeps its attempt, gets to its await by binding its AI run, and
\* moves by its own steps but for a crash and a completion in conflict.
LEMMA JobsStay ==
  ASSUME EngineTypeOK, [EngineNext]_allVars, NEW r \in AiRuns, job[r].pc # "free"
  PROVE  /\ job'[r].id = job[r].id
         /\ job'[r].pc = "await" => job[r].pc = "await" \/ Bind(r)
         /\ \/ job'[r].pc = job[r].pc
            \/ job[r].pc = "complete" /\ job'[r].pc = "error"
            \/ Execution(r) \/ CompletionDropped(r) \/ Crash
<1> DEFINE P == /\ job'[r].id = job[r].id
                /\ job'[r].pc = "await" => job[r].pc = "await" \/ Bind(r)
         /\ \/ job'[r].pc = job[r].pc
            \/ job[r].pc = "complete" /\ job'[r].pc = "error"
            \/ Execution(r) \/ CompletionDropped(r) \/ Crash
<1>j. job \in JobTable /\ TypeOK
  BY DEF EngineTypeOK, JobTable
<1>k. job'[r] = job[r] => P
  OBVIOUS
<1>c. \A jobs \in JobTable : job' = Conflicted(jobs) /\ jobs[r] = job[r] => P
  BY JobsType
<1> SUFFICES P
  OBVIOUS
<1> HIDE DEF P
<1>s. ASSUME FreeRuns # {}, NEW id \in NodeRunIds, NEW by \in {"user", "auto", "recovery"}
      PROVE  /\ Started(job, id, by) \in JobTable
             /\ Started(job, id, by)[r] = job[r]
  <2>1. r # NewRun
    BY <1>s, NewRunIsFree
  <2> QED BY <1>j, <1>s, <2>1, StartedType
<1>1. ASSUME NEW q \in AiRuns, Execution(q) PROVE P
  <2>1. job'[r].id = job[r].id
    BY <1>1, ExecutionWorks DEF Works
  <2>2. q # r => \/ job'[r].pc = job[r].pc
                 \/ job[r].pc = "complete" /\ job'[r].pc = "error"
    BY <1>1, ExecutionWorks DEF Works
  <2>3. CASE q = r
    <3>1. Bind(r) \/ ~(job'[r].pc = "await")
      <4>1. RouteFails(r) \/ Reserve(r) \/ Undo(r) \/ Complete(r) \/ WaitGate(r)
              \/ SettleError(r) \/ SettleFailed(r) \/ Generate(r) \/ Settle(r)
            => \E pc \in JobPc \ {"await"} : job' = Conflicted(At(r, pc)) \/ job' = At(r, pc)
        BY DEF RouteFails, Reserve, Undo, Complete, WaitGate, SettleError, SettleFailed,
           Generate, Settle, Tx, JobPc
      <4>2. ASSUME NEW pc \in JobPc \ {"await"}, job' = Conflicted(At(r, pc)) \/ job' = At(r, pc)
            PROVE  job'[r].pc # "await"
        <5>1. At(r, pc) \in JobTable /\ At(r, pc)[r].pc = pc
          BY <1>j, AtType
        <5> QED BY <4>2, <5>1, JobsType
      <4> QED BY <1>1, <2>3, <4>1, <4>2 DEF Execution
    <3> QED BY <1>1, <2>1, <2>3, <3>1 DEF P
  <2> QED BY <2>1, <2>2, <2>3 DEF P
<1>2. ASSUME NEW q \in AiRuns, AiRunEnds(q) \/ CompletionDropped(q) \/ CancelRun(q)
      PROVE  P
  <2>1. \/ job' = job
        \/ CompletionDropped(q) /\ job' = At(q, "done")
    BY <1>2 DEF AiRunEnds, CompletionDropped, CancelRun
  <2>2. CompletionDropped(q) /\ job' = At(q, "done") => P
    BY <1>j, AtType DEF JobPc, P
  <2> QED BY <1>k, <2>1, <2>2
<1>3. CASE Worker
  <2>1. ASSUME NEW d \in worker.todo, ProcessDispatch(d) PROVE P
    <3>1. d[2] \in NodeRunIds /\ d[1] \in {"user", "auto", "recovery"}
      BY DEF EngineTypeOK, Dispatches
    <3>2. job' = job \/ (FreeRuns # {} /\ job' = Started(job, d[2], d[1]))
      BY <2>1 DEF ProcessDispatch
    <3> QED BY <1>k, <1>s, <3>1, <3>2
  <2>2. CASE ListDispatches \/ ReturnToWorker \/ EndPass \/ EndDrain
    <3>1. job' = job
      BY <2>2 DEF ListDispatches, ReturnToWorker, EndPass, EndDrain
    <3> QED BY <1>k, <3>1
  <2> QED BY <1>3, <2>1, <2>2 DEF Worker
<1>4. CASE User
  <2>1. ASSUME NEW n \in Nodes, Start(n) \/ Resume(n) \/ Retry(n)
        PROVE  P
    <3>1. Latest(n) \in NodeRunIds
      BY <1>j, LatestRun
    <3>2. CASE Start(n)
      BY <1>k, <1>s, <3>1, <3>2 DEF Start
    <3>3. CASE Resume(n)
      <4>1. FreeRuns # {} /\ job' = Conflicted(Started(job, Latest(n), "user"))
        BY <3>3 DEF Resume, UserTx, Tx
      <4> QED BY <1>c, <1>s, <3>1, <4>1
    <3>4. CASE Retry(n)
      <4>1. PrepareRetry(n) /\ \/ job' = Conflicted(job)
                               \/ /\ FreeRuns # {}
                                  /\ job' = Conflicted(Started(job, <<n, latest[n] + 1>>, "user"))
        BY <3>4 DEF Retry, UserTx, Tx
      <4>2. latest[n] + 1 \in Attempts
        BY <1>j, <4>1, ExecutionAssumption
        DEF PrepareRetry, TypeOK, Attempts, ExecutionAssumption
      <4>3. <<n, latest[n] + 1>> \in NodeRunIds
        BY <4>2 DEF NodeRunIds
      <4> QED BY <1>c, <1>j, <1>s, <4>1, <4>3
    <3> QED BY <2>1, <3>2, <3>3, <3>4
  <2>2. ASSUME \/ \E n \in Nodes : Pause(n) \/ Cancel(n) \/ Skip(n)
               \/ \E id \in NodeRunIds : Ask(id) \/ Answer(id) \/ Reevaluate(id)
               \/ \E k \in 1..MaxLimit : ChangeParallelism(k)
        PROVE  P
    <3>1. job' = job \/ job' = Conflicted(job)
      BY <2>2 DEF Pause, Cancel, Skip, Ask, Answer, Reevaluate, ChangeParallelism, UserTx, Tx
    <3> QED BY <1>k, <1>c, <1>j, <3>1
  <2>3. ASSUME NEW id \in NodeRunIds, ResolveGate(id) PROVE P
    <3>1. \/ job' = Conflicted(job)
          \/ job' = [q \in AiRuns |->
                       IF job[q].pc = "complete" /\ job[q].id = id
                       THEN [job[q] EXCEPT !.pc = "error"] ELSE job[q]]
      BY <2>3 DEF ResolveGate, UserTx, Tx
    <3>2. ASSUME job' = [q \in AiRuns |->
                           IF job[q].pc = "complete" /\ job[q].id = id
                           THEN [job[q] EXCEPT !.pc = "error"] ELSE job[q]]
          PROVE  P
      BY <1>j, <3>2 DEF JobTable, P
    <3> QED BY <1>k, <1>c, <1>j, <3>1, <3>2
  <2> QED BY <1>4, <2>1, <2>2, <2>3 DEF User
<1>5. CASE Recovery
  <2>1. job' = job \/ job' = Conflicted(job)
    BY <1>5 DEF Recovery, RecoverRuns, NextPhase, Reconcile, RecoverNode, RequeueNode, Tx
  <2>2. job' = job => P
    BY <1>k
  <2>3. job' = Conflicted(job) => P
    BY <1>c, <1>j
  <2> QED BY <2>1, <2>2, <2>3
<1>6. CASE Crash
  BY <1>j, <1>6 DEF Crash, JobTable, P
<1>7. CASE UNCHANGED allVars
  BY <1>7 DEF allVars, engineVars, P
<1> QED BY <1>1, <1>2, <1>3, <1>4, <1>5, <1>6, <1>7 DEF EngineNext

LEMMA EngineRunMoves ==
  ASSUME EngineTypeOK, [EngineNext]_allVars, NEW r \in AiRuns
  PROVE  RunMoves(r)
<1>0. job[r].pc # "free" => job'[r].id = job[r].id
  BY JobsStay
<1>1. CASE Proceeds(r)
  BY <1>0, <1>1 DEF Proceeds, Keeps, RunMoves, Generated
<1>2. CASE AllProceed
  BY <1>1, <1>2 DEF AllProceed
<1>3. CASE Recovery
  <2>1. CASE RecoverRuns
    <3>1. job' = job /\ (ai'[r] = ai[r] \/ ai'[r] = "interrupted")
      BY <2>1 DEF RecoverRuns, EngineTypeOK
    <3> QED BY <1>0, <3>1 DEF RunMoves, Generated
  <2>2. CASE ~RecoverRuns
    <3>1. ai' = ai /\ (job' = job \/ job' = Conflicted(job))
      BY <1>3, <2>2 DEF Recovery, NextPhase, Reconcile, RecoverNode, RequeueNode, Tx
    <3> QED BY <1>1, <3>1, RestProceeds
  <2> QED BY <2>1, <2>2
<1>4. CASE Crash
  <2>1. /\ ai' = ai
        /\ \/ job[r].pc = "free" /\ job'[r].pc = "free"
           \/ job[r].pc # "free" /\ job'[r].pc = "done"
    BY <1>4 DEF Crash, EngineTypeOK
  <2> QED BY <1>0, <2>1 DEF RunMoves, Generated
<1>5. CASE UNCHANGED allVars
  BY <1>0, <1>5 DEF allVars, engineVars, RunMoves, Generated
<1> QED
  BY <1>2, <1>3, <1>4, <1>5, ExecutionProceeds, AiRunProceeds, WorkerProceeds, UserProceeds
  DEF EngineNext

\* Every transaction but reserveNode and bindAiRun.
OtherTransactions ==
  \/ UNCHANGED vars
  \/ \E id \in NodeRunIds :
       \/ WaitForUser(id) \/ FailRecovery(id) \/ InterruptNode(id)
       \/ \E s \in {"failed", "cancelled"} : FinishNode(id, s)
       \/ CompleteNode(id) \/ OpenQuestion(id) \/ ResolveQuestion(id)
  \/ \E n \in Nodes :
       \/ PauseNode(n) \/ ResumeNode(n) \/ CancelNode(n) \/ SkipNode(n)
       \/ PrepareRetry(n) \/ RequeueInterrupted(n)
  \/ \E k \in 1..MaxLimit : SetParallelism(k)
  \/ ReconcileDispatches

BindsNothing == OtherTransactions \/ \E id \in NodeRunIds : ReserveNode(id)

LEMMA OnlyBindBinds ==
  ASSUME TypeOK, BindsNothing, NEW id \in NodeRunIds
  PROVE  run'[id].ai \in {NoRun, run[id].ai}
<1>t. /\ run \in [NodeRunIds -> RunRecord]
      /\ \A n \in Nodes : Latest(n) \in NodeRunIds
  BY LatestRun DEF TypeOK
<1>1. ASSUME NEW i \in NodeRunIds, NEW s,
             run' = [run EXCEPT ![i] = [status |-> s, ai |-> NoRun]]
      PROVE  run'[id].ai \in {NoRun, run[id].ai}
  BY <1>t, <1>1
<1>2. ASSUME NEW i \in NodeRunIds, NEW s,
             run' = [run EXCEPT ![i] = [status |-> s, ai |-> run[i].ai]]
      PROVE  run'[id].ai \in {NoRun, run[id].ai}
  BY <1>t, <1>2
<1>3. ASSUME NEW st, NEW runs \in [NodeRunIds -> RunRecord], runs[id].ai = run[id].ai,
             run' = Activated(st, runs)
      PROVE  run'[id].ai \in {NoRun, run[id].ai}
  BY <1>3 DEF Activated, RunRecord
<1>4. ASSUME NEW i \in NodeRunIds, NEW s \in RunStatus
      PROVE  LET runs == [run EXCEPT ![i].status = s]
             IN  runs \in [NodeRunIds -> RunRecord] /\ runs[id].ai = run[id].ai
  BY <1>t, <1>4 DEF RunRecord
<1>s. {"failed", "cancelled", "completed", "waiting_user", "skipped"} \subseteq RunStatus
  BY DEF RunStatus, NodeStatus
<1>5. ASSUME NEW i \in NodeRunIds,
             \/ ReserveNode(i) \/ WaitForUser(i) \/ FailRecovery(i) \/ InterruptNode(i)
      PROVE  run'[id].ai \in {NoRun, run[id].ai}
  BY <1>1, <1>2, <1>5 DEF ReserveNode, WaitForUser, FailRecovery, InterruptNode, Transition
<1>6. ASSUME NEW i \in NodeRunIds, NEW s \in {"failed", "cancelled"}, FinishNode(i, s)
      PROVE  run'[id].ai \in {NoRun, run[id].ai}
  <2>1. run' = Activated(Finished(i[1], s), [run EXCEPT ![i].status = s])
    BY <1>6 DEF FinishNode
  <2> QED BY <1>3, <1>4, <1>s, <2>1
<1>7. ASSUME NEW i \in NodeRunIds, CompleteNode(i)
      PROVE  run'[id].ai \in {NoRun, run[id].ai}
  <2>1. run' = Activated(Finished(i[1], "completed"), [run EXCEPT ![i].status = "completed"])
    BY <1>7 DEF CompleteNode
  <2> QED BY <1>3, <1>4, <1>s, <2>1
<1>8. ASSUME NEW i \in NodeRunIds, OpenQuestion(i) \/ ResolveQuestion(i)
      PROVE  run'[id].ai \in {NoRun, run[id].ai}
  <2>1. run' = run \/ run' = [run EXCEPT ![i].status = "waiting_user"]
    BY <1>8 DEF OpenQuestion, ResolveQuestion
  <2> QED BY <1>t, <2>1 DEF RunRecord
<1>9. ASSUME NEW n \in Nodes, PauseNode(n) \/ ResumeNode(n)
      PROVE  run'[id].ai \in {NoRun, run[id].ai}
  BY <1>t, <1>2, <1>9 DEF PauseNode, ResumeNode, Transition
<1>10. ASSUME NEW n \in Nodes, CancelNode(n)
       PROVE  run'[id].ai \in {NoRun, run[id].ai}
  <2>1. run' = [run EXCEPT ![Latest(n)].status = "cancelled"]
    BY <1>10 DEF CancelNode
  <2> QED BY <1>t, <2>1 DEF RunRecord
<1>11. ASSUME NEW n \in Nodes, SkipNode(n)
       PROVE  run'[id].ai \in {NoRun, run[id].ai}
  <2>1. run' = Activated(Finished(n, "skipped"), [run EXCEPT ![Latest(n)].status = "skipped"])
    BY <1>11 DEF SkipNode
  <2> QED BY <1>t, <1>3, <1>4, <1>s, <2>1
<1>12. ASSUME NEW n \in Nodes, PrepareRetry(n)
       PROVE  run'[id].ai \in {NoRun, run[id].ai}
  BY <1>t, <1>12 DEF PrepareRetry
<1>13. ASSUME NEW k, SetParallelism(k)
       PROVE  run'[id].ai \in {NoRun, run[id].ai}
  <2>1. run' = Activated(Admit(node, k), run)
    BY <1>13 DEF SetParallelism
  <2> QED BY <1>t, <1>3, <2>1
<1>14. ASSUME \/ UNCHANGED vars \/ ReconcileDispatches
              \/ \E n \in Nodes : RequeueInterrupted(n)
       PROVE  run'[id].ai \in {NoRun, run[id].ai}
  BY <1>14 DEF vars, ReconcileDispatches, RequeueInterrupted
<1> QED
  BY <1>5, <1>6, <1>7, <1>8, <1>9, <1>10, <1>11, <1>12, <1>13, <1>14
  DEF BindsNothing, OtherTransactions

\* In the engine only the steps Reserve and Bind take the other two.
LEMMA EngineTransactions ==
  ASSUME EngineTypeOK, [EngineNext]_allVars
  PROVE  \/ OtherTransactions
         \/ \E r \in AiRuns : \/ Reserve(r) /\ ReserveNode(job[r].id)
                              \/ Bind(r) /\ BindAiRun(job[r].id, r)
<1>j. TypeOK /\ \A q \in AiRuns : job[q].id \in NodeRunIds
  BY DEF EngineTypeOK
<1>l. \A n \in Nodes : Latest(n) \in NodeRunIds
  BY <1>j, LatestRun
<1>1. ASSUME NEW q \in AiRuns, Execution(q) 
      PROVE  \/ OtherTransactions
             \/ Reserve(q) /\ ReserveNode(job[q].id)
             \/ Bind(q) /\ BindAiRun(job[q].id, q)
  <2>1. \/ UNCHANGED vars
        \/ Bind(q) /\ BindAiRun(job[q].id, q)
        \/ Reserve(q) /\ ReserveNode(job[q].id)
        \/ FailRecovery(job[q].id) \/ FinishNode(job[q].id, "failed")
        \/ CompleteNode(job[q].id) \/ WaitForUser(job[q].id)
        \/ FinishNode(job[q].id, Outcome(q))
    BY <1>1 DEF Execution, RouteFails, Reserve, Generate, Bind, Undo, Settle, Complete,
       WaitGate, SettleError, SettleFailed, SettleFailure, Tx
  <2>2. Outcome(q) \in {"failed", "cancelled"}
    BY DEF Outcome
  <2> QED BY <1>j, <2>1, <2>2 DEF OtherTransactions
<1>2. ASSUME NEW q \in AiRuns, AiRunEnds(q) \/ CompletionDropped(q) \/ CancelRun(q)
      PROVE  OtherTransactions
  BY <1>2 DEF AiRunEnds, CompletionDropped, CancelRun, OtherTransactions
<1>3. CASE Worker
  <2>1. UNCHANGED vars
    BY <1>3 DEF Worker, ListDispatches, ReturnToWorker, EndPass, EndDrain, ProcessDispatch
  <2> QED BY <2>1 DEF OtherTransactions
<1>4. CASE User
  <2>1. ASSUME NEW n \in Nodes,
               Start(n) \/ Pause(n) \/ Resume(n) \/ Cancel(n) \/ Skip(n) \/ Retry(n)
        PROVE  OtherTransactions
    <3>1. \/ UNCHANGED vars
          \/ PauseNode(n) \/ ResumeNode(n) \/ CancelNode(n) \/ SkipNode(n) \/ PrepareRetry(n)
      BY <2>1 DEF Start, Pause, Resume, Cancel, Skip, Retry, UserTx, Tx
    <3> QED BY <3>1 DEF OtherTransactions
  <2>2. ASSUME NEW i \in NodeRunIds, ResolveGate(i) \/ Ask(i) \/ Answer(i) \/ Reevaluate(i)
        PROVE  OtherTransactions
    <3>1. UNCHANGED vars \/ CompleteNode(i) \/ OpenQuestion(i) \/ ResolveQuestion(i)
      BY <2>2 DEF ResolveGate, Ask, Answer, Reevaluate, UserTx, Tx
    <3> QED BY <3>1 DEF OtherTransactions
  <2>3. ASSUME NEW k \in 1..MaxLimit, ChangeParallelism(k) PROVE OtherTransactions
    BY <2>3 DEF ChangeParallelism, UserTx, Tx, OtherTransactions
  <2> QED BY <1>4, <2>1, <2>2, <2>3 DEF User
<1>5. CASE Recovery
  <2>1. \/ UNCHANGED vars \/ ReconcileDispatches
        \/ \E n \in Nodes : InterruptNode(Latest(n)) \/ RequeueInterrupted(n)
    BY <1>5 DEF Recovery, RecoverRuns, NextPhase, Reconcile, RecoverNode, RequeueNode, Tx
  <2> QED BY <1>l, <2>1 DEF OtherTransactions
<1>6. CASE Crash \/ UNCHANGED allVars
  BY <1>6 DEF Crash, allVars, OtherTransactions
<1> QED BY <1>1, <1>2, <1>3, <1>4, <1>5, <1>6 DEF EngineNext

LEMMA EngineBinds ==
  ASSUME EngineTypeOK, [EngineNext]_allVars
  PROVE  BindsNothing \/ \E r \in AiRuns : Bind(r) /\ BindAiRun(job[r].id, r)
<1>1. \A r \in AiRuns : job[r].id \in NodeRunIds
  BY DEF EngineTypeOK
<1> QED BY <1>1, EngineTransactions DEF BindsNothing

-----------------------------------------------------------------------------
(* Who is at work on a running NodeRun.                                    *)

Over == {"failed", "cancelled", "interrupted"}

\* A NodeRun that has been retried is over.
SupersededIsOver ==
  \A id \in NodeRunIds : id[2] < latest[id[1]] => Status(id) \in Over

\* Run id, which runs after the step, has run before, and nothing was done to it
\* or to its node.
RunsOn(id) ==
  /\ run'[id] = run[id]
  /\ node[id[1]] = "running" => node'[id[1]] = "running"

\* Transactions either end a run or do not concern it.
LEMMA TransactionsOnRunning ==
  ASSUME TypeOK, SupersededIsOver, NEW n \in Nodes, NEW id, id = Latest(n),
         run'[id].status = "running"
  PROVE  /\ UNCHANGED vars => RunsOn(id)
         /\ \A i \in NodeRunIds :
              /\ i # id /\ ReserveNode(i) => RunsOn(id)
              /\ \A q \in AiRuns : i # id /\ BindAiRun(i, q) => RunsOn(id)
              /\ WaitForUser(i) \/ FailRecovery(i) \/ InterruptNode(i) => i # id /\ RunsOn(id)
              /\ \A s \in {"failed", "cancelled"} :
                   FinishNode(i, s) /\ Latest(i[1]) = i => i # id /\ RunsOn(id)
              /\ CompleteNode(i) => i # id /\ RunsOn(id)
              /\ OpenQuestion(i) \/ ResolveQuestion(i) => RunsOn(id)
         /\ \A m \in Nodes :
              /\ PauseNode(m) \/ ResumeNode(m) \/ CancelNode(m) \/ SkipNode(m) => RunsOn(id)
              /\ PrepareRetry(m) \/ RequeueInterrupted(m) => RunsOn(id)
         /\ \A k : SetParallelism(k) => RunsOn(id)
         /\ ReconcileDispatches => RunsOn(id)
<1>t. /\ run \in [NodeRunIds -> RunRecord]
      /\ \A i \in NodeRunIds : Status(i) = "none" <=> i[2] > latest[i[1]]
      /\ \A m \in Nodes : Latest(m) \in NodeRunIds /\ Latest(m)[1] = m
      /\ node \in [Nodes -> NodeStatus]
      /\ latest \in [Nodes -> Attempts]
  BY LatestRun DEF TypeOK, Latest
<1>i. id \in NodeRunIds /\ id[1] = n /\ id[2] = latest[n]
  BY <1>t DEF Latest
<1>n. \A i \in NodeRunIds : i[1] \in Nodes /\ i[2] \in Nat /\ latest[i[1]] \in Nat
                            /\ i = <<i[1], i[2]>>
  BY <1>t, ExecutionAssumption DEF NodeRunIds, Attempts, ExecutionAssumption
\* An attempt that is not the latest is over or not there.
<1>o. ASSUME NEW i \in NodeRunIds, i # Latest(i[1])
      PROVE  Status(i) \in Over \cup {"none"}
  BY <1>t, <1>n, <1>o DEF SupersededIsOver, Latest
<1> HIDE DEF Latest
\* The three shapes of the writes.
<1>1. ASSUME NEW st, NEW runs \in [NodeRunIds -> RunRecord], run' = Activated(st, runs)
      PROVE  run'[id] = runs[id]
  BY <1>1, <1>i DEF Activated, RunRecord
<1>2. ASSUME NEW i \in NodeRunIds, i # id, NEW x, run' = [run EXCEPT ![i] = x]
      PROVE  run'[id] = run[id]
  BY <1>t, <1>i, <1>2
<1>3. ASSUME NEW i \in NodeRunIds, NEW s \in NodeStatus
      PROVE  /\ [run EXCEPT ![i].status = s] \in [NodeRunIds -> RunRecord]
             /\ [run EXCEPT ![i].status = s][i].status = s
             /\ i # id => [run EXCEPT ![i].status = s][id] = run[id]
  BY <1>t, <1>i, <1>3 DEF RunRecord, RunStatus
\* The shapes of what is done to the node.
<1>4. ASSUME NEW m \in Nodes, NEW s, node' = [node EXCEPT ![m] = s],
             n # m \/ s = "running"
      PROVE  node[n] = "running" => node'[n] = "running"
  BY <1>t, <1>4
<1>5. ASSUME NEW m \in Nodes, NEW s \in {"failed", "cancelled", "completed", "skipped"},
             node' = Finished(m, s), n # m
      PROVE  node[n] = "running" => node'[n] = "running"
  <2>1. s \in NodeStatus \ ActiveStatus /\ s # "pending"
    BY DEF NodeStatus, ActiveStatus
  <2> QED BY <1>5, <2>1, EndFacts
<1>6. ASSUME NEW i \in NodeRunIds, NEW s \in {"failed", "cancelled", "completed"},
             node' = Finished(i[1], s), i = Latest(i[1]),
             run' = Activated(Finished(i[1], s), [run EXCEPT ![i].status = s])
      PROVE  i # id /\ RunsOn(id)
  <2>1. s \in NodeStatus
    BY DEF NodeStatus
  <2>2. run'[id] = [run EXCEPT ![i].status = s][id]
    BY <1>1, <1>3, <1>6, <2>1
  <2>3. i # id
    BY <1>3, <2>1, <2>2
  <2>4. i[1] # n
    BY <1>6, <2>3
  <2> QED BY <1>3, <1>5, <1>6, <1>i, <1>n, <2>1, <2>2, <2>3, <2>4 DEF RunsOn
<1>7. UNCHANGED vars => RunsOn(id)
  BY DEF vars, RunsOn
<1>8. ASSUME NEW i \in NodeRunIds, i # id, ReserveNode(i) PROVE RunsOn(id)
  <2>1. run' = [run EXCEPT ![i] = [status |-> "running", ai |-> NoRun]]
        /\ node' = [node EXCEPT ![i[1]] = "running"]
    BY <1>8 DEF ReserveNode, Transition, Commit
  <2> QED BY <1>2, <1>4, <1>8, <1>i, <1>n, <2>1 DEF RunsOn
<1>9. ASSUME NEW i \in NodeRunIds, NEW q \in AiRuns, i # id, BindAiRun(i, q) PROVE RunsOn(id)
  BY <1>9, <1>t, <1>i DEF BindAiRun, RunsOn
<1>10. ASSUME NEW i \in NodeRunIds, WaitForUser(i) \/ FailRecovery(i) \/ InterruptNode(i)
       PROVE  i # id /\ RunsOn(id)
  <2>1. PICK s \in {"waiting_user", "interrupted"} :
          /\ Status(i) = "running"
          /\ run' = [run EXCEPT ![i] = [status |-> s, ai |-> run[i].ai]]
          /\ node' = [node EXCEPT ![i[1]] = s]
    BY <1>10 DEF WaitForUser, FailRecovery, InterruptNode, Transition, CanTransition, Commit
  <2>2. i # id
    BY <2>1, <1>t, <1>i
  <2>3. i[1] # n
    BY <1>o, <2>1, <2>2 DEF Over
  <2> QED BY <1>2, <1>4, <1>i, <1>n, <2>1, <2>2, <2>3 DEF RunsOn
<1>11. ASSUME NEW i \in NodeRunIds, NEW s \in {"failed", "cancelled"}, FinishNode(i, s),
              Latest(i[1]) = i
       PROVE  i # id /\ RunsOn(id)
  BY <1>6, <1>11 DEF FinishNode, Commit
<1>12. ASSUME NEW i \in NodeRunIds, CompleteNode(i) PROVE i # id /\ RunsOn(id)
  <2>1. i = Latest(i[1])
    BY <1>o, <1>12 DEF CompleteNode, Over
  <2> QED BY <1>6, <1>12, <2>1 DEF CompleteNode, Commit
<1>13. ASSUME NEW i \in NodeRunIds, OpenQuestion(i) \/ ResolveQuestion(i) PROVE RunsOn(id)
  <2>1. CASE run' = run /\ node' = node
    BY <2>1 DEF RunsOn
  <2>2. CASE /\ Status(i) = "running"
             /\ node' = [node EXCEPT ![i[1]] = "waiting_user"]
             /\ run' = [run EXCEPT ![i].status = "waiting_user"]
    <3>1. i # id
      BY <1>3, <2>2 DEF NodeStatus
    <3>2. i[1] # n
      BY <1>o, <2>2, <3>1 DEF Over
    <3>3. run'[id] = run[id]
      BY <1>3, <2>2, <3>1 DEF NodeStatus
    <3>4. node[n] = "running" => node'[n] = "running"
      BY <1>4, <1>n, <2>2, <3>2
    <3> QED BY <1>i, <3>3, <3>4 DEF RunsOn
  <2> QED BY <1>13, <2>1, <2>2 DEF OpenQuestion, ResolveQuestion
<1>14. ASSUME NEW m \in Nodes, PauseNode(m) \/ ResumeNode(m) PROVE RunsOn(id)
  <2>1. PICK s \in {"paused", "ready"} :
          /\ run' = [run EXCEPT ![Latest(m)] = [status |-> s, ai |-> run[Latest(m)].ai]]
          /\ node' = [node EXCEPT ![m] = s]
    BY <1>14, <1>t DEF PauseNode, ResumeNode, Transition, Commit
  <2>2. Latest(m) # id
    BY <2>1, <1>t, <1>i
  <2>3. m # n
    BY <2>2
  <2> QED BY <1>2, <1>4, <1>i, <1>t, <2>1, <2>2, <2>3 DEF RunsOn
<1>15. ASSUME NEW m \in Nodes, CancelNode(m) PROVE RunsOn(id)
  <2>1. run' = [run EXCEPT ![Latest(m)].status = "cancelled"]
        /\ node' = Finished(m, "cancelled")
    BY <1>15 DEF CancelNode, Commit
  <2>2. Latest(m) # id
    BY <1>3, <1>t, <2>1 DEF NodeStatus
  <2>3. m # n
    BY <2>2
  <2> QED BY <1>3, <1>5, <1>i, <1>t, <2>1, <2>2, <2>3 DEF RunsOn, NodeStatus
<1>16. ASSUME NEW m \in Nodes, SkipNode(m) PROVE RunsOn(id)
  <2>1. /\ node' = Finished(m, "skipped")
        /\ run' = Activated(Finished(m, "skipped"), [run EXCEPT ![Latest(m)].status = "skipped"])
    BY <1>16 DEF SkipNode
  <2>2. "skipped" \in NodeStatus /\ Latest(m) \in NodeRunIds
    BY <1>t DEF NodeStatus
  <2>3. run'[id] = [run EXCEPT ![Latest(m)].status = "skipped"][id]
    BY <1>1, <1>3, <2>1, <2>2
  <2>4. Latest(m) # id
    BY <1>3, <2>2, <2>3
  <2>5. m # n
    BY <2>4
  <2> QED BY <1>3, <1>5, <1>i, <2>1, <2>2, <2>3, <2>4, <2>5 DEF RunsOn
<1>17. ASSUME NEW m \in Nodes, PrepareRetry(m) PROVE RunsOn(id)
  <2>1. /\ latest[m] + 1 \in Attempts /\ latest[m] \in Nat
        /\ run' = [run EXCEPT ![<<m, latest[m] + 1>>] = [status |-> "ready", ai |-> NoRun]]
        /\ node' = node
    BY <1>17, <1>t, ExecutionAssumption DEF PrepareRetry, Attempts, ExecutionAssumption
  <2>2. <<m, latest[m] + 1>> \in NodeRunIds /\ <<m, latest[m] + 1>> # id
    BY <1>i, <2>1 DEF NodeRunIds
  <2> QED BY <1>2, <2>1, <2>2 DEF RunsOn
<1>18. ASSUME NEW k, SetParallelism(k) PROVE RunsOn(id)
  <2>1. run' = Activated(Admit(node, k), run) /\ node' = Admit(node, k)
    BY <1>18 DEF SetParallelism
  <2>2. node[n] = "running" => node'[n] = "running"
    BY <2>1 DEF Admit
  <2> QED BY <1>1, <1>i, <1>t, <2>1, <2>2 DEF RunsOn
<1>19. (\E m \in Nodes : RequeueInterrupted(m)) \/ ReconcileDispatches => RunsOn(id)
  BY DEF RequeueInterrupted, ReconcileDispatches, RunsOn
<1> QED
  BY <1>7, <1>8, <1>9, <1>10, <1>11, <1>12, <1>13, <1>14, <1>15, <1>16, <1>17, <1>18, <1>19

\* What the other transactions do to a NodeRun.
RowMoves(id) ==
  \/ run'[id] = run[id]
  \/ id = Latest(id[1]) /\ run'[id].status # "running"
  \/ Status(id) = "none" /\ run'[id].status = "ready"
  \/ run'[id].status \in Over
  \/ /\ Status(id) \in {"ready", "running", "waiting_user"}
     /\ run'[id].status # "running"

LEMMA RowChanges ==
  ASSUME TypeOK, OtherTransactions, NEW id \in NodeRunIds
  PROVE  RowMoves(id)
<1>t. /\ run \in [NodeRunIds -> RunRecord]
      /\ \A n \in Nodes : Latest(n) \in NodeRunIds /\ Latest(n)[1] = n
      /\ \A i \in NodeRunIds : Status(i) = "none" <=> i[2] > latest[i[1]]
      /\ latest \in [Nodes -> Attempts]
  BY LatestRun DEF TypeOK, Latest
<1> HIDE DEF Latest
<1>s. {"failed", "cancelled", "completed", "waiting_user", "skipped"} \subseteq RunStatus
  BY DEF RunStatus, NodeStatus
\* The three shapes of the writes.
<1>1. ASSUME NEW st, NEW runs \in [NodeRunIds -> RunRecord], run' = Activated(st, runs)
      PROVE  \/ run'[id] = runs[id]
             \/ id = Latest(id[1]) /\ run'[id].status = "ready"
  <2>1. run'[id] = IF id[1] \in Admitted(st) /\ id = Latest(id[1])
                   THEN [runs[id] EXCEPT !.status = "ready"] ELSE runs[id]
    BY <1>1 DEF Activated
  <2>2. [runs[id] EXCEPT !.status = "ready"].status = "ready"
    BY <1>1 DEF RunRecord
  <2> QED BY <2>1, <2>2
<1>2. ASSUME NEW i \in NodeRunIds, NEW s, NEW a, run' = [run EXCEPT ![i] = [status |-> s, ai |-> a]]
      PROVE  /\ i # id => run'[id] = run[id]
             /\ i = id => run'[id].status = s /\ run'[id].ai = a
  BY <1>t, <1>2
<1>3. ASSUME NEW i \in NodeRunIds, NEW s \in RunStatus
      PROVE  /\ [run EXCEPT ![i].status = s] \in [NodeRunIds -> RunRecord]
             /\ [run EXCEPT ![i].status = s][i].status = s
             /\ i # id => [run EXCEPT ![i].status = s][id] = run[id]
  BY <1>t, <1>3 DEF RunRecord
<1>6. ASSUME NEW i \in NodeRunIds, WaitForUser(i) \/ FailRecovery(i) \/ InterruptNode(i)
      PROVE  RowMoves(id)
  <2>1. PICK s \in {"waiting_user", "interrupted"} :
          /\ Status(i) = "running"
          /\ run' = [run EXCEPT ![i] = [status |-> s, ai |-> run[i].ai]]
    BY <1>6 DEF WaitForUser, FailRecovery, InterruptNode, Transition, CanTransition
  <2> QED BY <1>2, <2>1 DEF RowMoves
<1>7. ASSUME NEW i \in NodeRunIds, NEW s \in {"failed", "cancelled"}, FinishNode(i, s)
      PROVE  RowMoves(id)
  <2>1. run' = Activated(Finished(i[1], s), [run EXCEPT ![i].status = s]) /\ s \in RunStatus
    BY <1>7, <1>s DEF FinishNode
  <2>2. \/ run'[id] = [run EXCEPT ![i].status = s][id]
        \/ id = Latest(id[1]) /\ run'[id].status = "ready"
    BY <1>1, <1>3, <2>1
  <2>3. CASE i = id
    <3>1. [run EXCEPT ![i].status = s][id].status = s
      BY <1>3, <2>1, <2>3
    <3>2. run'[id].status = s \/ (id = Latest(id[1]) /\ run'[id].status = "ready")
      BY <2>2, <3>1
    <3> QED BY <3>2 DEF RowMoves, Over
  <2>4. CASE i # id
    BY <1>3, <2>1, <2>2, <2>4 DEF RowMoves
  <2> QED BY <2>3, <2>4
<1>8. ASSUME NEW i \in NodeRunIds, CompleteNode(i) PROVE RowMoves(id)
  <2>1. /\ run' = Activated(Finished(i[1], "completed"), [run EXCEPT ![i].status = "completed"])
        /\ "completed" \in RunStatus
        /\ Status(i) \in {"ready", "running", "waiting_user"}
    BY <1>8, <1>s DEF CompleteNode
  <2>2. \/ run'[id] = [run EXCEPT ![i].status = "completed"][id]
        \/ id = Latest(id[1]) /\ run'[id].status = "ready"
    BY <1>1, <1>3, <2>1
  <2> QED BY <1>3, <2>1, <2>2 DEF RowMoves
<1>9. ASSUME NEW i \in NodeRunIds, OpenQuestion(i) \/ ResolveQuestion(i) PROVE RowMoves(id)
  <2>1. \/ run' = run
        \/ Status(i) = "running" /\ run' = [run EXCEPT ![i].status = "waiting_user"]
    BY <1>9 DEF OpenQuestion, ResolveQuestion
  <2>2. CASE i = id
    BY <1>3, <1>s, <2>1, <2>2 DEF RowMoves
  <2>3. CASE i # id
    BY <1>3, <1>s, <2>1, <2>3 DEF RowMoves
  <2> QED BY <2>2, <2>3
<1>10. ASSUME NEW n \in Nodes, PauseNode(n) \/ ResumeNode(n) PROVE RowMoves(id)
  <2>1. PICK s \in {"paused", "ready"} :
          run' = [run EXCEPT ![Latest(n)] = [status |-> s, ai |-> run[Latest(n)].ai]]
    BY <1>10 DEF PauseNode, ResumeNode, Transition
  <2> QED BY <1>t, <1>2, <2>1 DEF RowMoves
<1>11. ASSUME NEW n \in Nodes, CancelNode(n) PROVE RowMoves(id)
  <2>1. run' = [run EXCEPT ![Latest(n)].status = "cancelled"]
    BY <1>11 DEF CancelNode
  <2> QED BY <1>t, <1>3, <1>s, <2>1 DEF RowMoves
<1>12. ASSUME NEW n \in Nodes, SkipNode(n) PROVE RowMoves(id)
  <2>1. /\ run' = Activated(Finished(n, "skipped"), [run EXCEPT ![Latest(n)].status = "skipped"])
        /\ "skipped" \in RunStatus /\ Latest(n) \in NodeRunIds
    BY <1>12, <1>s, <1>t DEF SkipNode
  <2>2. \/ run'[id] = [run EXCEPT ![Latest(n)].status = "skipped"][id]
        \/ id = Latest(id[1]) /\ run'[id].status = "ready"
    BY <1>1, <1>3, <2>1
  <2>3. CASE Latest(n) = id
    <3>1. id = Latest(id[1])
      BY <1>t, <2>3
    <3>2. run'[id].status # "running"
      BY <1>3, <2>1, <2>2, <2>3
    <3> QED BY <3>1, <3>2 DEF RowMoves
  <2>4. CASE Latest(n) # id
    BY <1>3, <2>1, <2>2, <2>4 DEF RowMoves
  <2> QED BY <2>3, <2>4
<1>13. ASSUME NEW n \in Nodes, PrepareRetry(n) PROVE RowMoves(id)
  <2>1. /\ latest[n] + 1 \in Attempts /\ latest[n] \in Nat
        /\ run' = [run EXCEPT ![<<n, latest[n] + 1>>] = [status |-> "ready", ai |-> NoRun]]
    BY <1>13, <1>t, ExecutionAssumption DEF PrepareRetry, Attempts, ExecutionAssumption
  <2>2. <<n, latest[n] + 1>> \in NodeRunIds /\ Status(<<n, latest[n] + 1>>) = "none"
    BY <1>t, <2>1 DEF NodeRunIds
  <2> QED BY <1>2, <2>1, <2>2 DEF RowMoves
<1>14. ASSUME NEW k, SetParallelism(k) PROVE RowMoves(id)
  <2>1. run' = Activated(Admit(node, k), run)
    BY <1>14 DEF SetParallelism
  <2> QED BY <1>t, <1>1, <2>1 DEF RowMoves
<1>15. UNCHANGED vars \/ ReconcileDispatches \/ (\E n \in Nodes : RequeueInterrupted(n))
         => RowMoves(id)
  BY DEF vars, ReconcileDispatches, RequeueInterrupted, RowMoves
<1> QED
  BY <1>6, <1>7, <1>8, <1>9, <1>10, <1>11, <1>12, <1>13, <1>14, <1>15
  DEF OtherTransactions

\* The latest attempt changes by a retry, to one that is ready.
LEMMA LatestKept ==
  ASSUME TypeOK, [Next]_vars, NEW n \in Nodes
  PROVE  \/ latest'[n] = latest[n]
         \/ /\ PrepareRetry(n)
            /\ latest'[n] = latest[n] + 1
            /\ run'[<<n, latest'[n]>>].status = "ready"
<1>1. ASSUME NEW m \in Nodes, PrepareRetry(m)
      PROVE  \/ latest'[n] = latest[n]
             \/ /\ m = n /\ latest'[n] = latest[n] + 1
                /\ run'[<<n, latest'[n]>>].status = "ready"
  <2>1. latest[m] + 1 \in Attempts
    BY <1>1, ExecutionAssumption DEF PrepareRetry, TypeOK, Attempts, ExecutionAssumption
  <2> QED BY <1>1, <2>1 DEF PrepareRetry, TypeOK, NodeRunIds
<1> QED
  BY <1>1 DEF Next, ReserveNode, BindAiRun, WaitForUser, FailRecovery, InterruptNode, FinishNode,
     CompleteNode, OpenQuestion, ResolveQuestion, PauseNode, ResumeNode, CancelNode, SkipNode,
     RequeueInterrupted, SetParallelism, ReconcileDispatches, Transition, vars

-----------------------------------------------------------------------------

\* The execution is shown running while one of its nodes runs.
ShowsRunning == \A n \in Nodes : node[n] = "running" => exec = "running"

\* Nobody works on a superseded attempt, but for waiting until its AI run ends.
WorksOnLatest ==
  \A r \in AiRuns :
    job[r].pc \in Reserved \ {"await"} => job[r].id = Latest(NodeOf(r))

Holding == {"await", "complete", "wait", "error", "fail"}

\* Execution r is at work on NodeRun id.
Attends(r, id) ==
  /\ job[r].id = id
  /\ \/ run[id].ai = r /\ job[r].pc \in Holding
     \/ run[id].ai = NoRun /\ job[r].pc \in {"generate", "bind", "undo"}

RunsTogether == \A n \in Nodes : Status(Latest(n)) = "running" => node[n] = "running"

\* An AI run is bound to the NodeRun of its execution, which holds it.
BoundToExecution ==
  \A id \in NodeRunIds, r \in AiRuns :
    run[id].ai = r => job[r].id = id /\ job[r].pc \in Holding \cup {"done"}

\* Who is about to cancel an AI run, or is cancelling it, has ended its NodeRun.
StoppedIsOver ==
  \A r \in AiRuns :
    r \in stop \/ ai[r] = "cancelling" =>
      /\ job[r].pc \notin {"free", "route", "generate", "bind"}
      /\ \A id \in NodeRunIds : run[id].ai = r => Status(id) # "running"

InterruptedIsOver ==
  \A r \in AiRuns : ai[r] = "interrupted" => job[r].pc \in {"done", "thrown"}

AttendedInv ==
  /\ SupersededIsOver /\ RunsTogether
  /\ BoundToExecution /\ StoppedIsOver /\ InterruptedIsOver
  /\ RunningHasExecution

LEMMA AttendedBySomeone ==
  RunningHasExecution <=>
    \A n \in Nodes :
      Status(Latest(n)) = "running" =>
        phase \in {"runs", "interrupt"} \/ \E r \in AiRuns : Attends(r, Latest(n))
BY DEF RunningHasExecution, Attends, Holding

\* Executions do not go back.
LEMMA ExecutionsAdvance ==
  ASSUME EngineTypeOK, [EngineNext]_allVars, NEW r \in AiRuns
  PROVE  /\ job[r].pc \in Holding \cup {"done"} => job'[r].pc \in Holding \cup {"done"}
         /\ job[r].pc \in {"done", "thrown"} => job'[r].pc \in {"done", "thrown"}
         /\ job[r].pc \notin {"free", "route", "generate", "bind"}
              => job'[r].pc \notin {"free", "route", "generate", "bind"}
<1> DEFINE P == /\ job[r].pc \in Holding \cup {"done"} => job'[r].pc \in Holding \cup {"done"}
                /\ job[r].pc \in {"done", "thrown"} => job'[r].pc \in {"done", "thrown"}
                /\ job[r].pc \notin {"free", "route", "generate", "bind"}
                     => job'[r].pc \notin {"free", "route", "generate", "bind"}
<1> SUFFICES P
  OBVIOUS
<1>1. Proceeds(r) => P
  BY DEF Proceeds, Keeps, Holding
<1>2. AllProceed => P
  BY <1>1 DEF AllProceed
<1>3. job' = job => P
  OBVIOUS
<1>4. ai' = ai /\ job' = Conflicted(job) => P
  BY <1>1, RestProceeds
<1>5. Crash => P
  BY DEF Crash, EngineTypeOK
<1> HIDE DEF P
<1>6. Recovery => P
  <2>1. Recovery => job' = job \/ (ai' = ai /\ job' = Conflicted(job))
    BY DEF Recovery, RecoverRuns, NextPhase, Reconcile, RecoverNode, RequeueNode, Tx
  <2> QED BY <1>3, <1>4, <2>1
<1>7. UNCHANGED allVars => P
  BY <1>3 DEF allVars, engineVars
<1> QED
  BY <1>2, <1>5, <1>6, <1>7, ExecutionProceeds, AiRunProceeds, WorkerProceeds, UserProceeds
  DEF EngineNext

\* How an AI run comes to be cancelled or interrupted.
LEMMA AiRunMoves ==
  ASSUME EngineTypeOK, [EngineNext]_allVars, NEW r \in AiRuns
  PROVE  /\ ai'[r] = "cancelling" => ai[r] = "cancelling" \/ r \in stop \/ Undo(r)
         /\ ai'[r] = "interrupted" =>
              ai[r] = "interrupted" \/ (phase = "runs" /\ job' = job /\ ai[r] \in {"live", "cancelling"})
         /\ r \in stop' =>
              \/ r \in stop
              \/ \E n \in Nodes : (Pause(n) \/ Cancel(n)) /\ run[Latest(n)].ai = r
<1> DEFINE P == /\ ai'[r] = "cancelling" => ai[r] = "cancelling" \/ r \in stop \/ Undo(r)
                /\ ai'[r] = "interrupted" =>
                     \/ ai[r] = "interrupted"
                     \/ phase = "runs" /\ job' = job /\ ai[r] \in {"live", "cancelling"}
                /\ r \in stop' =>
                     \/ r \in stop
                     \/ \E n \in Nodes : (Pause(n) \/ Cancel(n)) /\ run[Latest(n)].ai = r
<1> SUFFICES P
  OBVIOUS
<1>t. ai \in [AiRuns -> AiStatus]
  BY DEF EngineTypeOK
<1>1. ai' = ai /\ stop' \subseteq stop => P
  OBVIOUS
<1>2. ASSUME NEW q \in AiRuns, Execution(q) PROVE P
  <2>1. CASE Generate(q)
    BY <1>t, <2>1 DEF Generate
  <2>2. CASE Undo(q)
    BY <1>t, <2>2 DEF Undo
  <2>3. CASE ~Generate(q) /\ ~Undo(q)
    <3>1. ai' = ai /\ stop' = stop
      BY <1>2, <2>3 DEF Execution, RouteFails, Reserve, Bind, Settle, Complete, WaitGate,
         SettleError, SettleFailed
    <3> QED BY <1>1, <3>1
  <2> QED BY <2>1, <2>2, <2>3
<1>3. ASSUME NEW q \in AiRuns, AiRunEnds(q) \/ CompletionDropped(q) \/ CancelRun(q) PROVE P
  <2>1. CASE AiRunEnds(q)
    BY <1>t, <2>1 DEF AiRunEnds
  <2>2. CASE CompletionDropped(q)
    BY <1>1, <2>2 DEF CompletionDropped
  <2>3. CASE CancelRun(q)
    BY <1>t, <2>3 DEF CancelRun
  <2> QED BY <1>3, <2>1, <2>2, <2>3
<1>4. CASE Worker
  BY <1>1, <1>4 DEF Worker, ListDispatches, ReturnToWorker, EndPass, EndDrain, ProcessDispatch
<1>5. CASE User
  <2>1. ASSUME NEW n \in Nodes, Pause(n) \/ Cancel(n) PROVE P
    <3>1. ai' = ai /\ stop' = stop \cup ({run[Latest(n)].ai} \ {NoRun})
      BY <2>1 DEF Pause, Cancel, UserTx
    <3>2. r \in stop' /\ r \notin stop => run[Latest(n)].ai = r
      BY <3>1
    <3> QED BY <2>1, <3>1, <3>2
  <2>2. ASSUME NEW n \in Nodes, Start(n) \/ Resume(n) \/ Skip(n) \/ Retry(n) PROVE P
    BY <1>1, <2>2 DEF Start, Resume, Skip, Retry, UserTx
  <2>3. ASSUME NEW id \in NodeRunIds, ResolveGate(id) \/ Ask(id) \/ Answer(id) \/ Reevaluate(id)
        PROVE  P
    BY <1>1, <2>3 DEF ResolveGate, Ask, Answer, Reevaluate, UserTx
  <2>4. ASSUME NEW k \in 1..MaxLimit, ChangeParallelism(k) PROVE P
    BY <1>1, <2>4 DEF ChangeParallelism, UserTx
  <2> HIDE DEF P
  <2> QED BY <1>5, <2>1, <2>2, <2>3, <2>4 DEF User
<1>6. CASE Recovery
  <2>1. CASE RecoverRuns
    BY <1>t, <2>1 DEF RecoverRuns
  <2>2. CASE ~RecoverRuns
    <3>1. ai' = ai /\ stop' = stop
      BY <1>6, <2>2 DEF Recovery, NextPhase, Reconcile, RecoverNode, RequeueNode
    <3> QED BY <1>1, <3>1
  <2> QED BY <2>1, <2>2
<1>7. CASE Crash \/ UNCHANGED allVars
  BY <1>1, <1>7 DEF Crash, allVars, engineVars
<1> HIDE DEF P
<1> QED BY <1>2, <1>3, <1>4, <1>5, <1>6, <1>7 DEF EngineNext

\* A NodeRun that runs has not been written, or is reserved or bound.
LEMMA RunningRow ==
  ASSUME EngineTypeOK, [EngineNext]_allVars, NEW id \in NodeRunIds,
         run'[id].status = "running"
  PROVE  \/ run'[id] = run[id]
         \/ run'[id].ai = NoRun
         \/ \E r \in AiRuns : Bind(r) /\ job[r].id = id /\ run'[id].ai = r
<1>t. TypeOK /\ run \in [NodeRunIds -> RunRecord] /\ \A r \in AiRuns : job[r].id \in NodeRunIds
  BY DEF EngineTypeOK, TypeOK
<1>1. CASE OtherTransactions
  BY <1>1, <1>t, RowChanges DEF RowMoves, Over
<1>2. ASSUME NEW r \in AiRuns, ReserveNode(job[r].id)
      PROVE  run'[id] = run[id] \/ run'[id].ai = NoRun
  BY <1>2, <1>t DEF ReserveNode, Transition
<1>3. ASSUME NEW r \in AiRuns, Bind(r), BindAiRun(job[r].id, r)
      PROVE  \/ run'[id] = run[id]
             \/ Bind(r) /\ job[r].id = id /\ run'[id].ai = r
  BY <1>3, <1>t DEF BindAiRun, RunRecord
<1> QED BY <1>1, <1>2, <1>3, EngineTransactions

\* In the engine a latest attempt that runs after a step ran on, unless the step
\* reserves or binds it.
LEMMA EngineOnRunning ==
  ASSUME EngineTypeOK, SupersededIsOver, WorksOnLatest, [EngineNext]_allVars,
         NEW n \in Nodes, NEW id, id = Latest(n), run'[id].status = "running"
  PROVE  \/ RunsOn(id)
         \/ \E r \in AiRuns : /\ job[r].id = id
                              /\ \/ Reserve(r) /\ ReserveNode(id)
                                 \/ Bind(r) /\ BindAiRun(id, r)
<1>t. TypeOK /\ \A r \in AiRuns : job[r].id \in NodeRunIds
  BY DEF EngineTypeOK
<1>l. \A m \in Nodes : Latest(m) \in NodeRunIds
  BY <1>t, LatestRun
<1>v. UNCHANGED vars => RunsOn(id)
  BY <1>t, TransactionsOnRunning
<1>1. ASSUME NEW q \in AiRuns, Execution(q)
      PROVE  \/ RunsOn(id)
             \/ /\ job[q].id = id
                /\ \/ Reserve(q) /\ ReserveNode(id)
                   \/ Bind(q) /\ BindAiRun(id, q)
  <2>1. \/ UNCHANGED vars
        \/ Bind(q) /\ BindAiRun(job[q].id, q)
        \/ Reserve(q) /\ ReserveNode(job[q].id)
        \/ FailRecovery(job[q].id)
        \/ job[q].pc = "undo" /\ FinishNode(job[q].id, "failed")
        \/ CompleteNode(job[q].id) \/ WaitForUser(job[q].id)
        \/ job[q].pc = "fail" /\ FinishNode(job[q].id, Outcome(q))
    BY <1>1 DEF Execution, RouteFails, Reserve, Generate, Bind, Undo, Settle, Complete,
       WaitGate, SettleError, SettleFailed, SettleFailure, Tx
  <2>2. Outcome(q) \in {"failed", "cancelled"}
    BY DEF Outcome
  <2>3. job[q].pc \in {"undo", "fail"} => Latest(job[q].id[1]) = job[q].id
    BY DEF WorksOnLatest, Reserved, NodeOf
  <2>4. CASE /\ job[q].pc \in {"undo", "fail"}
             /\ \E s \in {"failed", "cancelled"} : FinishNode(job[q].id, s)
    BY <1>t, <2>3, <2>4, TransactionsOnRunning
  <2>5. CASE Bind(q) /\ BindAiRun(job[q].id, q)
    BY <1>t, <2>5, TransactionsOnRunning
  <2>6. CASE Reserve(q) /\ ReserveNode(job[q].id)
    BY <1>t, <2>6, TransactionsOnRunning
  <2>7. CASE FailRecovery(job[q].id) \/ CompleteNode(job[q].id) \/ WaitForUser(job[q].id)
    BY <1>t, <2>7, TransactionsOnRunning
  <2> QED BY <1>v, <2>1, <2>2, <2>4, <2>5, <2>6, <2>7
<1>2. ASSUME NEW q \in AiRuns, AiRunEnds(q) \/ CompletionDropped(q) \/ CancelRun(q)
      PROVE  RunsOn(id)
  BY <1>v, <1>2 DEF AiRunEnds, CompletionDropped, CancelRun
<1>3. CASE Worker
  BY <1>v, <1>3 DEF Worker, ListDispatches, ReturnToWorker, EndPass, EndDrain, ProcessDispatch
<1>4. CASE User
  <2>1. ASSUME NEW m \in Nodes,
               Start(m) \/ Pause(m) \/ Resume(m) \/ Cancel(m) \/ Skip(m) \/ Retry(m)
        PROVE  RunsOn(id)
    <3>1. \/ UNCHANGED vars
          \/ PauseNode(m) \/ ResumeNode(m) \/ CancelNode(m) \/ SkipNode(m) \/ PrepareRetry(m)
      BY <2>1 DEF Start, Pause, Resume, Cancel, Skip, Retry, UserTx, Tx
    <3> QED BY <1>t, <1>v, <3>1, TransactionsOnRunning
  <2>2. ASSUME NEW i \in NodeRunIds, ResolveGate(i) \/ Ask(i) \/ Answer(i) \/ Reevaluate(i)
        PROVE  RunsOn(id)
    <3>1. UNCHANGED vars \/ CompleteNode(i) \/ OpenQuestion(i) \/ ResolveQuestion(i)
      BY <2>2 DEF ResolveGate, Ask, Answer, Reevaluate, UserTx, Tx
    <3> QED BY <1>t, <1>v, <3>1, TransactionsOnRunning
  <2>3. ASSUME NEW k \in 1..MaxLimit, ChangeParallelism(k) PROVE RunsOn(id)
    <3>1. SetParallelism(k)
      BY <2>3 DEF ChangeParallelism, UserTx, Tx
    <3> QED BY <1>t, <3>1, TransactionsOnRunning
  <2> QED BY <1>4, <2>1, <2>2, <2>3 DEF User
<1>5. CASE Recovery
  <2>1. \/ UNCHANGED vars \/ ReconcileDispatches
        \/ \E m \in Nodes : InterruptNode(Latest(m)) \/ RequeueInterrupted(m)
    BY <1>5 DEF Recovery, RecoverRuns, NextPhase, Reconcile, RecoverNode, RequeueNode, Tx
  <2>2. ReconcileDispatches => RunsOn(id)
    BY <1>t, TransactionsOnRunning
  <2>3. ASSUME NEW m \in Nodes, InterruptNode(Latest(m)) \/ RequeueInterrupted(m)
        PROVE  RunsOn(id)
    BY <1>t, <1>l, <2>3, TransactionsOnRunning
  <2> QED BY <1>v, <2>1, <2>2, <2>3
<1>6. CASE Crash \/ UNCHANGED allVars
  BY <1>v, <1>6 DEF Crash, allVars
<1> QED BY <1>1, <1>2, <1>3, <1>4, <1>5, <1>6 DEF EngineNext

\* A latest attempt that runs, its node and the execution shown running, can be
\* ended in each of the ways an execution ends it.
LEMMA CanEnd ==
  ASSUME TypeOK, PendingIsUntouched, NEW n \in Nodes, Status(Latest(n)) = "running",
         node[n] = "running", exec = "running"
  PROVE  /\ \A s \in {"failed", "cancelled"} : CanFinish(Latest(n), s)
         /\ CanTransition(Latest(n), {"running"}, "interrupted")
<1>1. Latest(n)[1] = n
  BY DEF Latest
<1>2. \A st : ExecAccepts(exec, Projection(st))
  <2>1. ASSUME NEW st PROVE Projection(st) \in {"completed", "running", "waiting_user", "paused",
                                                "interrupted", "failed"}
    BY DEF Projection
  <2> QED BY <2>1 DEF ExecAccepts, ExecutionTransitions
<1>3. CanMove("running", "failed") /\ CanMove("running", "cancelled")
      /\ CanMove("running", "interrupted")
  BY DEF CanMove, NodeTransitions
<1>4. \A st : CanActivate(st)
  <2>1. ASSUME NEW st, NEW m \in Admitted(st) PROVE Status(Latest(m)) \in {"pending", "ready"}
    <3>1. m \in Nodes /\ node[m] = "pending"
      BY DEF Admitted
    <3>2. Latest(m) \in NodeRunIds /\ Status(Latest(m)) # "none" /\ Latest(m)[1] = m
      BY <3>1, LatestRun DEF Latest
    <3> QED BY <3>1, <3>2 DEF PendingIsUntouched
  <2> QED BY <2>1 DEF CanActivate
<1> HIDE DEF Latest
<1> QED BY <1>1, <1>2, <1>3, <1>4 DEF CanFinish, CanTransition

-----------------------------------------------------------------------------
(* One conjunct of AttendedInv after another.                              *)

\* reserveNode has committed, and so has bindAiRun.
LEMMA ReserveMoves ==
  ASSUME EngineTypeOK, NEW r \in AiRuns, Reserve(r), ReserveNode(job[r].id)
  PROVE  /\ job'[r].pc = "generate" /\ job'[r].id = job[r].id
         /\ run' = [run EXCEPT ![job[r].id] = [status |-> "running", ai |-> NoRun]]
         /\ node' = [node EXCEPT ![job[r].id[1]] = "running"]
<1>j. job[r].id \in NodeRunIds /\ run \in [NodeRunIds -> RunRecord]
  BY DEF EngineTypeOK, TypeOK
<1>1. /\ run' = [run EXCEPT ![job[r].id] = [status |-> "running", ai |-> NoRun]]
      /\ node' = [node EXCEPT ![job[r].id[1]] = "running"]
      /\ Status(job[r].id) # "running"
  BY DEF ReserveNode, Transition, CanTransition, Commit
<1>2. run'[job[r].id].status = "running"
  BY <1>j, <1>1
<1>3. run' # run
  BY <1>1, <1>2 DEF Status
<1>4. job' = Conflicted(At(r, "generate"))
  BY <1>3 DEF Reserve, Tx, vars
<1>5. "generate" \in JobPc \ {"complete"}
  BY DEF JobPc
<1> QED BY <1>1, <1>4, <1>5, JobsWork

LEMMA BindMoves ==
  ASSUME EngineTypeOK, BoundToExecution, NEW r \in AiRuns, Bind(r), BindAiRun(job[r].id, r)
  PROVE  /\ job'[r].pc = "await" /\ job'[r].id = job[r].id
         /\ run' = [run EXCEPT ![job[r].id].ai = r]
         /\ run'[job[r].id].ai = r
<1>j. job[r].id \in NodeRunIds /\ run \in [NodeRunIds -> RunRecord] /\ job[r].pc = "bind"
  BY DEF EngineTypeOK, TypeOK, Bind
<1>1. run' = [run EXCEPT ![job[r].id].ai = r]
  BY DEF BindAiRun
<1>2. run'[job[r].id].ai = r
  BY <1>j, <1>1 DEF RunRecord
<1>3. run[job[r].id].ai # r
  BY <1>j DEF BoundToExecution, Holding
<1>4. run' # run
  BY <1>2, <1>3
<1>5. job' = Conflicted(At(r, "await"))
  BY <1>4 DEF Bind, Tx, vars
<1>6. "await" \in JobPc \ {"complete"}
  BY DEF JobPc
<1> QED BY <1>1, <1>2, <1>5, <1>6, JobsWork

LEMMA SupersededStep ==
  ASSUME EngineTypeOK, SupersededIsOver, BoundToExecution, (WorksOnLatest)',
         [EngineNext]_allVars, [Next]_vars
  PROVE  SupersededIsOver'
<1>t. /\ TypeOK /\ run \in [NodeRunIds -> RunRecord] /\ latest \in [Nodes -> Attempts]
      /\ \A r \in AiRuns : job[r].id \in NodeRunIds
      /\ \A n \in Nodes : latest[n] \in Nat
  BY ExecutionAssumption DEF EngineTypeOK, TypeOK, Attempts, ExecutionAssumption
<1> SUFFICES ASSUME NEW id \in NodeRunIds, id[2] < latest'[id[1]]
             PROVE  run'[id].status \in Over
  BY DEF SupersededIsOver, Status
<1>n. id[1] \in Nodes /\ id[2] \in Nat /\ id = <<id[1], id[2]>>
  BY ExecutionAssumption DEF NodeRunIds, Attempts, ExecutionAssumption
<1>1. CASE latest'[id[1]] = latest[id[1]]
  <2>1. Status(id) \in Over /\ id # Latest(id[1])
    BY <1>t, <1>n, <1>1 DEF SupersededIsOver, Latest
  <2>2. CASE OtherTransactions
    BY <1>t, <2>1, <2>2, RowChanges DEF RowMoves, Over, Status
  <2>3. ASSUME NEW r \in AiRuns, Reserve(r), ReserveNode(job[r].id)
        PROVE  run'[id].status \in Over
    <3>1. CASE job[r].id = id
      <4>1. job'[r].pc = "generate" /\ job'[r].id = id
        BY <2>3, <3>1, ReserveMoves
      <4>2. id = Latest(id[1])'
        BY <4>1 DEF WorksOnLatest, Reserved, NodeOf
      <4> QED BY <1>1, <2>1, <4>2 DEF Latest
    <3>2. CASE job[r].id # id
      BY <1>t, <2>1, <2>3, <3>2, ReserveMoves DEF Status
    <3> QED BY <3>1, <3>2
  <2>4. ASSUME NEW r \in AiRuns, Bind(r), BindAiRun(job[r].id, r)
        PROVE  run'[id].status \in Over
    BY <1>t, <2>1, <2>4 DEF BindAiRun, Status, RunRecord
  <2> QED BY <2>2, <2>3, <2>4, EngineTransactions
<1>2. CASE PrepareRetry(id[1]) /\ latest'[id[1]] = latest[id[1]] + 1
  <2>1. /\ Status(Latest(id[1])) \in Over
        /\ run' = [run EXCEPT ![<<id[1], latest[id[1]] + 1>>] = [status |-> "ready", ai |-> NoRun]]
    BY <1>2 DEF PrepareRetry, Over
  <2>2. run'[id] = run[id]
    BY <1>t, <1>n, <1>2, <2>1
  <2>3. id = Latest(id[1]) \/ id[2] < latest[id[1]]
    BY <1>t, <1>n, <1>2 DEF Latest
  <2> QED BY <2>1, <2>2, <2>3 DEF SupersededIsOver, Status
<1> QED BY <1>t, <1>n, <1>1, <1>2, LatestKept

LEMMA TogetherStep ==
  ASSUME EngineTypeOK, SupersededIsOver, RunsTogether, WorksOnLatest, BoundToExecution,
         [EngineNext]_allVars, [Next]_vars
  PROVE  RunsTogether'
<1>t. /\ TypeOK /\ run \in [NodeRunIds -> RunRecord] /\ node \in [Nodes -> NodeStatus]
      /\ \A r \in AiRuns : job[r].id \in NodeRunIds
  BY DEF EngineTypeOK, TypeOK
<1> SUFFICES ASSUME NEW n \in Nodes, Status(Latest(n))' = "running"
             PROVE  node'[n] = "running"
  BY DEF RunsTogether
<1> DEFINE id == Latest(n)
<1>i. id \in NodeRunIds /\ id[1] = n
  BY <1>t, LatestRun DEF Latest
<1>1. latest'[n] = latest[n]
  <2>1. CASE run'[<<n, latest'[n]>>].status = "ready"
    BY <2>1 DEF Latest, Status
  <2> QED BY <1>t, <2>1, LatestKept
<1>2. run'[id].status = "running"
  BY <1>1 DEF Latest, Status
<1>k. \/ RunsOn(id)
      \/ \E r \in AiRuns : /\ job[r].id = id
                           /\ \/ Reserve(r) /\ ReserveNode(id)
                              \/ Bind(r) /\ BindAiRun(id, r)
  BY <1>2, EngineOnRunning
<1>r. Status(id) = "running" => node[n] = "running"
  BY DEF RunsTogether
<1> HIDE DEF id
<1>3. CASE RunsOn(id)
  BY <1>i, <1>2, <1>3, <1>r DEF RunsOn, Status
<1>4. ASSUME NEW r \in AiRuns, job[r].id = id, Reserve(r), ReserveNode(id)
      PROVE  node'[n] = "running"
  BY <1>t, <1>i, <1>4, ReserveMoves
<1>5. ASSUME NEW r \in AiRuns, BindAiRun(id, r)
      PROVE  node'[n] = "running"
  BY <1>r, <1>5 DEF BindAiRun
<1> QED BY <1>k, <1>3, <1>4, <1>5

LEMMA BoundStep ==
  ASSUME EngineTypeOK, BoundToExecution, [EngineNext]_allVars
  PROVE  BoundToExecution'
<1>t. /\ TypeOK /\ NoRun \notin AiRuns /\ run \in [NodeRunIds -> RunRecord]
      /\ \A r \in AiRuns : job[r].id \in NodeRunIds
  BY ExecutionAssumption DEF EngineTypeOK, TypeOK, ExecutionAssumption
<1> SUFFICES ASSUME NEW id \in NodeRunIds, NEW r \in AiRuns, run'[id].ai = r
             PROVE  job'[r].id = id /\ job'[r].pc \in Holding \cup {"done"}
  BY DEF BoundToExecution
<1>1. CASE run[id].ai = r
  <2>1. job[r].id = id /\ job[r].pc \in Holding \cup {"done"} /\ job[r].pc # "free"
    BY <1>1 DEF BoundToExecution, Holding
  <2> QED BY <2>1, JobsStay, ExecutionsAdvance
<1>2. CASE run[id].ai # r
  <2>1. ~BindsNothing
    BY <1>t, <1>2, OnlyBindBinds
  <2>2. PICK q \in AiRuns : Bind(q) /\ BindAiRun(job[q].id, q)
    BY <2>1, EngineBinds
  <2>3. /\ job'[q].pc = "await" /\ job'[q].id = job[q].id
        /\ run' = [run EXCEPT ![job[q].id].ai = q] /\ run'[job[q].id].ai = q
    BY <2>2, BindMoves
  <2>4. job[q].id = id
    BY <1>t, <1>2, <2>3
  <2> QED BY <2>3, <2>4 DEF Holding
<1> QED BY <1>1, <1>2

LEMMA StoppedStep ==
  ASSUME EngineTypeOK, BoundToExecution, StoppedIsOver, [EngineNext]_allVars
  PROVE  StoppedIsOver'
<1>t. /\ TypeOK /\ NoRun \notin AiRuns /\ run \in [NodeRunIds -> RunRecord]
      /\ \A n \in Nodes : Latest(n) \in NodeRunIds
  BY ExecutionAssumption, LatestRun DEF EngineTypeOK, TypeOK, ExecutionAssumption
<1> DEFINE Begun == {"free", "route", "generate", "bind"}
<1> SUFFICES ASSUME NEW r \in AiRuns, r \in stop' \/ ai'[r] = "cancelling"
             PROVE  /\ job'[r].pc \notin Begun
                    /\ \A id \in NodeRunIds : run'[id].ai = r => run'[id].status # "running"
  BY DEF StoppedIsOver, Status
\* What is bound to r and runs ran before.
<1>r. ASSUME NEW id \in NodeRunIds, run'[id].ai = r, run'[id].status = "running",
             job[r].pc \notin Begun
      PROVE  run[id].ai = r /\ Status(id) = "running" /\ run'[id] = run[id]
  <2>1. \/ run'[id] = run[id]
        \/ run'[id].ai = NoRun
        \/ \E q \in AiRuns : Bind(q) /\ job[q].id = id /\ run'[id].ai = q
    BY <1>r, RunningRow
  <2>2. run'[id] = run[id]
    BY <1>t, <1>r, <2>1 DEF Bind
  <2> QED BY <1>r, <2>2 DEF Status
<1>a. job[r].pc \notin Begun => job'[r].pc \notin Begun
  BY ExecutionsAdvance
<1>1. CASE r \in stop \/ ai[r] = "cancelling"
  <2>1. /\ job[r].pc \notin Begun
        /\ \A id \in NodeRunIds : run[id].ai = r => Status(id) # "running"
    BY <1>1 DEF StoppedIsOver
  <2> HIDE DEF Begun
  <2> QED BY <1>a, <1>r, <2>1
<1>2. CASE Undo(r)
  <2>1. job[r].pc = "undo"
    BY <1>2 DEF Undo
  <2>2. \A id \in NodeRunIds : run[id].ai # r
    BY <2>1 DEF BoundToExecution, Holding
  <2>3. job[r].pc \notin Begun
    BY <2>1
  <2> HIDE DEF Begun
  <2> QED BY <1>a, <1>r, <2>2, <2>3
<1>3. ASSUME NEW n \in Nodes, Pause(n) \/ Cancel(n), run[Latest(n)].ai = r
      PROVE  /\ job'[r].pc \notin Begun
             /\ \A id \in NodeRunIds : run'[id].ai = r => run'[id].status # "running"
  <2>1. job[r].id = Latest(n) /\ job[r].pc \notin Begun
    BY <1>t, <1>3 DEF BoundToExecution, Holding
  <2>2. run'[Latest(n)].status \in {"paused", "cancelled"}
    <3>1. PauseNode(n) \/ CancelNode(n)
      BY <1>3 DEF Pause, Cancel, UserTx, Tx
    <3>2. \/ run' = [run EXCEPT ![Latest(n)] = [status |-> "paused", ai |-> run[Latest(n)].ai]]
          \/ run' = [run EXCEPT ![Latest(n)].status = "cancelled"]
      BY <3>1 DEF PauseNode, CancelNode, Transition
    <3> QED BY <1>t, <3>2 DEF RunRecord
  <2>3. \A id \in NodeRunIds : run[id].ai = r => id = Latest(n)
    BY <2>1 DEF BoundToExecution
  <2> HIDE DEF Begun, Latest
  <2> QED BY <1>a, <1>r, <2>1, <2>2, <2>3
<1> HIDE DEF Begun
<1> QED BY <1>1, <1>2, <1>3, AiRunMoves

LEMMA InterruptedStep ==
  ASSUME EngineTypeOK, RunsAreOwned, QuietRestart, InterruptedIsOver, [EngineNext]_allVars
  PROVE  InterruptedIsOver'
<1> SUFFICES ASSUME NEW r \in AiRuns, ai'[r] = "interrupted"
             PROVE  job'[r].pc \in {"done", "thrown"}
  BY DEF InterruptedIsOver
<1>1. CASE ai[r] = "interrupted"
  BY <1>1, ExecutionsAdvance DEF InterruptedIsOver
<1>2. CASE phase = "runs" /\ job' = job /\ ai[r] \in {"live", "cancelling"}
  BY <1>2 DEF QuietRestart, RunsAreOwned
<1> QED BY <1>1, <1>2, AiRunMoves

\* An execution that attends a NodeRun which runs on does not let go of it.
LEMMA AttendanceStep ==
  ASSUME Sound, EngineTypeOK, SupersededIsOver, RunsTogether, BoundToExecution,
         StoppedIsOver, InterruptedIsOver, ShowsRunning, WorksOnLatest,
         [EngineNext]_allVars, NEW n \in Nodes, NEW id, id = Latest(n),
         run'[id].status = "running", run'[id] = run[id],
         NEW r \in AiRuns, Attends(r, id)
  PROVE  Attends(r, id)' \/ Crash
<1>t. /\ TypeOK /\ PendingIsUntouched /\ NoRun \notin AiRuns /\ job \in JobTable
      /\ id \in NodeRunIds /\ id[1] = n /\ id = Latest(id[1]) /\ run \in [NodeRunIds -> RunRecord]
  BY LatestRun, ExecutionAssumption
  DEF Sound, EngineTypeOK, TypeOK, JobTable, Latest, ExecutionAssumption
<1>s. Status(id) = "running" /\ node[n] = "running" /\ exec = "running"
  BY DEF Status, RunsTogether, ShowsRunning
<1>e. /\ \A s \in {"failed", "cancelled"} : CanFinish(id, s)
      /\ CanTransition(id, {"running"}, "interrupted")
  BY <1>t, <1>s, CanEnd
\* No transaction that ends id is taken.
<1>f. /\ ~WaitForUser(id) /\ ~FailRecovery(id) /\ ~CompleteNode(id)
      /\ \A s \in {"failed", "cancelled"} : ~FinishNode(id, s)
  BY <1>t, TransactionsOnRunning
<1>i. job[r].id = id /\ job[r].pc \in Holding \cup {"generate", "bind", "undo"}
  BY DEF Attends
<1>j. job'[r].id = id /\ job[r].pc \notin {"free", "route", "done", "thrown"}
  BY <1>i, JobsStay DEF Holding
<1>g. \A pc \in JobPc \ {"complete"} :
        job' = At(r, pc) \/ job' = Conflicted(At(r, pc)) => job'[r].pc = pc
  BY JobsWork
\* Where the AI run is bound it stays so, and where there is none too.
<1>h. /\ run[id].ai = r /\ job'[r].pc \in Holding => Attends(r, id)'
      /\ run[id].ai = NoRun /\ job'[r].pc \in {"generate", "bind", "undo"} => Attends(r, id)'
  BY <1>j DEF Attends
<1>a. \/ run[id].ai = r /\ job[r].pc \in Holding
      \/ run[id].ai = NoRun /\ job[r].pc \in {"generate", "bind", "undo"}
  BY DEF Attends
<1>p. Holding \cup {"generate", "bind", "undo", "done", "thrown"} \subseteq JobPc
  BY DEF Holding, JobPc
<1> HIDE DEF Latest
<1>1. CASE job'[r].pc = job[r].pc
  BY <1>a, <1>h, <1>1
<1>2. CASE job[r].pc = "complete" /\ job'[r].pc = "error"
  BY <1>a, <1>h, <1>2 DEF Holding
<1>3. CASE CompletionDropped(r)
  <2>1. ai[r] = "cancelling" /\ job[r].pc = "await"
    BY <1>3 DEF CompletionDropped
  <2>2. run[id].ai = r
    BY <1>a, <2>1
  <2> QED BY <1>s, <1>t, <2>1, <2>2 DEF StoppedIsOver
<1>4. CASE Execution(r)
  <2>1. CASE RouteFails(r) \/ Reserve(r)
    BY <1>j, <2>1 DEF RouteFails, Reserve
  <2>2. CASE Generate(r)
    <3>1. job[r].pc = "generate" /\ (job' = At(r, "bind") \/ job' = At(r, "undo"))
      BY <2>2 DEF Generate
    <3>2. job'[r].pc \in {"bind", "undo"}
      BY <1>g, <1>p, <3>1
    <3> QED BY <1>a, <1>h, <3>1, <3>2 DEF Holding
  <2>3. CASE Bind(r)
    <3>1. job[r].pc = "bind" /\ run[id].ai = NoRun
      BY <1>a, <2>3 DEF Bind, Holding
    <3>2. ~BindAiRun(id, r)
      <4>1. BindAiRun(id, r) => run' = [run EXCEPT ![id].ai = r]
        BY DEF BindAiRun
      <4>2. BindAiRun(id, r) => run'[id].ai = r
        BY <1>t, <4>1 DEF RunRecord
      <4> QED BY <1>t, <3>1, <4>2
    <3>3. job' = At(r, "undo")
      BY <1>i, <2>3, <3>2 DEF Bind, Tx
    <3> QED BY <1>g, <1>h, <1>p, <3>1, <3>3
  <2>4. CASE Undo(r)
    <3>1. ~SettleFailure(job[r].id, job[r].by)
      BY <1>f, <1>i DEF SettleFailure
    <3>2. CanSettleFailure(job[r].id, job[r].by)
      BY <1>e, <1>i DEF CanSettleFailure
    <3> QED BY <2>4, <3>1, <3>2 DEF Undo, Tx
  <2>5. CASE Settle(r)
    <3>1. job[r].pc = "await" /\ run[id].ai = r
      BY <1>a, <2>5 DEF Settle
    <3>2. CurrentBinding(r) /\ ai[r] # "interrupted"
      BY <1>i, <1>t, <3>1 DEF CurrentBinding, InterruptedIsOver
    <3>3. job' = At(r, "complete") \/ job' = At(r, "fail")
      BY <2>5, <3>2 DEF Settle
    <3>4. job'[r].pc \in {"complete", "fail"}
      BY <1>p, <1>t, <3>3, AtType DEF Holding
    <3> QED BY <1>h, <3>1, <3>4 DEF Holding
  <2>6. CASE Complete(r)
    <3>1. job[r].pc = "complete" /\ run[id].ai = r
      BY <1>a, <2>6 DEF Complete
    <3>2. job' = At(r, "wait") \/ job' = At(r, "error")
      BY <1>f, <1>i, <2>6 DEF Complete, Tx
    <3>3. job'[r].pc \in {"wait", "error"}
      BY <1>g, <1>p, <3>2 DEF Holding
    <3> QED BY <1>h, <3>1, <3>3 DEF Holding
  <2>7. CASE WaitGate(r)
    <3>1. job[r].pc = "wait" /\ run[id].ai = r
      BY <1>a, <2>7 DEF WaitGate
    <3>2. job' = At(r, "error")
      BY <1>f, <1>i, <2>7 DEF WaitGate, Tx
    <3>3. job'[r].pc = "error"
      BY <1>g, <1>p, <3>2 DEF Holding
    <3> QED BY <1>h, <3>1, <3>3 DEF Holding
  <2>8. CASE SettleError(r)
    <3>1. job[r].pc = "error" /\ run[id].ai = r
      BY <1>a, <2>8 DEF SettleError
    <3>2. CurrentBinding(r)
      BY <1>i, <1>t, <3>1 DEF CurrentBinding
    <3>3. job'[r].pc = "fail"
      BY <1>g, <1>p, <2>8, <3>2 DEF SettleError, Holding
    <3> QED BY <1>h, <3>1, <3>3 DEF Holding
  <2>9. CASE SettleFailed(r)
    <3>1. Outcome(r) \in {"failed", "cancelled"}
      BY DEF Outcome
    <3>2. CanFinish(job[r].id, Outcome(r)) /\ ~FinishNode(job[r].id, Outcome(r))
      BY <1>e, <1>f, <1>i, <3>1
    <3> QED BY <2>9, <3>2 DEF SettleFailed, Tx
  <2> QED BY <1>4, <2>1, <2>2, <2>3, <2>4, <2>5, <2>6, <2>7, <2>8, <2>9 DEF Execution
<1> QED BY <1>1, <1>2, <1>3, <1>4, <1>j, JobsStay

\* Startup leaves its first two phases when nothing is left to interrupt.
LEMMA InterruptionEnds ==
  ASSUME EngineTypeOK, [EngineNext]_allVars, phase \in {"runs", "interrupt"},
         phase' \notin {"runs", "interrupt"}
  PROVE  Interruptible = {}
<1>1. ASSUME Recovery PROVE Interruptible = {}
  BY <1>1 DEF Recovery, RecoverRuns, NextPhase, Reconcile, RecoverNode, RequeueNode
<1>2. ~UNCHANGED allVars /\ ~Crash
  BY DEF allVars, engineVars, Crash
<1> QED
  BY <1>1, <1>2, ExecutionProceeds, AiRunProceeds, WorkerProceeds, UserProceeds
  DEF EngineNext, AllProceed

LEMMA RunningStep ==
  ASSUME Sound, EngineTypeOK, AttendedInv, ShowsRunning, WorksOnLatest,
         [EngineNext]_allVars, [Next]_vars
  PROVE  RunningHasExecution'
<1>t. /\ TypeOK /\ run \in [NodeRunIds -> RunRecord] /\ NoRun \notin AiRuns
      /\ \A r \in AiRuns : job[r].id \in NodeRunIds
  BY ExecutionAssumption DEF EngineTypeOK, TypeOK, ExecutionAssumption
<1>i. /\ SupersededIsOver /\ RunsTogether /\ BoundToExecution /\ StoppedIsOver
      /\ InterruptedIsOver /\ RunningHasExecution
  BY DEF AttendedInv
<1> SUFFICES ASSUME NEW n \in Nodes, Status(Latest(n))' = "running",
                    phase' \notin {"runs", "interrupt"}
             PROVE  \E r \in AiRuns : Attends(r, Latest(n))'
  BY DEF RunningHasExecution, Attends, Holding
<1>q. latest'[n] = latest[n]
  <2>1. CASE run'[<<n, latest'[n]>>].status = "ready"
    BY <2>1 DEF Latest, Status
  <2> QED BY <1>t, <2>1, LatestKept
<1>d. PICK id \in NodeRunIds : id = Latest(n)
  BY <1>t, LatestRun
<1>l. id[1] = n /\ Latest(n)' = id /\ run'[id].status = "running"
  BY <1>q, <1>d DEF Latest, Status
<1>w. \A r \in AiRuns : Attends(r, id)' <=>
        /\ job'[r].id = id
        /\ \/ run'[id].ai = r /\ job'[r].pc \in Holding
           \/ run'[id].ai = NoRun /\ job'[r].pc \in {"generate", "bind", "undo"}
  BY DEF Attends
<1>g. \A r \in AiRuns : Attends(r, id)' => \E q \in AiRuns : Attends(q, Latest(n))'
  BY <1>l DEF Attends
<1>k. \/ RunsOn(id)
      \/ \E r \in AiRuns : /\ job[r].id = id
                           /\ \/ Reserve(r) /\ ReserveNode(id)
                              \/ Bind(r) /\ BindAiRun(id, r)
  BY <1>d, <1>l, <1>i, EngineOnRunning
<1>1. ASSUME NEW r \in AiRuns, job[r].id = id, Reserve(r), ReserveNode(id)
      PROVE  Attends(r, id)'
  <2>1. /\ job'[r].pc = "generate" /\ job'[r].id = id
        /\ run' = [run EXCEPT ![id] = [status |-> "running", ai |-> NoRun]]
    BY <1>1, ReserveMoves
  <2>2. run'[id].ai = NoRun
    BY <1>d, <1>t, <2>1
  <2> QED BY <1>w, <2>1, <2>2
<1>2. ASSUME NEW r \in AiRuns, job[r].id = id, Bind(r), BindAiRun(id, r)
      PROVE  Attends(r, id)'
  <2>1. job'[r].pc = "await" /\ job'[r].id = id /\ run'[id].ai = r
    BY <1>i, <1>2, BindMoves
  <2> QED BY <1>w, <2>1 DEF Holding
<1>3. CASE RunsOn(id)
  <2>1. run'[id] = run[id] /\ Status(id) = "running"
    BY <1>l, <1>3 DEF RunsOn, Status
  <2>2. node[n] = "running" /\ exec = "running"
    BY <1>d, <1>i, <2>1 DEF RunsTogether, ShowsRunning
  <2>3. phase \notin {"runs", "interrupt"}
    <3>1. n \in Interruptible
      BY <1>d, <2>1, <2>2 DEF Interruptible
    <3> QED BY <3>1, InterruptionEnds
  <2>4. PICK r \in AiRuns : Attends(r, id)
    BY <1>d, <1>i, <2>1, <2>3, AttendedBySomeone
  <2>5. ~Crash
    BY DEF Crash
  <2> QED BY <1>d, <1>l, <1>g, <1>i, <2>1, <2>4, <2>5, AttendanceStep
<1> QED BY <1>g, <1>k, <1>1, <1>2, <1>3

LEMMA AttendedStep ==
  ASSUME Sound, EngineTypeOK, RunsAreOwned, StartupInv, AttendedInv,
         ShowsRunning, WorksOnLatest, WorksOnLatest', [EngineNext]_allVars, [Next]_vars
  PROVE  AttendedInv'
<1>1. SupersededIsOver'
  BY SupersededStep DEF AttendedInv
<1>2. RunsTogether'
  BY TogetherStep DEF AttendedInv
<1>3. BoundToExecution'
  BY BoundStep DEF AttendedInv
<1>4. StoppedIsOver'
  BY StoppedStep DEF AttendedInv
<1>5. InterruptedIsOver'
  BY InterruptedStep DEF AttendedInv, StartupInv
<1>6. RunningHasExecution'
  BY RunningStep
<1> QED BY <1>1, <1>2, <1>3, <1>4, <1>5, <1>6 DEF AttendedInv

LEMMA AttendedInit == EngineInit /\ Nodes # {} => AttendedInv
<1> SUFFICES ASSUME EngineInit PROVE AttendedInv
  OBVIOUS
<1>a. NoRun \notin AiRuns /\ \A n \in Nodes, a \in Attempts : a \in Nat /\ a >= 1
  BY ExecutionAssumption DEF Attempts, ExecutionAssumption
<1>r. run = [id \in NodeRunIds |->
               [status |-> IF id[2] = 1 THEN InstantiatedStatus[id[1]] ELSE "none",
                ai |-> NoRun]]
      /\ latest = [n \in Nodes |-> 1]
  BY DEF EngineInit, Init
<1>s. \A n \in Nodes : InstantiatedStatus[n] \in {"pending", "ready"}
  BY DEF InstantiatedStatus, Admit
<1>1. SupersededIsOver
  BY <1>a, <1>r DEF SupersededIsOver, NodeRunIds
<1>2. \A n \in Nodes : Status(Latest(n)) # "running"
  <2>1. 1 \in Attempts
    BY ExecutionAssumption DEF Attempts, ExecutionAssumption
  <2>2. \A n \in Nodes : Latest(n) \in NodeRunIds /\ Latest(n)[1] = n /\ Latest(n)[2] = 1
    BY <1>r, <2>1 DEF Latest, NodeRunIds
  <2> HIDE DEF Latest
  <2> QED BY <1>r, <1>s, <2>2 DEF Status
<1>3. BoundToExecution
  BY <1>a, <1>r DEF BoundToExecution
<1>4. StoppedIsOver /\ InterruptedIsOver
  BY DEF EngineInit, StoppedIsOver, InterruptedIsOver
<1> QED BY <1>1, <1>2, <1>3, <1>4 DEF AttendedInv, RunsTogether, RunningHasExecution

(* As long as the execution is shown running while a node runs, and no      *)
(* execution but one that waits for its AI run is at work on an attempt     *)
(* that has been retried, every running NodeRun has its execution: no       *)
(* crash, refused transaction, pause or late result leaves a node running   *)
(* with nobody to finish it (execute-workflow-node.ts:61-233,               *)
(* recover-workflows.ts:58-183).  The runs that expect a violation show     *)
(* what becomes of it when a second branch waits for the user.              *)
THEOREM RunningNodesAreAttended ==
  ASSUME Nodes # {}
  PROVE  EngineSpec /\ []ShowsRunning /\ []WorksOnLatest => []RunningHasExecution
<1>1. EngineInit => AttendedInv /\ RunsAreOwned /\ StartupInv
  BY AttendedInit
  DEF EngineInit, RunsAreOwned, StartupInv, QuietRestart, StartupOwnsItsNodes
<1>2. /\ Sound /\ EngineTypeOK /\ RunsAreOwned /\ StartupInv /\ AttendedInv
      /\ ShowsRunning /\ WorksOnLatest /\ WorksOnLatest' /\ [EngineNext]_allVars /\ [Next]_vars
      => AttendedInv'
  BY AttendedStep
<1>3. EngineTypeOK /\ RunsAreOwned /\ StartupInv /\ [EngineNext]_allVars
      => RunsAreOwned' /\ StartupInv'
  BY OwnersStep, StartupStep
<1>4. AttendedInv => RunningHasExecution
  BY DEF AttendedInv
<1>5. EngineSpec => []EngineTypeOK /\ Spec /\ []Sound
  BY EngineTypesCorrect, EngineTakesTransactions, SoundAlways, PTL
<1>6. Spec => [][Next]_vars
  BY PTL DEF Spec
<1> QED BY <1>1, <1>2, <1>3, <1>4, <1>5, <1>6, PTL DEF EngineSpec

-----------------------------------------------------------------------------
(* Workflows whose nodes come one after another.                           *)

\* Any two nodes come one after the other, and what may be skipped comes first
\* or last.
Linear ==
  /\ \A m, n \in Nodes : n \in Affected(m) \/ m \in Affected(n)
  /\ \A n \in Skippable : Preds(n) = {} \/ \A m \in Nodes : n \notin Preds(m)

\* configuration.retry.maxAttempts allows no second attempt.
SingleAttempts == \A n \in Nodes : RetryLimit[n] <= 1

SkippedMayBe == \A n \in Nodes : node[n] = "skipped" => n \in Skippable

LEMMA SkippedStep ==
  ASSUME TypeOK, SkippedMayBe, [Next]_vars
  PROVE  SkippedMayBe'
<1>t. node \in [Nodes -> NodeStatus] /\ \A id \in NodeRunIds : id[1] \in Nodes
  BY DEF TypeOK, NodeRunIds
<1> SUFFICES ASSUME NEW n \in Nodes, node'[n] = "skipped", node[n] # "skipped"
             PROVE  n \in Skippable
  BY DEF SkippedMayBe
<1>1. ASSUME NEW k \in Nodes, NEW s \in NodeStatus \ {"skipped"},
             node' = [node EXCEPT ![k] = s]
      PROVE  FALSE
  BY <1>t, <1>1
<1>2. ASSUME NEW k \in Nodes, NEW s \in {"failed", "cancelled", "completed", "skipped"},
             node' = Finished(k, s)
      PROVE  s = "skipped" /\ n = k
  <2>1. s \in NodeStatus \ ActiveStatus /\ s # "pending"
    BY DEF NodeStatus, ActiveStatus
  <2> QED BY <1>2, <2>1, EndFacts
<1>n. {"running", "waiting_user", "interrupted", "paused", "ready"} \subseteq NodeStatus \ {"skipped"}
  BY DEF NodeStatus
<1>3. ASSUME NEW id \in NodeRunIds,
             ReserveNode(id) \/ WaitForUser(id) \/ FailRecovery(id) \/ InterruptNode(id)
      PROVE  FALSE
  <2>1. \E s \in {"running", "waiting_user", "interrupted"} : node' = [node EXCEPT ![id[1]] = s]
    BY <1>3 DEF ReserveNode, WaitForUser, FailRecovery, InterruptNode, Transition, Commit
  <2> QED BY <1>t, <1>1, <1>n, <2>1
<1>4. ASSUME NEW id \in NodeRunIds,
             CompleteNode(id) \/ \E s \in {"failed", "cancelled"} : FinishNode(id, s)
      PROVE  FALSE
  <2>1. \E s \in {"failed", "cancelled", "completed"} : node' = Finished(id[1], s)
    BY <1>4 DEF FinishNode, CompleteNode, Commit
  <2> QED BY <1>t, <1>2, <2>1
<1>5. ASSUME NEW id \in NodeRunIds, OpenQuestion(id) PROVE FALSE
  <2>1. node' = node \/ node' = [node EXCEPT ![id[1]] = "waiting_user"]
    BY <1>5 DEF OpenQuestion
  <2> QED BY <1>t, <1>1, <1>n, <2>1
<1>6. ASSUME NEW k \in Nodes, PauseNode(k) \/ ResumeNode(k) PROVE FALSE
  <2>1. \E s \in {"paused", "ready"} : node' = [node EXCEPT ![k] = s]
    BY <1>6 DEF PauseNode, ResumeNode, Transition, Commit, Latest
  <2> QED BY <1>1, <1>n, <2>1
<1>7. ASSUME NEW k \in Nodes, CancelNode(k) PROVE FALSE
  BY <1>2, <1>7 DEF CancelNode, Commit
<1>8. ASSUME NEW k \in Nodes, SkipNode(k) PROVE n \in Skippable
  BY <1>2, <1>8 DEF SkipNode
<1>9. ASSUME NEW k, SetParallelism(k) PROVE FALSE
  BY <1>9 DEF SetParallelism, Admit
<1>10. ASSUME \/ \E id \in NodeRunIds : ResolveQuestion(id) \/ \E r \in AiRuns : BindAiRun(id, r)
              \/ \E k \in Nodes : PrepareRetry(k) \/ RequeueInterrupted(k)
              \/ ReconcileDispatches \/ UNCHANGED vars
       PROVE  FALSE
  BY <1>10 DEF ResolveQuestion, BindAiRun, PrepareRetry, RequeueInterrupted,
     ReconcileDispatches, vars
<1> QED
  BY <1>3, <1>4, <1>5, <1>6, <1>7, <1>8, <1>9, <1>10 DEF Next

\* In a linear workflow one node at a time is active: what comes after a node
\* that is not done is pending, or skipped and the last.
LEMMA OneAtATime ==
  ASSUME Linear, TypeOK, DependencyOrder, SkippedMayBe,
         NEW m \in Nodes, NEW n \in Nodes,
         node[m] \in ActiveStatus, node[n] \in ActiveStatus
  PROVE  m = n
<1>a. ActiveStatus \cap (DoneStatus \cup {"pending", "skipped"}) = {}
      /\ {"pending"} \cap DoneStatus = {}
  BY DEF ActiveStatus, DoneStatus
<1>1. ASSUME NEW k \in Nodes, NEW x \in Nodes, k # x,
             node[k] \in ActiveStatus, node[x] \in ActiveStatus, x \in Affected(k)
      PROVE  FALSE
  <2> DEFINE after == {y \in Nodes : \/ node[y] = "pending"
                                     \/ /\ node[y] = "skipped"
                                        /\ \A z \in Nodes : y \notin Preds(z)}
             S == {k} \cup after
  <2>1. S \in SUBSET Nodes /\ k \in S
    OBVIOUS
  <2>2. ASSUME NEW e \in Edges, e[1] \in S PROVE e[2] \in S
    <3>1. e[1] \in Nodes /\ e[2] \in Nodes /\ e[1] \in Preds(e[2])
      BY GraphAssumption DEF GraphAssumption, Preds
    <3>2. e[1] = k \/ node[e[1]] = "pending"
      BY <2>2, <3>1
    <3>3. node[e[1]] \notin DoneStatus
      BY <1>1, <1>a, <3>2
    <3>4. node[e[2]] \in {"pending", "skipped"}
      BY <3>1, <3>3 DEF DependencyOrder
    <3>5. node[e[2]] = "skipped" => \A z \in Nodes : e[2] \notin Preds(z)
      BY <3>1 DEF Linear, SkippedMayBe
    <3> QED BY <3>1, <3>4, <3>5
  <2>3. x \in S
    <3> HIDE DEF S
    <3> QED BY <1>1, <2>1, <2>2 DEF Affected
  <2> QED BY <1>1, <1>a, <2>3
<1> QED BY <1>1 DEF Linear

\* The execution is created until its first transaction, and shows the projection
\* from then on unless a node waits.
CreatedIsUnstarted == exec = "created" => \A n \in Nodes : node[n] # "running"

FollowsOrWaits ==
  exec \in {"created", Projection(node)} \/ \E n \in Nodes : node[n] = "waiting_user"

LEMMA ShownStep ==
  ASSUME TypeOK, CreatedIsUnstarted, FollowsOrWaits, [Next]_vars
  PROVE  CreatedIsUnstarted' /\ FollowsOrWaits'
<1>1. Projection(node)' # "created"
  BY DEF Projection
<1>2. CreatedIsUnstarted'
  BY <1>1, ExecWrites DEF CreatedIsUnstarted
<1>3. CASE exec' = Projection(node)' \/ (node' = node /\ exec' = exec)
  BY <1>2, <1>3 DEF FollowsOrWaits
<1>4. CASE current' \in Nodes /\ node'[current'] = "waiting_user"
  BY <1>2, <1>4 DEF FollowsOrWaits
<1> QED BY <1>2, <1>3, <1>4, ExecWrites

LEMMA LinearShowsRunning ==
  ASSUME Linear, TypeOK, DependencyOrder, SkippedMayBe, CreatedIsUnstarted, FollowsOrWaits
  PROVE  ShowsRunning
<1> SUFFICES ASSUME NEW n \in Nodes, node[n] = "running" PROVE exec = "running"
  BY DEF ShowsRunning
<1>1. node \in Statuses
  BY DEF TypeOK, Statuses
<1>2. Projection(node) = "running"
  BY <1>1, ProjectionLaw DEF ProjectionShowsWork
<1>3. exec # "created"
  BY DEF CreatedIsUnstarted
<1>4. \A m \in Nodes : node[m] # "waiting_user"
  BY OneAtATime DEF ActiveStatus
<1> QED BY <1>2, <1>3, <1>4 DEF FollowsOrWaits

\* Where executions and dispatches have their NodeRuns from.
LEMMA JobIds ==
  ASSUME EngineTypeOK, [EngineNext]_allVars, NEW r \in AiRuns
  PROVE  \/ job'[r].id = job[r].id
         \/ \E d \in worker.todo : job'[r].id = d[2]
         \/ \E n \in Nodes : job'[r].id = Latest(n) \/ PrepareRetry(n)
<1> DEFINE P == \/ job'[r].id = job[r].id
                \/ \E d \in worker.todo : job'[r].id = d[2]
                \/ \E n \in Nodes : job'[r].id = Latest(n) \/ PrepareRetry(n)
<1> SUFFICES P
  OBVIOUS
<1>j. job \in JobTable /\ TypeOK
  BY DEF EngineTypeOK, JobTable
<1>0. job[r].pc # "free" => P
  BY JobsStay
<1>k. job' = job => P
  OBVIOUS
<1>c. \A jobs \in JobTable : job' = Conflicted(jobs) /\ jobs[r].id = job[r].id => P
  BY JobsType
<1> HIDE DEF P
<1>q. ASSUME NEW q \in AiRuns, NEW pc \in JobPc, job' = At(q, pc) \/ job' = Conflicted(At(q, pc))
      PROVE  P
  <2>1. At(q, pc) \in JobTable /\ At(q, pc)[r].id = job[r].id
    BY <1>j, AtType
  <2> QED BY <1>q, <2>1, JobsType DEF P
\* An execution that is started.
<1>s. ASSUME FreeRuns # {}, NEW id \in NodeRunIds, NEW by \in {"user", "auto", "recovery"},
             job' = Started(job, id, by) \/ job' = Conflicted(Started(job, id, by)),
             (\E d \in worker.todo : id = d[2]) \/ (\E n \in Nodes : id = Latest(n))
      PROVE  P
  <2>1. /\ Started(job, id, by) \in JobTable
        /\ Started(job, id, by)[NewRun] = [pc |-> "route", id |-> id, by |-> by]
        /\ r # NewRun => Started(job, id, by)[r] = job[r]
    BY <1>j, <1>s, StartedType
  <2>3. Started(job, id, by)[r].id \in {id, job[r].id}
    <3> HIDE DEF NewRun, Started
    <3>1. CASE r = NewRun
      BY <2>1, <3>1
    <3>2. CASE r # NewRun
      BY <2>1, <3>2
    <3> QED BY <3>1, <3>2
  <2>2. job'[r].id \in {id, job[r].id}
    BY <1>s, <2>1, <2>3, JobsType
  <2> QED BY <1>s, <2>2 DEF P
<1>1. ASSUME NEW q \in AiRuns,
             Execution(q) \/ AiRunEnds(q) \/ CompletionDropped(q) \/ CancelRun(q)
      PROVE  P
  <2>1. Execution(q) => P
    BY ExecutionWorks DEF Works, P
  <2>2. "done" \in JobPc
    BY DEF JobPc
  <2> QED BY <1>1, <1>k, <1>q, <2>1, <2>2 DEF AiRunEnds, CompletionDropped, CancelRun
<1>2. CASE Worker
  <2>1. ASSUME NEW d \in worker.todo, ProcessDispatch(d) PROVE P
    <3>1. d[2] \in NodeRunIds /\ d[1] \in {"user", "auto", "recovery"}
      BY DEF EngineTypeOK, Dispatches
    <3>2. job' = job \/ (FreeRuns # {} /\ job' = Started(job, d[2], d[1]))
      BY <2>1 DEF ProcessDispatch
    <3> QED BY <1>k, <1>s, <3>1, <3>2
  <2>2. CASE ListDispatches \/ ReturnToWorker \/ EndPass \/ EndDrain
    BY <1>k, <2>2 DEF ListDispatches, ReturnToWorker, EndPass, EndDrain
  <2> QED BY <1>2, <2>1, <2>2 DEF Worker
<1>3. CASE User
  <2>1. ASSUME NEW n \in Nodes, Start(n) \/ Resume(n) PROVE P
    <3>1. Latest(n) \in NodeRunIds
      BY <1>j, LatestRun
    <3>2. /\ FreeRuns # {}
          /\ \/ job' = Started(job, Latest(n), "user")
             \/ job' = Conflicted(Started(job, Latest(n), "user"))
      BY <2>1 DEF Start, Resume, UserTx, Tx
    <3> HIDE DEF Latest
    <3> QED BY <1>s, <3>1, <3>2
  <2>2. ASSUME NEW n \in Nodes, Retry(n) PROVE P
    <3>1. PrepareRetry(n)
      BY <2>2 DEF Retry, UserTx, Tx
    <3> QED BY <3>1 DEF P
  <2>3. ASSUME \/ \E n \in Nodes : Pause(n) \/ Cancel(n) \/ Skip(n)
               \/ \E id \in NodeRunIds : Ask(id) \/ Answer(id) \/ Reevaluate(id)
               \/ \E k \in 1..MaxLimit : ChangeParallelism(k)
        PROVE  P
    <3>1. job' = job \/ job' = Conflicted(job)
      BY <2>3 DEF Pause, Cancel, Skip, Ask, Answer, Reevaluate, ChangeParallelism, UserTx, Tx
    <3> QED BY <1>k, <1>c, <1>j, <3>1
  <2>4. ASSUME NEW id \in NodeRunIds, ResolveGate(id) PROVE P
    <3>1. \/ job' = Conflicted(job)
          \/ job' = [q \in AiRuns |->
                       IF job[q].pc = "complete" /\ job[q].id = id
                       THEN [job[q] EXCEPT !.pc = "error"] ELSE job[q]]
      BY <2>4 DEF ResolveGate, UserTx, Tx
    <3>2. ASSUME job' = [q \in AiRuns |->
                           IF job[q].pc = "complete" /\ job[q].id = id
                           THEN [job[q] EXCEPT !.pc = "error"] ELSE job[q]]
          PROVE  P
      BY <1>j, <3>2 DEF JobTable, P
    <3> QED BY <1>c, <1>j, <3>1, <3>2
  <2> QED BY <1>3, <2>1, <2>2, <2>3, <2>4 DEF User
<1>4. CASE Recovery
  <2>1. job' = job \/ job' = Conflicted(job)
    BY <1>4 DEF Recovery, RecoverRuns, NextPhase, Reconcile, RecoverNode, RequeueNode, Tx
  <2> QED BY <1>k, <1>c, <1>j, <2>1
<1>5. CASE Crash
  BY <1>j, <1>5 DEF Crash, JobTable, P
<1>6. CASE UNCHANGED allVars
  BY <1>k, <1>6 DEF allVars, engineVars
<1> QED BY <1>1, <1>2, <1>3, <1>4, <1>5, <1>6 DEF EngineNext

LEMMA TodoMoves ==
  ASSUME EngineTypeOK, [EngineNext]_allVars
  PROVE  worker'.todo \subseteq worker.todo \/ worker'.todo \subseteq Dispatchable
<1>0. worker' = worker \/ DrainRequested => worker'.todo \subseteq worker.todo
  BY DrainType
<1>1. ASSUME NEW q \in AiRuns,
             Execution(q) \/ AiRunEnds(q) \/ CompletionDropped(q) \/ CancelRun(q)
      PROVE  worker' = worker \/ DrainRequested
  BY <1>1 DEF Execution, RouteFails, Reserve, Generate, Bind, Undo, Settle, Complete, WaitGate,
     SettleError, SettleFailed, AiRunEnds, CompletionDropped, CancelRun
<1>2. CASE Worker
  <2>1. CASE ListDispatches
    BY <2>1 DEF ListDispatches, EngineTypeOK
  <2>2. CASE ReturnToWorker \/ EndPass \/ EndDrain
    BY <2>2 DEF ReturnToWorker, EndPass, EndDrain, EngineTypeOK
  <2>3. ASSUME NEW d \in worker.todo, ProcessDispatch(d)
        PROVE  worker'.todo \subseteq worker.todo
    BY <2>3 DEF ProcessDispatch, EngineTypeOK
  <2> QED BY <1>2, <2>1, <2>2, <2>3 DEF Worker
<1>3. CASE User
  <2>1. worker' = worker \/ DrainRequested
    BY <1>3 DEF User, Start, Pause, Resume, Cancel, Skip, Retry, ResolveGate, Ask, Answer,
       Reevaluate, ChangeParallelism
  <2> QED BY <1>0, <2>1
<1>4. CASE Recovery
  <2>1. worker' = worker \/ DrainRequested
    BY <1>4 DEF Recovery, RecoverRuns, NextPhase, Reconcile, RecoverNode, RequeueNode
  <2> QED BY <1>0, <2>1
<1>5. CASE Crash
  BY <1>5 DEF Crash, Idle
<1>6. CASE UNCHANGED allVars
  BY <1>0, <1>6 DEF allVars, engineVars
<1> QED BY <1>0, <1>1, <1>2, <1>3, <1>4, <1>5, <1>6 DEF EngineNext

\* Where no node is retried there are first attempts only.
OnlyFirst ==
  /\ \A n \in Nodes : latest[n] = 1
  /\ \A id \in auto \cup recov : id[2] = 1
  /\ \A d \in worker.todo : d[2][2] = 1
  /\ \A r \in AiRuns : job[r].id[2] = 1

LEMMA DispatchIds ==
  ASSUME TypeOK, [Next]_vars
  PROVE  \A id \in auto' \cup recov' :
           \/ id \in auto \cup recov
           \/ \E n \in Nodes : id = Latest(n)
           \/ id \in NodeRunIds /\ Status(id) = "running"
<1> DEFINE P == \A id \in auto' \cup recov' :
                  \/ id \in auto \cup recov
                  \/ \E n \in Nodes : id = Latest(n)
                  \/ id \in NodeRunIds /\ Status(id) = "running"
<1> SUFFICES P
  OBVIOUS
<1>s. StillCurrent \subseteq recov
  BY DEF StillCurrent
<1>d. \A st : \A id \in Dispatched(st) : id \in auto \/ \E n \in Nodes : id = Latest(n)
  BY DEF Dispatched, Admitted
<1>1. \A st : auto' \in {auto, Dispatched(st)} /\ recov' \in {recov, StillCurrent} => P
  BY <1>s, <1>d
<1>2. ASSUME NEW id \in NodeRunIds, InterruptNode(id) PROVE P
  <2>1. auto' = auto /\ recov' = StillCurrent \cup {id} /\ Status(id) = "running"
    BY <1>2 DEF InterruptNode, Transition, CanTransition
  <2> QED BY <1>s, <2>1
<1>3. ASSUME NEW n \in Nodes, RequeueInterrupted(n) PROVE P
  BY <1>3 DEF RequeueInterrupted
<1>4. CASE ReconcileDispatches
  <2>1. /\ recov' = recov
        /\ \A id \in auto' : id \in auto \/ \E n \in Nodes : id = Latest(n)
    BY <1>4, GraphAssumption DEF ReconcileDispatches, GraphAssumption
  <2> QED BY <2>1
<1> HIDE DEF P
<1>5. ASSUME NEW id \in NodeRunIds,
             \/ ReserveNode(id) \/ (\E r \in AiRuns : BindAiRun(id, r))
             \/ WaitForUser(id) \/ FailRecovery(id)
             \/ OpenQuestion(id) \/ ResolveQuestion(id)
      PROVE  P
  <2>1. auto' = auto /\ recov' \in {recov, StillCurrent}
    BY <1>5 DEF ReserveNode, BindAiRun, WaitForUser, FailRecovery, OpenQuestion,
       ResolveQuestion, Transition
  <2> QED BY <1>1, <2>1
<1>6. ASSUME NEW id \in NodeRunIds,
             CompleteNode(id) \/ \E s \in {"failed", "cancelled"} : FinishNode(id, s)
      PROVE  P
  <2>1. \E st : auto' = Dispatched(st) /\ recov' = StillCurrent
    BY <1>6 DEF FinishNode, CompleteNode
  <2> QED BY <1>1, <2>1
<1>7. ASSUME NEW n \in Nodes,
             PauseNode(n) \/ ResumeNode(n) \/ CancelNode(n) \/ PrepareRetry(n)
      PROVE  P
  <2>1. auto' = auto /\ recov' \in {recov, StillCurrent}
    BY <1>7 DEF PauseNode, ResumeNode, CancelNode, PrepareRetry, Transition
  <2> QED BY <1>1, <2>1
<1>8. ASSUME NEW n \in Nodes, SkipNode(n) PROVE P
  <2>1. auto' = Dispatched(Finished(n, "skipped")) /\ recov' = StillCurrent
    BY <1>8 DEF SkipNode
  <2> QED BY <1>1, <2>1
<1>9. ASSUME NEW k, SetParallelism(k) PROVE P
  <2>1. auto' = Dispatched(Admit(node, k)) /\ recov' = StillCurrent
    BY <1>9 DEF SetParallelism
  <2> QED BY <1>1, <2>1
<1>10. CASE UNCHANGED vars
  BY <1>1, <1>10 DEF vars
<1> QED BY <1>2, <1>3, <1>4, <1>5, <1>6, <1>7, <1>8, <1>9, <1>10 DEF Next

LEMMA FirstStep ==
  ASSUME SingleAttempts, EngineTypeOK, OnlyFirst, [EngineNext]_allVars, [Next]_vars
  PROVE  OnlyFirst'
<1>t. /\ TypeOK /\ \A n \in Nodes : latest[n] = 1 /\ Latest(n)[2] = 1
      /\ \A n \in Nodes : RetryLimit[n] \in Nat
      /\ \A id \in NodeRunIds : id[1] \in Nodes /\ id[2] \in Nat /\ id[2] >= 1
  BY ExecutionAssumption
  DEF EngineTypeOK, OnlyFirst, Latest, NodeRunIds, Attempts, ExecutionAssumption
<1>r. \A n \in Nodes : ~PrepareRetry(n)
  BY <1>t DEF SingleAttempts, PrepareRetry
<1>1. \A n \in Nodes : latest'[n] = 1
  BY <1>t, <1>r, LatestKept
<1>2. \A id \in NodeRunIds : Status(id) = "running" => id[2] = 1
  BY <1>t DEF TypeOK
<1> HIDE DEF Latest
<1>3. \A id \in auto' \cup recov' : id[2] = 1
  BY <1>t, <1>2, DispatchIds DEF OnlyFirst
<1>4. \A d \in worker'.todo : d[2][2] = 1
  <2>1. \A d \in Dispatchable : d[2][2] = 1
    BY DEF Dispatchable, OnlyFirst
  <2> QED BY <2>1, TodoMoves DEF OnlyFirst
<1>5. \A r \in AiRuns : job'[r].id[2] = 1
  BY <1>t, <1>r, JobIds DEF OnlyFirst
<1> QED BY <1>1, <1>3, <1>4, <1>5 DEF OnlyFirst

(* In a workflow whose nodes come one after another, with nothing to skip   *)
(* in the middle and no retries, nothing is assumed: every running NodeRun  *)
(* has its execution, whatever users, gates, questions, refused             *)
(* transactions and crashes do (execute-workflow-node.ts:61-233,            *)
(* recover-workflows.ts:58-183).                                            *)
THEOREM LinearNodesAreAttended ==
  ASSUME Nodes # {}, Linear, SingleAttempts
  PROVE  EngineSpec => []RunningHasExecution
<1> DEFINE LinearInv == SkippedMayBe /\ CreatedIsUnstarted /\ FollowsOrWaits
<1>1. EngineInit => OnlyFirst
  <2> SUFFICES ASSUME EngineInit PROVE OnlyFirst
    OBVIOUS
  <2>1. latest = [n \in Nodes |-> 1] /\ auto = {} /\ recov = {} /\ worker.todo = {}
    BY DEF EngineInit, Init, Idle
  <2>2. Latest(CHOOSE n \in Nodes : TRUE)[2] = 1
    BY <2>1 DEF Latest
  <2> HIDE DEF Latest
  <2>3. \A r \in AiRuns : job[r].id[2] = 1
    BY <2>2 DEF EngineInit
  <2> QED BY <2>1, <2>3 DEF OnlyFirst
<1>2. EngineTypeOK /\ OnlyFirst /\ [EngineNext]_allVars /\ [Next]_vars => OnlyFirst'
  BY FirstStep
<1>3. EngineTypeOK /\ OnlyFirst => WorksOnLatest
  <2> SUFFICES ASSUME EngineTypeOK, OnlyFirst, NEW r \in AiRuns
               PROVE  job[r].id = Latest(NodeOf(r))
    BY DEF WorksOnLatest
  <2>1. job[r].id \in NodeRunIds /\ job[r].id[2] = 1
    BY DEF EngineTypeOK, OnlyFirst
  <2> QED BY <2>1 DEF OnlyFirst, NodeOf, Latest, NodeRunIds
<1>4. EngineInit => LinearInv
  <2> SUFFICES ASSUME EngineInit PROVE LinearInv
    OBVIOUS
  <2>1. node = InstantiatedStatus /\ exec = "created"
    BY DEF EngineInit, Init
  <2>2. \A n \in Nodes : InstantiatedStatus[n] \in {"pending", "ready"}
    BY DEF InstantiatedStatus, Admit
  <2> QED BY <2>1, <2>2 DEF SkippedMayBe, CreatedIsUnstarted, FollowsOrWaits
<1>5. TypeOK /\ LinearInv /\ [Next]_vars => LinearInv'
  BY SkippedStep, ShownStep
<1>6. Sound /\ LinearInv => ShowsRunning
  BY LinearShowsRunning DEF Sound
<1>7. EngineSpec => []EngineTypeOK /\ Spec /\ []Sound
  BY EngineTypesCorrect, EngineTakesTransactions, SoundAlways, PTL
<1>8. Spec => [][Next]_vars
  BY PTL DEF Spec
<1>9. Sound => TypeOK
  BY DEF Sound
<1> HIDE DEF LinearInv
<1>10. EngineSpec => []OnlyFirst
  BY <1>1, <1>2, <1>7, <1>8, PTL DEF EngineSpec
<1>11. EngineSpec => []LinearInv
  BY <1>4, <1>5, <1>7, <1>8, <1>9, PTL DEF EngineSpec
<1> QED BY <1>3, <1>6, <1>7, <1>10, <1>11, RunningNodesAreAttended, PTL

=============================================================================
