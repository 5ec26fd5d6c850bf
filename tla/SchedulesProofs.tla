-------------------------- MODULE SchedulesProofs --------------------------
(***************************************************************************)
(* Theorems about Schedules, for any schedules, crons, edits and restarts. *)
(***************************************************************************)
EXTENDS Schedules, FiniteSetTheorems, WellFoundedInduction, TLAPS

-----------------------------------------------------------------------------
(* The inductive invariants.                                               *)

Plans == [rev : Nat, due : Slots \cup {None}, missed : Slots \cup {None}]
Operations == [step : {"none", "reconcile", "arm"}, current : BOOLEAN,
               preserve : BOOLEAN, at : Nat, planned : [Ids -> Plans]]
Timers == [id : Ids, rev : Nat, due : Slots, at : Nat] \cup {NoTimer}
Schedulers == [running : BOOLEAN, pending : {"none", "refresh", "start"},
               op : Operations, timer : Timers]

Reconciling == scheduler.op.step = "reconcile"
Planned(s) == scheduler.op.planned[s]

\* A row that is not empty is complete.
RowsAreComplete ==
  /\ \A s \in Ids : schedule[s].status # "none" => schedule[s].rev > 0
  /\ \A s \in Ids : HasCursor(s) => cursor[s].due \in Slots
  /\ \A i \in RunIds : run[i].status # "none" => run[i].id \in Ids

\* What a call of the service has been given, by the transaction it is about
\* to run.
JobIsComplete(j) ==
  /\ j.pc # "free" => j.id \in Ids
  /\ j.pc = "claim" => j.kind = "cron" /\ j.slot \in Slots /\ j.next \in Slots
  /\ j.pc = "resolve" => j.slot \in Slots
  /\ j.pc = "start" => j.slot = None
  /\ j.pc = "execute" => j.seen \in Active

JobsAreComplete == \A i \in RunIds : JobIsComplete(job[i])

\* A plan is empty, or it is for a revision and a slot.
PlansAreComplete ==
  Reconciling => \A s \in Ids :
    Planned(s) # NoCursor => /\ Planned(s).due \in Slots /\ Planned(s).rev > 0
                             /\ Planned(s).missed = None

RunRecord == [id : Ids \cup {None}, rev : Nat, slot : Slots \cup {None},
              status : Active \cup {"none", "finished", "overlap", "interrupted"}]
JobRecord == [pc : {"free", "claim", "start", "resolve", "execute"},
              kind : {"cron", "manual", "missed"}, id : Ids \cup {None},
              rev : Nat, slot : Slots \cup {None}, next : Slots \cup {None},
              seen : Active \cup {"none"}]
ScheduleRecord == [status : {"none", "active", "paused"}, rev : Nat,
                   policy : Policies, cron : Crons]

Shape == /\ TypeOK /\ scheduler \in Schedulers
         /\ RowsAreComplete /\ JobsAreComplete /\ PlansAreComplete

\* No slot is decided before it is due, and the slot after it comes later.
SlotsArePast ==
  /\ \A i \in RunIds : run[i].slot <= now
  /\ \A i \in RunIds : job[i].pc \in {"claim", "resolve"} => job[i].slot <= now
  /\ \A s \in Ids : cursor[s].missed <= now
  /\ \A m \in missed : m.slot <= now
  /\ Reconciling => scheduler.op.at <= now
  /\ \A i \in RunIds : job[i].pc = "claim" => job[i].slot < job[i].next

\* A cursor is ahead of every slot its schedule has run; a missed slot lies
\* before it and has not been run.
CursorIsAhead(s) ==
  /\ HasCursor(s) => \A i \in RunIds : run[i].id = s => run[i].slot < cursor[s].due
  /\ cursor[s].missed # None =>
       /\ cursor[s].missed < cursor[s].due
       /\ \A i \in RunIds : run[i].id = s => run[i].slot # cursor[s].missed

\* A plan that will replace the cursor is ahead as well: under the revision
\* it was made for, no slot can have been run since.
PlanIsAhead(s) ==
  /\ Planned(s).rev <= schedule[s].rev
  /\ scheduler.op.at < Planned(s).due
  /\ (/\ Planned(s).rev = schedule[s].rev /\ schedule[s].status # "none"
      /\ cursor[s].rev # Planned(s).rev)
     => \A i \in RunIds : run[i].id = s => run[i].slot < Planned(s).due

CursorsAreAhead == \A s \in Ids : CursorIsAhead(s)
PlansAreAhead ==
  Reconciling => \A s \in Ids : Planned(s) # NoCursor => PlanIsAhead(s)

SlotInv == CursorsAreAhead /\ PlansAreAhead /\ SlotRunsOnce

\* Whoever holds a revision of a schedule has read it from there.
RevisionsAreRead ==
  /\ \A s \in Ids : cursor[s].rev <= schedule[s].rev
  /\ Reconciling => \A s \in Ids : Planned(s).rev <= schedule[s].rev
  /\ \A i \in RunIds : job[i].pc # "free" => job[i].rev <= schedule[job[i].id].rev
  /\ \A i \in RunIds : run[i].status # "none" => run[i].rev <= schedule[run[i].id].rev

\* A call writes a run id of its own, and the execution of a run knows it.
JobsOwnTheirRuns ==
  \A i \in RunIds :
    /\ job[i].pc \in {"claim", "start", "resolve"} => run[i].status = "none"
    /\ job[i].pc = "execute" =>
         /\ run[i].status # "none"
         /\ job[i].id = run[i].id /\ job[i].rev = run[i].rev
         /\ run[i].status = "running" => job[i].seen = "running"

ExecutionInv == RevisionsAreRead /\ JobsOwnTheirRuns /\ RunningIsExecuted

\* The plan for a schedule whose cursor is up to date is up to date, too.
PlansFollowCursors ==
  Reconciling => \A s \in Ids :
    IsActive(s) /\ cursor[s].rev = schedule[s].rev => Planned(s).rev = schedule[s].rev

\* A timer stands only when the scheduler has nothing else to do, and what is
\* under way is superseded exactly when a refresh is queued.
SchedulerIsOrderly ==
  /\ scheduler.running <=> phase \in {"starting", "missed", "up"}
  /\ scheduler.pending # "none" => scheduler.running
  /\ scheduler.timer # NoTimer =>
       scheduler.running /\ scheduler.pending = "none" /\ scheduler.op = NoOp
  /\ scheduler.op # NoOp =>
       /\ scheduler.running
       /\ scheduler.op.step \in {"reconcile", "arm"}
       /\ scheduler.op.current <=> scheduler.pending = "none"
  /\ \A i \in RunIds : job[i].pc = "claim" => scheduler.running

\* Nothing has been asked of the scheduler since the schedules were listed.
Settled == scheduler.running /\ scheduler.pending = "none"

CursorsAreRight ==
  /\ Settled /\ Reconciling => \A s \in Ids :
       IsActive(s) => Planned(s).rev = schedule[s].rev \/ LastChangedByRun(s)
  /\ Settled /\ ~Reconciling => \A s \in Ids :
       /\ HasCursor(s) => IsActive(s)
       /\ IsActive(s) => HasCursor(s) \/ LastChangedByRun(s)

Armed ==
  /\ Cursors # {} => /\ scheduler.timer.id \in Earliest
                     /\ scheduler.timer.due = cursor[scheduler.timer.id].due
  /\ Cursors = {} => scheduler.timer = NoTimer

TimerIsRight ==
  (/\ Settled /\ scheduler.op = NoOp
   /\ \A i \in RunIds : job[i].pc # "claim") => Armed

ArmInv == SchedulerIsOrderly /\ CursorsAreRight /\ TimerIsRight

-----------------------------------------------------------------------------
(* The planner.                                                            *)

\* A set of numbers that is not empty has a least one.
LEMMA LeastExists ==
  ASSUME NEW C, C \subseteq Nat, C # {}
  PROVE  \E n \in C : \A m \in C : n <= m
<1> DEFINE Below(x) == {m \in C : m <= x}
           D == {Below(x) : x \in C}
<1>1. ASSUME NEW x \in C PROVE IsFiniteSet(Below(x))
  <2>1. x \in Int /\ \A m \in C : m \in Nat
    OBVIOUS
  <2>2. ASSUME NEW m \in Below(x) PROVE m \in 0..x
    <3>1. m \in Nat /\ m <= x
      BY <2>1
    <3> QED BY <2>1, <3>1
  <2>3. IsFiniteSet(0..x)
    BY <2>1, FS_Interval
  <2> QED BY <2>2, <2>3, FS_Subset
<1>2. D \subseteq FiniteSubsetsOf(C) /\ D # {}
  BY <1>1 DEF FiniteSubsetsOf
<1>3. PICK d \in D : \A e \in D : <<e, d>> \notin StrictSubsetOrdering(C)
  <2> HIDE DEF D
  <2> QED BY <1>2, FS_StrictSubsetOrderingWellFounded, WFMin
<1>4. PICK y \in C : d = Below(y)
  OBVIOUS
<1>5. ASSUME NEW x \in C PROVE y <= x
  <2> SUFFICES ASSUME x < y PROVE FALSE
    OBVIOUS
  <2>1. Below(x) \subseteq Below(y) /\ Below(x) # Below(y)
    <3>1. \A m \in C : m \in Nat
      OBVIOUS
    <3>2. y \in Below(y) /\ y \notin Below(x)
      BY <3>1
    <3>3. ASSUME NEW m \in Below(x) PROVE m \in Below(y)
      <4>1. m \in C /\ m <= x /\ m \in Nat /\ x \in Nat /\ y \in Nat
        BY <3>1
      <4>2. m <= y
        BY <4>1
      <4> QED BY <4>1, <4>2
    <3> QED BY <3>2, <3>3
  <2>2. Below(x) \in D /\ Below(x) \subseteq C /\ Below(y) \subseteq C
    OBVIOUS
  <2> QED BY <1>3, <1>4, <2>1, <2>2 DEF StrictSubsetOrdering
<1> QED BY <1>5

\* The next slot after a time within the horizon exists and lies after it.
LEMMA NextSlotIsAhead ==
  ASSUME NEW c \in Crons, NEW t \in 0..MaxTime
  PROVE  NextSlot(c, t) \in Slots /\ NextSlot(c, t) > t
<1> DEFINE C == {u \in c \cup {Never} : u > t}
<1>1. c \subseteq 1..MaxTime /\ MaxTime \in Nat
  BY ScheduleAssumption DEF ScheduleAssumption
<1>2. C \subseteq Nat /\ Never \in C
  <2>1. Never \in Nat /\ Never > t /\ c \subseteq Nat
    BY <1>1 DEF Never
  <2> QED BY <2>1
<1>3. PICK n \in C : \A m \in C : n <= m
  BY <1>2, LeastExists
<1>4. n \in Slots /\ n \in c \cup {Never} /\ n > t /\ \A u \in c : u > t => n <= u
  BY <1>1, <1>3 DEF Slots, Never
<1> HIDE DEF C
<1> QED BY <1>4 DEF NextSlot

-----------------------------------------------------------------------------
(* Types.                                                                  *)

\* A refresh touches the queue and the timer only.
LEMMA EnqueuedShape ==
  ASSUME scheduler \in Schedulers
  PROVE  /\ Enqueued("refresh") \in Schedulers
         /\ Enqueued("refresh").running = scheduler.running
         /\ Enqueued("refresh").op.step = scheduler.op.step
         /\ Enqueued("refresh").op.at = scheduler.op.at
         /\ Enqueued("refresh").op.planned = scheduler.op.planned
         /\ ~scheduler.running => Enqueued("refresh") = scheduler
         /\ scheduler.running => /\ Enqueued("refresh").pending = "refresh"
                                 /\ Enqueued("refresh").timer = NoTimer
                                 /\ ~Enqueued("refresh").op.current
BY DEF Enqueued, Schedulers, Operations, Timers

LEMMA ShapeInit ==
  ASSUME Init
  PROVE  Shape
<1>1. (CHOOSE c \in Crons : TRUE) \in Crons
  BY ScheduleAssumption DEF ScheduleAssumption
<1>2. TypeOK
  BY <1>1, ScheduleAssumption
  DEF Init, TypeOK, ScheduleAssumption, Policies, Active, NoCursor, FreeJob, None, Off, NoOp
<1>3. scheduler \in Schedulers
  BY DEF Init, Schedulers, Operations, Timers, Plans, Off, NoOp, NoCursor, None
<1>4. RowsAreComplete /\ JobsAreComplete /\ PlansAreComplete
  BY DEF Init, RowsAreComplete, JobsAreComplete, JobIsComplete, PlansAreComplete, HasCursor, FreeJob,
         Reconciling, Off, NoOp
<1> QED BY <1>2, <1>3, <1>4 DEF Shape

\* The scheduler's own steps.
LEMMA ShapeScheduler ==
  ASSUME Shape, ListSchedules \/ ReconcileTriggers \/ ArmNext \/ ContinueLongDelay
  PROVE  Shape'
<1> USE DEF Shape
<1>1. CASE ListSchedules
  <2> DEFINE plan(s) == IF IsActive(s)
                        THEN [rev |-> schedule[s].rev, missed |-> None,
                              due |-> NextSlot(schedule[s].cron, now)]
                        ELSE NoCursor
  <2>1. ASSUME NEW s \in Ids
        PROVE  /\ plan(s) \in Plans
               /\ plan(s) # NoCursor =>
                    plan(s).due \in Slots /\ plan(s).rev > 0 /\ plan(s).missed = None
    <3>1. /\ NextSlot(schedule[s].cron, now) \in Slots
          /\ schedule[s].rev \in Nat
          /\ schedule[s].status = "active" => schedule[s].rev > 0
      BY NextSlotIsAhead DEF TypeOK, RowsAreComplete
    <3> QED BY <3>1 DEF Plans, NoCursor, IsActive
  <2>2. scheduler' = [scheduler EXCEPT !.pending = "none",
          !.op = [step |-> "reconcile", current |-> TRUE, at |-> now,
                  preserve |-> scheduler.pending = "start",
                  planned |-> [s \in Ids |-> plan(s)]]]
    BY <1>1 DEF ListSchedules
  <2>3. now \in Nat
    BY DEF TypeOK
  <2> HIDE DEF plan
  <2>4. scheduler' \in Schedulers /\ \A s \in Ids : Planned(s)' = plan(s)
    BY <2>1, <2>2, <2>3 DEF Schedulers, Operations, Planned
  <2>5. TypeOK'
    BY <1>1, <2>4 DEF ListSchedules, TypeOK, store, Schedulers, Operations
  <2>6. PlansAreComplete'
    BY <2>1, <2>4 DEF PlansAreComplete
  <2> QED
    BY <1>1, <2>4, <2>5, <2>6
    DEF ListSchedules, store, RowsAreComplete, JobsAreComplete, HasCursor
<1>2. CASE ReconcileTriggers
  <2>1. ASSUME NEW s \in Ids
        PROVE  /\ Reconciled(s) \in Plans
               /\ Reconciled(s) # NoCursor => Reconciled(s).due \in Slots
    <3>1. /\ Planned(s) \in Plans /\ cursor[s] \in Plans
          /\ Planned(s) # NoCursor => Planned(s).due \in Slots
          /\ cursor[s] # NoCursor => cursor[s].due \in Slots
      BY <1>2 DEF ReconcileTriggers, Reconciling, Planned, PlansAreComplete,
         RowsAreComplete, HasCursor, Schedulers, Operations, TypeOK, Plans
    <3>2. NoCursor \in Plans
      BY DEF NoCursor, Plans
    <3> QED BY <3>1, <3>2 DEF Reconciled, Planned, Plans, NoCursor
  <2>2. scheduler' \in Schedulers /\ ~Reconciling'
    BY <1>2 DEF ReconcileTriggers, Schedulers, Operations, NoOp, NoCursor, Plans,
       Reconciling, None
  <2>3. TypeOK'
    BY <1>2, <2>1, <2>2 DEF ReconcileTriggers, TypeOK, Plans, Schedulers, Operations
  <2>4. RowsAreComplete' /\ JobsAreComplete'
    BY <1>2, <2>1 DEF ReconcileTriggers, RowsAreComplete, JobsAreComplete, HasCursor
  <2> QED BY <2>2, <2>3, <2>4 DEF PlansAreComplete
<1>3. CASE ArmNext
  <2>1. NoOp \in Operations
    BY DEF NoOp, Operations, NoCursor, Plans, None
  <2>2. scheduler' \in Schedulers /\ scheduler'.op = NoOp
    <3>1. CASE scheduler' = [scheduler EXCEPT !.op = NoOp]
      BY <2>1, <3>1 DEF Schedulers
    <3>2. ASSUME NEW s \in Earliest,
                 scheduler' = [scheduler EXCEPT !.op = NoOp,
                   !.timer = [id |-> s, rev |-> cursor[s].rev, due |-> cursor[s].due,
                              at |-> IF cursor[s].due - now > MaxDelay
                                     THEN now + MaxDelay ELSE cursor[s].due]]
          PROVE  scheduler' \in Schedulers /\ scheduler'.op = NoOp
      <4>1. s \in Ids /\ cursor[s].due \in Slots /\ cursor[s].rev \in Nat
        BY DEF Earliest, Cursors, RowsAreComplete, TypeOK
      <4>2. now + MaxDelay \in Nat /\ cursor[s].due \in Nat
        BY <4>1, ScheduleAssumption DEF ScheduleAssumption, TypeOK, Slots
      <4> DEFINE t == [id |-> s, rev |-> cursor[s].rev, due |-> cursor[s].due,
                       at |-> IF cursor[s].due - now > MaxDelay
                              THEN now + MaxDelay ELSE cursor[s].due]
      <4>3. t \in Timers
        BY <4>1, <4>2 DEF Timers
      <4>4. scheduler' = [scheduler EXCEPT !.op = NoOp, !.timer = t]
        BY <3>2
      <4> HIDE DEF t
      <4> QED BY <2>1, <4>3, <4>4 DEF Schedulers
    <3> QED BY <1>3, <3>1, <3>2 DEF ArmNext
  <2>3. ~Reconciling'
    BY <2>2 DEF Reconciling, NoOp
  <2>4. TypeOK'
    BY <1>3, <2>2 DEF ArmNext, TypeOK, store, Schedulers, Operations
  <2> QED
    BY <1>3, <2>2, <2>3, <2>4 DEF ArmNext, store, RowsAreComplete, JobsAreComplete,
       PlansAreComplete, HasCursor
<1>4. CASE ContinueLongDelay
  <2>1. scheduler' \in Schedulers /\ ~Reconciling'
    BY <1>4 DEF ContinueLongDelay, Schedulers, Operations, Timers, NoOp, NoCursor, Plans,
       Reconciling, None
  <2>2. TypeOK'
    BY <1>4, <2>1 DEF ContinueLongDelay, TypeOK, store, Schedulers, Operations
  <2> QED
    BY <1>4, <2>1, <2>2 DEF ContinueLongDelay, store, RowsAreComplete, JobsAreComplete,
       PlansAreComplete, HasCursor
<1> QED BY <1>1, <1>2, <1>3, <1>4

\* What a step has to show of the rows and the calls it writes.
LEMMA ShapeFrom ==
  ASSUME Shape,
         now' \in 0..MaxTime,
         schedule' \in [Ids -> ScheduleRecord],
         \A s \in Ids : schedule'[s].status # "none" => schedule'[s].rev > 0,
         run' \in [RunIds -> RunRecord],
         \A i \in RunIds : run'[i].status # "none" => run'[i].id \in Ids,
         cursor' \in [Ids -> Plans],
         \A s \in Ids : cursor'[s] # NoCursor => cursor'[s].due \in Slots,
         job' \in [RunIds -> JobRecord],
         \A i \in RunIds : JobIsComplete(job'[i]),
         scheduler' \in Schedulers,
         Reconciling' => Reconciling /\ scheduler'.op.planned = scheduler.op.planned,
         missed' \subseteq [id : Ids, rev : Nat, slot : Slots],
         phase' \in {"interrupt", "permissions", "starting", "missed", "up"},
         edits' \in 0..MaxEdits, boots' \in 0..MaxBoots
  PROVE  Shape'
<1>1. TypeOK'
  BY DEF TypeOK, ScheduleRecord, RunRecord, JobRecord, Plans, Schedulers, Operations
<1>2. RowsAreComplete' /\ JobsAreComplete'
  BY DEF RowsAreComplete, JobsAreComplete, HasCursor, JobIsComplete
<1>3. PlansAreComplete'
  BY DEF Shape, PlansAreComplete, Planned
<1> QED BY <1>1, <1>2, <1>3 DEF Shape

\* The same of what the step leaves alone.
LEMMA ShapeNow ==
  ASSUME Shape
  PROVE  /\ now \in 0..MaxTime /\ now \in Nat
         /\ schedule \in [Ids -> ScheduleRecord]
         /\ \A s \in Ids : schedule[s].status # "none" => schedule[s].rev > 0
         /\ run \in [RunIds -> RunRecord]
         /\ \A i \in RunIds : run[i].status # "none" => run[i].id \in Ids
         /\ cursor \in [Ids -> Plans]
         /\ \A s \in Ids : cursor[s] # NoCursor => cursor[s].due \in Slots
         /\ job \in [RunIds -> JobRecord]
         /\ \A i \in RunIds : JobIsComplete(job[i])
         /\ scheduler \in Schedulers
         /\ missed \subseteq [id : Ids, rev : Nat, slot : Slots]
         /\ phase \in {"interrupt", "permissions", "starting", "missed", "up"}
         /\ edits \in 0..MaxEdits /\ boots \in 0..MaxBoots
BY ScheduleAssumption
DEF Shape, TypeOK, RowsAreComplete, HasCursor, JobsAreComplete, ScheduleRecord, RunRecord,
    JobRecord, Plans, ScheduleAssumption

\* A step may refresh the scheduler or leave it alone.
LEMMA NotifyShape ==
  ASSUME Shape, Notify \/ UNCHANGED scheduler
  PROVE  /\ scheduler' \in Schedulers
         /\ scheduler'.op.step = scheduler.op.step
         /\ scheduler'.op.at = scheduler.op.at
         /\ scheduler'.op.planned = scheduler.op.planned
BY EnqueuedShape DEF Notify, Shape

\* A call ends, or goes on to execute the run it has written.
LEMMA JobGoesOn ==
  ASSUME Shape, NEW i \in RunIds, job[i].pc # "free", Ended(i) \/ Executes(i)
  PROVE  /\ job' \in [RunIds -> JobRecord]
         /\ \A k \in RunIds : JobIsComplete(job'[k])
<1>1. FreeJob \in JobRecord /\ JobIsComplete(FreeJob)
  BY DEF FreeJob, JobRecord, JobIsComplete, None
<1> DEFINE executing == [job[i] EXCEPT !.pc = "execute", !.seen = "running",
                                       !.slot = None, !.next = None]
<1>2. executing \in JobRecord /\ JobIsComplete(executing)
  BY ShapeNow DEF JobRecord, JobIsComplete, Active, None
<1>3. job' = [job EXCEPT ![i] = FreeJob] \/ job' = [job EXCEPT ![i] = executing]
  BY DEF Ended, Executes
<1> HIDE DEF executing
<1> QED BY <1>1, <1>2, <1>3, ShapeNow

\* The run that a call writes.
LEMMA NewRunShape ==
  ASSUME Shape, NEW i \in RunIds, job[i].pc # "free", NEW overlap \in BOOLEAN
  PROVE  NewRun(i, overlap) \in RunRecord /\ NewRun(i, overlap).id \in Ids
BY ShapeNow DEF NewRun, RunRecord, JobRecord, JobIsComplete, Active

\* The status of a run that has been written, and the revision of a schedule.
LEMMA StatusWrite ==
  ASSUME Shape, NEW i \in RunIds, run[i].status # "none",
         NEW st \in {"waiting", "finished"}
  PROVE  /\ [run EXCEPT ![i].status = st] \in [RunIds -> RunRecord]
         /\ \A k \in RunIds : [run EXCEPT ![i].status = st][k].status # "none"
                                => [run EXCEPT ![i].status = st][k].id \in Ids
<1>1. [run[i] EXCEPT !.status = st] \in RunRecord /\ [run[i] EXCEPT !.status = st].id = run[i].id
  BY ShapeNow DEF RunRecord, Active
<1> QED BY <1>1, ShapeNow

LEMMA RevisionWrite ==
  ASSUME Shape, NEW s \in Ids
  PROVE  /\ [schedule EXCEPT ![s].rev = @ + 1] \in [Ids -> ScheduleRecord]
         /\ \A u \in Ids : [schedule EXCEPT ![s].rev = @ + 1][u].status # "none"
                             => [schedule EXCEPT ![s].rev = @ + 1][u].rev > 0
<1>1. [schedule[s] EXCEPT !.rev = @ + 1] \in ScheduleRecord /\ schedule[s].rev + 1 > 0
  BY ShapeNow DEF ScheduleRecord
<1> QED BY <1>1, ShapeNow DEF ScheduleRecord

LEMMA NewIdIsFree ==
  ASSUME FreeIds # {}
  PROVE  NewId \in RunIds /\ run[NewId].status = "none" /\ job[NewId].pc = "free"
BY DEF NewId, FreeIds

LEMMA ShapeCalls ==
  ASSUME Shape, NEW i \in RunIds,
         \/ ClaimScheduledRun(i) \/ StartRun(i) \/ RequirePermission(i) \/ Finish(i)
         \/ ReconcilePermission(i) \/ ResolveMissed(i)
  PROVE  Shape'
<1> USE ShapeNow
<1>1. CASE ClaimScheduledRun(i)
  <2>1. job[i].pc = "claim" /\ job[i].id \in Ids /\ job[i].next \in Slots
    BY <1>1 DEF ClaimScheduledRun, JobIsComplete
  <2>2. job' \in [RunIds -> JobRecord] /\ \A k \in RunIds : JobIsComplete(job'[k])
    BY <1>1, <2>1, JobGoesOn DEF ClaimScheduledRun
  <2>3. HasActiveRun(job[i].id) \in BOOLEAN
    BY DEF HasActiveRun
  <2>4. /\ run' \in [RunIds -> RunRecord]
        /\ \A k \in RunIds : run'[k].status # "none" => run'[k].id \in Ids
    BY <1>1, <2>1, <2>3, NewRunShape DEF ClaimScheduledRun
  <2>5. /\ cursor' \in [Ids -> Plans]
        /\ \A s \in Ids : cursor'[s] # NoCursor => cursor'[s].due \in Slots
    <3>1. [cursor[job[i].id] EXCEPT !.due = job[i].next] \in Plans
      BY <2>1 DEF Plans
    <3>2. \/ cursor' = cursor
          \/ cursor' = [cursor EXCEPT ![job[i].id].due = job[i].next]
      BY <1>1 DEF ClaimScheduledRun
    <3> QED BY <2>1, <3>1, <3>2 DEF Plans
  <2> QED
    BY <1>1, <2>2, <2>4, <2>5, NotifyShape, ShapeFrom DEF ClaimScheduledRun, Reconciling
<1>2. CASE StartRun(i)
  <2>1. job' \in [RunIds -> JobRecord] /\ \A k \in RunIds : JobIsComplete(job'[k])
    BY <1>2, JobGoesOn DEF StartRun
  <2>2. /\ run' \in [RunIds -> RunRecord]
        /\ \A k \in RunIds : run'[k].status # "none" => run'[k].id \in Ids
    BY <1>2, NewRunShape DEF StartRun
  <2> QED BY <1>2, <2>1, <2>2, ShapeFrom DEF StartRun, Reconciling
<1>3. CASE RequirePermission(i)
  <2>1. job' \in [RunIds -> JobRecord] /\ \A k \in RunIds : JobIsComplete(job'[k])
    <3>1. [job[i] EXCEPT !.seen = "waiting"] \in JobRecord
      BY DEF JobRecord, Active
    <3>2. CASE job' = [job EXCEPT ![i].seen = "waiting"]
      BY <3>1, <3>2 DEF JobIsComplete, JobRecord
    <3>3. CASE Ended(i)
      BY <1>3, <3>3, JobGoesOn DEF RequirePermission
    <3> QED BY <1>3, <3>2, <3>3 DEF RequirePermission
  <2>2. /\ run' \in [RunIds -> RunRecord]
        /\ \A k \in RunIds : run'[k].status # "none" => run'[k].id \in Ids
    <3>1. Applies(i) => run[i].status # "none"
      BY <1>3 DEF RequirePermission, Applies
    <3>2. run' = run \/ (Applies(i) /\ run' = [run EXCEPT ![i].status = "waiting"])
      BY <1>3 DEF RequirePermission
    <3> QED BY <3>1, <3>2, StatusWrite
  <2>3. Notify \/ UNCHANGED scheduler
    BY <1>3 DEF RequirePermission, RefreshAfter, Notify
  <2> QED BY <1>3, <2>1, <2>2, <2>3, NotifyShape, ShapeFrom DEF RequirePermission, Reconciling
<1>4. CASE Finish(i)
  <2>1. job' \in [RunIds -> JobRecord] /\ \A k \in RunIds : JobIsComplete(job'[k])
    BY <1>4, JobGoesOn DEF Finish
  <2>2. job[i].id \in Ids /\ job[i].seen \in {"running", "waiting"}
    BY <1>4 DEF Finish, JobIsComplete, Active
  <2>3. /\ run' \in [RunIds -> RunRecord]
        /\ \A k \in RunIds : run'[k].status # "none" => run'[k].id \in Ids
    <3>1. Applies(i) => run[i].status # "none"
      BY <2>2 DEF Applies
    <3>2. run' = run \/ (Applies(i) /\ run' = [run EXCEPT ![i].status = "finished"])
      BY <1>4 DEF Finish
    <3> QED BY <3>1, <3>2, StatusWrite
  <2>4. /\ schedule' \in [Ids -> ScheduleRecord]
        /\ \A s \in Ids : schedule'[s].status # "none" => schedule'[s].rev > 0
    <3>1. schedule' = schedule \/ schedule' = [schedule EXCEPT ![job[i].id].rev = @ + 1]
      BY <1>4 DEF Finish
    <3>2. CASE schedule' = schedule
      BY <3>2
    <3>3. CASE schedule' = [schedule EXCEPT ![job[i].id].rev = @ + 1]
      <4> HIDE ShapeNow
      <4> QED BY <2>2, <3>3, RevisionWrite
    <3> QED BY <3>1, <3>2, <3>3
  <2>5. Notify \/ UNCHANGED scheduler
    BY <1>4 DEF Finish, RefreshAfter, Notify
  <2> QED BY <1>4, <2>1, <2>3, <2>4, <2>5, NotifyShape, ShapeFrom DEF Finish, Reconciling
<1>5. CASE ReconcilePermission(i)
  <2>1. run[i].status # "none" /\ run[i].id \in Ids
    BY <1>5 DEF ReconcilePermission
  <2>2. /\ run' \in [RunIds -> RunRecord]
        /\ \A k \in RunIds : run'[k].status # "none" => run'[k].id \in Ids
    BY <1>5, <2>1, StatusWrite DEF ReconcilePermission
  <2>3. /\ schedule' \in [Ids -> ScheduleRecord]
        /\ \A s \in Ids : schedule'[s].status # "none" => schedule'[s].rev > 0
    BY <1>5, <2>1, RevisionWrite DEF ReconcilePermission
  <2> QED BY <1>5, <2>2, <2>3, NotifyShape, ShapeFrom DEF ReconcilePermission, Reconciling
<1>6. CASE ResolveMissed(i)
  <2>1. job[i].pc = "resolve" /\ job[i].id \in Ids /\ job[i].slot \in Slots
    BY <1>6 DEF ResolveMissed, JobIsComplete
  <2>2. job' \in [RunIds -> JobRecord] /\ \A k \in RunIds : JobIsComplete(job'[k])
    BY <1>6, <2>1, JobGoesOn DEF ResolveMissed
  <2>3. HasActiveRun(job[i].id) \in BOOLEAN
    BY DEF HasActiveRun
  <2>4. /\ run' \in [RunIds -> RunRecord]
        /\ \A k \in RunIds : run'[k].status # "none" => run'[k].id \in Ids
    BY <1>6, <2>1, <2>3, NewRunShape DEF ResolveMissed
  <2>5. /\ cursor' \in [Ids -> Plans]
        /\ \A s \in Ids : cursor'[s] # NoCursor => cursor'[s].due \in Slots
    <3>1. CASE cursor' = cursor
      BY <3>1
    <3>2. CASE /\ cursor' = [cursor EXCEPT ![job[i].id].missed = None]
               /\ cursor[job[i].id].missed = job[i].slot
      <4>1. cursor[job[i].id] # NoCursor
        BY <2>1, <3>2, ScheduleAssumption DEF NoCursor, None, Slots
      <4> QED BY <2>1, <3>2, <4>1 DEF Plans
    <3> QED BY <1>6, <3>1, <3>2 DEF ResolveMissed
  <2> QED BY <1>6, <2>2, <2>4, <2>5, ShapeFrom DEF ResolveMissed, Reconciling
<1> QED BY <1>1, <1>2, <1>3, <1>4, <1>5, <1>6

\* A new call takes a free run id.
LEMMA JobBegins ==
  ASSUME Shape, FreeIds # {}, NEW j \in JobRecord, JobIsComplete(j),
         job' = [job EXCEPT ![NewId] = j]
  PROVE  /\ job' \in [RunIds -> JobRecord]
         /\ \A k \in RunIds : JobIsComplete(job'[k])
BY ShapeNow, NewIdIsFree

LEMMA ShapeNewCalls ==
  ASSUME Shape,
         \/ TimerFires
         \/ \E s \in Ids : RunNow(s)
         \/ \E m \in missed : RecoverMissed(m)
  PROVE  Shape'
<1> USE ShapeNow
<1>1. CASE TimerFires
  <2> DEFINE s == scheduler.timer.id
             j == [FreeJob EXCEPT !.pc = "claim", !.kind = "cron", !.id = s,
                    !.rev = scheduler.timer.rev, !.slot = scheduler.timer.due,
                    !.next = NextSlot(schedule[s].cron, now)]
  <2>1. scheduler.timer \in [id : Ids, rev : Nat, due : Slots, at : Nat]
    BY <1>1 DEF TimerFires, TimerIsDue, Schedulers, Timers
  <2>2. s \in Ids /\ scheduler.timer.rev \in Nat /\ scheduler.timer.due \in Slots
    BY <2>1
  <2>3. NextSlot(schedule[s].cron, now) \in Slots
    BY <2>2, NextSlotIsAhead DEF ScheduleRecord
  <2>4. j \in JobRecord /\ JobIsComplete(j)
    BY <2>2, <2>3 DEF FreeJob, JobRecord, JobIsComplete
  <2>5. /\ job' \in [RunIds -> JobRecord]
        /\ \A k \in RunIds : JobIsComplete(job'[k])
    <3>1. job' = job \/ (FreeIds # {} /\ job' = [job EXCEPT ![NewId] = j])
      BY <1>1 DEF TimerFires
    <3> HIDE DEF j
    <3> QED BY <2>4, <3>1, JobBegins
  <2>6. /\ scheduler' \in Schedulers /\ scheduler'.op = scheduler.op
    BY <1>1 DEF TimerFires, Schedulers, Timers
  <2> QED BY <1>1, <2>5, <2>6, ShapeFrom DEF TimerFires, store, Reconciling
<1>2. ASSUME NEW s \in Ids, RunNow(s) PROVE Shape'
  <2> DEFINE j == [FreeJob EXCEPT !.pc = "start", !.id = s, !.rev = schedule[s].rev]
  <2>1. j \in JobRecord /\ JobIsComplete(j)
    BY DEF FreeJob, JobRecord, JobIsComplete, ScheduleRecord
  <2>2. job' = [job EXCEPT ![NewId] = j] /\ FreeIds # {}
    BY <1>2 DEF RunNow
  <2> HIDE DEF j
  <2> QED BY <1>2, <2>1, <2>2, JobBegins, ShapeFrom DEF RunNow, store, Reconciling
<1>3. ASSUME NEW m \in missed, RecoverMissed(m) PROVE Shape'
  <2> DEFINE j == [FreeJob EXCEPT !.pc = "resolve", !.kind = "missed",
                    !.id = m.id, !.rev = m.rev, !.slot = m.slot]
  <2>1. j \in JobRecord /\ JobIsComplete(j)
    BY DEF FreeJob, JobRecord, JobIsComplete
  <2>2. job' = job \/ (FreeIds # {} /\ job' = [job EXCEPT ![NewId] = j])
    BY <1>3 DEF RecoverMissed
  <2> HIDE DEF j
  <2> QED BY <1>3, <2>1, <2>2, JobBegins, ShapeFrom DEF RecoverMissed, store, Reconciling
<1> QED BY <1>1, <1>2, <1>3

LEMMA ShapeEdits ==
  ASSUME Shape, NEW s \in Ids,
         Create(s) \/ Update(s) \/ PauseOrResume(s) \/ Delete(s)
  PROVE  Shape'
<1> USE ShapeNow
<1>1. ASSUME NEW row \in ScheduleRecord, row.status # "none" => row.rev > 0,
             Edit(s, row), UNCHANGED cursor \/ cursor' = [cursor EXCEPT ![s] = NoCursor]
      PROVE  Shape'
  <2>1. edits' \in 0..MaxEdits
    BY <1>1, ScheduleAssumption DEF Edit, ScheduleAssumption
  <2>2. /\ cursor' \in [Ids -> Plans]
        /\ \A u \in Ids : cursor'[u] # NoCursor => cursor'[u].due \in Slots
    <3>1. NoCursor \in Plans
      BY DEF NoCursor, Plans, None
    <3>2. CASE cursor' = cursor
      BY <3>2
    <3>3. CASE cursor' = [cursor EXCEPT ![s] = NoCursor]
      BY <3>1, <3>3
    <3> QED BY <1>1, <3>2, <3>3
  <2>3. /\ schedule' \in [Ids -> ScheduleRecord]
        /\ \A u \in Ids : schedule'[u].status # "none" => schedule'[u].rev > 0
    BY <1>1 DEF Edit
  <2> QED BY <1>1, <2>1, <2>2, <2>3, NotifyShape, ShapeFrom DEF Edit, Reconciling
<1>2. CASE Create(s)
  <2>1. PICK c \in Crons, p \in Policies :
          Edit(s, [status |-> "active", rev |-> 1, cron |-> c, policy |-> p])
    BY <1>2 DEF Create
  <2>2. [status |-> "active", rev |-> 1, cron |-> c, policy |-> p] \in ScheduleRecord
    BY DEF ScheduleRecord
  <2> QED BY <1>1, <1>2, <2>1, <2>2 DEF Create
<1>3. CASE Update(s)
  <2>1. PICK c \in Crons : Edit(s, [schedule[s] EXCEPT !.rev = @ + 1, !.cron = c])
    BY <1>3 DEF Update
  <2>2. /\ [schedule[s] EXCEPT !.rev = @ + 1, !.cron = c] \in ScheduleRecord
        /\ [schedule[s] EXCEPT !.rev = @ + 1, !.cron = c].rev > 0
    <3>1. schedule[s] \in ScheduleRecord /\ schedule[s].rev + 1 \in Nat
      BY DEF ScheduleRecord
    <3>2. schedule[s].rev + 1 > 0
      BY <3>1 DEF ScheduleRecord
    <3> HIDE ShapeNow
    <3> QED BY <3>1, <3>2 DEF ScheduleRecord
  <2> QED BY <1>1, <1>3, <2>1, <2>2 DEF Update
<1>4. CASE PauseOrResume(s)
  <2> DEFINE row == [schedule[s] EXCEPT !.rev = @ + 1,
                       !.status = IF @ = "active" THEN "paused" ELSE "active"]
  <2>1. row \in ScheduleRecord /\ row.rev > 0
    <3>1. schedule[s] \in ScheduleRecord /\ schedule[s].rev + 1 \in Nat
      BY DEF ScheduleRecord
    <3>2. schedule[s].rev + 1 > 0
      BY <3>1 DEF ScheduleRecord
    <3> HIDE ShapeNow
    <3> QED BY <3>1, <3>2 DEF ScheduleRecord
  <2>2. Edit(s, row) /\ UNCHANGED cursor
    BY <1>4 DEF PauseOrResume
  <2> HIDE DEF row
  <2> QED BY <1>1, <2>1, <2>2
<1>5. CASE Delete(s)
  <2>1. /\ [schedule[s] EXCEPT !.status = "none"] \in ScheduleRecord
        /\ [schedule[s] EXCEPT !.status = "none"].status = "none"
    BY DEF ScheduleRecord
  <2> QED BY <1>1, <1>5, <2>1 DEF Delete
<1> QED BY <1>2, <1>3, <1>4, <1>5

LEMMA ShapeStartup ==
  ASSUME Shape,
         \/ RecoverInterrupted \/ StartScheduler \/ ListMissed \/ OpenWindow
         \/ Restart \/ Tick
  PROVE  Shape'
<1> USE ShapeNow
<1>1. Off \in Schedulers /\ [Off EXCEPT !.running = TRUE, !.pending = "start"] \in Schedulers
      /\ Off.op.step # "reconcile"
  BY DEF Off, NoOp, Schedulers, Operations, Timers, Plans, NoCursor, None
<1>2. CASE RecoverInterrupted
  <2>1. ASSUME NEW i \in RunIds
        PROVE  /\ [run[i] EXCEPT !.status = "interrupted"] \in RunRecord
               /\ [run[i] EXCEPT !.status = "interrupted"].id = run[i].id
               /\ i \in DeadRuns => run[i].id \in Ids
    BY DEF RunRecord, DeadRuns
  <2>2. /\ run' \in [RunIds -> RunRecord]
        /\ \A i \in RunIds : run'[i].status # "none" => run'[i].id \in Ids
    BY <1>2, <2>1 DEF RecoverInterrupted
  <2>3. ASSUME NEW s \in Ids
        PROVE  /\ [schedule[s] EXCEPT !.rev = @ + 1] \in ScheduleRecord
               /\ [schedule[s] EXCEPT !.rev = @ + 1].rev > 0
    BY DEF ScheduleRecord
  <2>4. /\ schedule' \in [Ids -> ScheduleRecord]
        /\ \A s \in Ids : schedule'[s].status # "none" => schedule'[s].rev > 0
    BY <1>2, <2>3 DEF RecoverInterrupted
  <2> QED BY <1>2, <2>2, <2>4, ShapeFrom DEF RecoverInterrupted, Reconciling
<1>3. CASE StartScheduler
  <2>1. scheduler' \in Schedulers /\ ~Reconciling'
    BY <1>1, <1>3 DEF StartScheduler, Reconciling, Off
  <2> QED BY <1>3, <2>1, ShapeFrom DEF StartScheduler, store
<1>4. CASE ListMissed
  <2>1. missed' \subseteq [id : Ids, rev : Nat, slot : Slots]
    BY <1>4 DEF ListMissed, MissedTriggers, Cursors, Plans
  <2> QED BY <1>4, <2>1, ShapeFrom DEF ListMissed, store, Reconciling
<1>5. CASE OpenWindow
  <2>1. Notify
    BY <1>5 DEF OpenWindow, Notify
  <2> QED BY <1>5, <2>1, NotifyShape, ShapeFrom DEF OpenWindow, store, Reconciling
<1>6. CASE Restart
  <2>1. now' \in 0..MaxTime /\ boots' \in 0..MaxBoots
    BY <1>6, ScheduleAssumption DEF Restart, ScheduleAssumption
  <2>2. /\ job' \in [RunIds -> JobRecord]
        /\ \A i \in RunIds : JobIsComplete(job'[i])
    BY <1>6 DEF Restart, FreeJob, JobRecord, JobIsComplete, None
  <2>3. scheduler' \in Schedulers /\ ~Reconciling'
    BY <1>1, <1>6 DEF Restart, Reconciling
  <2> QED BY <1>6, <2>1, <2>2, <2>3, ShapeFrom DEF Restart, store
<1>7. CASE Tick
  <2>1. now' \in 0..MaxTime
    BY <1>7, ScheduleAssumption DEF Tick, ScheduleAssumption
  <2> QED BY <1>7, <2>1, ShapeFrom DEF Tick, store, Reconciling
<1> QED BY <1>2, <1>3, <1>4, <1>5, <1>6, <1>7

LEMMA ShapeStep ==
  ASSUME Shape, [Next]_vars
  PROVE  Shape'
<1>1. CASE SchedulerStep
  BY <1>1, ShapeScheduler, ShapeCalls, ShapeNewCalls DEF SchedulerStep
<1>2. CASE StartupStep
  BY <1>2, ShapeStartup, ShapeCalls, ShapeNewCalls DEF StartupStep
<1>3. CASE RunStep
  BY <1>3, ShapeCalls DEF RunStep
<1>4. CASE UserStep
  BY <1>4, ShapeEdits, ShapeNewCalls DEF UserStep
<1>5. CASE Restart \/ Tick
  BY <1>5, ShapeStartup
<1>6. CASE UNCHANGED vars
  BY <1>6, ShapeNow, ShapeFrom DEF vars, store, Reconciling
<1> QED BY <1>1, <1>2, <1>3, <1>4, <1>5, <1>6 DEF Next

LEMMA ShapeHolds == Spec => []Shape
<1>1. Init => Shape
  BY ShapeInit
<1>2. Shape /\ [Next]_vars => Shape'
  BY ShapeStep
<1> QED BY <1>1, <1>2, PTL DEF Spec

(* The store, the calls under way and the scheduler keep their types, for  *)
(* any number of schedules, runs, edits and restarts.                      *)
THEOREM SchedulesTypeCorrect == Spec => []TypeOK
<1>1. Shape => TypeOK
  BY DEF Shape
<1> QED BY <1>1, ShapeHolds, PTL


-----------------------------------------------------------------------------
(* One run at a time.                                                      *)

\* A call writes its run, as a run under way only if there is no other.
RunIsWritten(i) ==
  /\ job[i].pc \in {"claim", "start", "resolve"}
  /\ \/ HasActiveRun(job[i].id) /\ run' = [run EXCEPT ![i] = NewRun(i, TRUE)]
     \/ ~HasActiveRun(job[i].id) /\ run' = [run EXCEPT ![i] = NewRun(i, FALSE)]

\* A run changes its status; only a running one comes to wait.
RunMoves(i) ==
  /\ run[i].status # "none"
  /\ \/ run[i].status = "running" /\ run' = [run EXCEPT ![i].status = "waiting"]
     \/ run' = [run EXCEPT ![i].status = "finished"]

RunsAreInterrupted ==
  run' = [i \in RunIds |-> IF i \in DeadRuns
            THEN [run[i] EXCEPT !.status = "interrupted"] ELSE run[i]]

LEMMA WritesOfRuns ==
  ASSUME Shape, [Next]_vars
  PROVE  \/ run' = run
         \/ \E i \in RunIds : RunIsWritten(i) \/ RunMoves(i)
         \/ RunsAreInterrupted
<1>1. CASE SchedulerStep
  <2>1. ASSUME NEW i \in RunIds, ClaimScheduledRun(i) PROVE run' = run \/ RunIsWritten(i)
    BY <2>1 DEF ClaimScheduledRun, RunIsWritten, HasActiveRun
  <2> QED
    BY <1>1, <2>1 DEF SchedulerStep, ListSchedules, ReconcileTriggers, ArmNext,
       ContinueLongDelay, TimerFires, store
<1>2. CASE StartupStep
  <2>1. ASSUME NEW i \in RunIds, ResolveMissed(i) PROVE run' = run \/ RunIsWritten(i)
    BY <2>1 DEF ResolveMissed, RunIsWritten, HasActiveRun
  <2> QED
    BY <1>2, <2>1 DEF StartupStep, RecoverInterrupted, RunsAreInterrupted, StartScheduler,
       ListMissed, OpenWindow, RecoverMissed, store
<1>3. CASE RunStep
  <2>1. ASSUME NEW i \in RunIds, StartRun(i) PROVE run' = run \/ RunIsWritten(i)
    BY <2>1 DEF StartRun, RunIsWritten
  <2>2. ASSUME NEW i \in RunIds, RequirePermission(i) \/ Finish(i) \/ ReconcilePermission(i)
        PROVE  run' = run \/ RunMoves(i)
    <3>1. RequirePermission(i) /\ Applies(i) => run[i].status = "running"
      BY DEF RequirePermission, Applies
    <3>2. Finish(i) /\ Applies(i) => run[i].status # "none"
      BY ShapeNow DEF Finish, Applies, JobIsComplete, Active
    <3> QED
      BY <2>2, <3>1, <3>2 DEF RequirePermission, Finish, ReconcilePermission, RunMoves
  <2> QED BY <1>3, <2>1, <2>2 DEF RunStep
<1>4. CASE UserStep
  BY <1>4 DEF UserStep, RunNow, Create, Update, PauseOrResume, Delete, Edit, store
<1>5. CASE Restart \/ Tick \/ UNCHANGED vars
  BY <1>5 DEF Restart, Tick, vars, store
<1> QED BY <1>1, <1>2, <1>3, <1>4, <1>5 DEF Next

LEMMA OneActiveStep ==
  ASSUME Shape, OneActiveRun, [Next]_vars
  PROVE  OneActiveRun'
<1> USE ShapeNow DEF OneActiveRun
<1>1. CASE run' = run
  BY <1>1
<1>2. ASSUME NEW i \in RunIds, RunIsWritten(i) PROVE OneActiveRun'
  <2>1. CASE /\ HasActiveRun(job[i].id)
             /\ run' = [run EXCEPT ![i] = NewRun(i, TRUE)]
    <3>1. run'[i].status \notin Active
      BY <2>1 DEF NewRun, Active
    <3>2. \A k \in RunIds \ {i} : run'[k] = run[k]
      BY <2>1
    <3> QED BY <3>1, <3>2
  <2>2. CASE /\ ~HasActiveRun(job[i].id)
             /\ run' = [run EXCEPT ![i] = NewRun(i, FALSE)]
    <3>1. run'[i].id = job[i].id
      BY <2>2 DEF NewRun
    <3>2. \A k \in RunIds \ {i} : run'[k] = run[k]
      BY <2>2
    <3>3. \A k \in RunIds : ~(run[k].id = job[i].id /\ run[k].status \in Active)
      BY <2>2 DEF HasActiveRun
    <3> QED BY <3>1, <3>2, <3>3
  <2> QED BY <1>2, <2>1, <2>2 DEF RunIsWritten
<1>3. ASSUME NEW i \in RunIds, RunMoves(i) PROVE OneActiveRun'
  <2>1. \A k \in RunIds \ {i} : run'[k] = run[k]
    BY <1>3 DEF RunMoves
  <2>2. run'[i].id = run[i].id /\ (run'[i].status \in Active => run[i].status \in Active)
    BY <1>3 DEF RunMoves, RunRecord, Active
  <2> QED BY <2>1, <2>2
<1>4. CASE RunsAreInterrupted
  <2>1. ASSUME NEW k \in RunIds
        PROVE  run'[k].id = run[k].id /\ (run'[k].status \in Active => run[k].status \in Active)
    BY <1>4 DEF RunsAreInterrupted, RunRecord, Active, DeadRuns
  <2> QED BY <2>1
<1> QED BY <1>1, <1>2, <1>3, <1>4, WritesOfRuns

(* Two runs of one schedule are never under way together, whoever asks for *)
(* them and however late: the timer, the user, the catch-up of a startup   *)
(* or an approval (repositories.ts, SqliteScheduleRepository).             *)
THEOREM OneRunAtATime == Spec => []OneActiveRun
<1>1. Init => OneActiveRun
  BY DEF Init, OneActiveRun, Active
<1>2. Shape /\ OneActiveRun /\ [Next]_vars => OneActiveRun'
  BY OneActiveStep
<1> QED BY <1>1, <1>2, ShapeHolds, PTL DEF Spec


-----------------------------------------------------------------------------
(* What a step does to the other rows.                                     *)

\* A schedule is left alone, or gets its next revision, or is deleted.
LEMMA StepsOfSchedules ==
  ASSUME Shape, [Next]_vars, NEW s \in Ids
  PROVE  \/ schedule'[s] = schedule[s]
         \/ schedule'[s].rev = schedule[s].rev + 1
         \/ schedule'[s].rev = schedule[s].rev /\ schedule'[s].status = "none"
<1> USE ShapeNow
<1> DEFINE Goal == \/ schedule'[s] = schedule[s]
                   \/ schedule'[s].rev = schedule[s].rev + 1
                   \/ schedule'[s].rev = schedule[s].rev /\ schedule'[s].status = "none"
<1>1. CASE schedule' = schedule
  BY <1>1
<1>2. ASSUME NEW u \in Ids, schedule' = [schedule EXCEPT ![u].rev = @ + 1] PROVE Goal
  BY <1>2 DEF ScheduleRecord
<1>3. ASSUME NEW i \in RunIds, Finish(i) \/ ReconcilePermission(i) PROVE Goal
  <2>1. job[i].pc # "free" => job[i].id \in Ids
    BY DEF JobIsComplete
  <2>2. run[i].status # "none" => run[i].id \in Ids
    OBVIOUS
  <2>3. \/ schedule' = schedule
        \/ \E u \in Ids : schedule' = [schedule EXCEPT ![u].rev = @ + 1]
    BY <1>3, <2>1, <2>2 DEF Finish, ReconcilePermission
  <2> QED BY <1>1, <1>2, <2>3
<1>4. CASE RecoverInterrupted
  BY <1>4 DEF RecoverInterrupted, ScheduleRecord
<1>5. ASSUME NEW u \in Ids, Create(u) \/ Update(u) \/ PauseOrResume(u) \/ Delete(u)
      PROVE  Goal
  <2>1. ASSUME NEW row, Edit(u, row),
               \/ row.rev = schedule[u].rev + 1
               \/ row.rev = schedule[u].rev /\ row.status = "none"
        PROVE  Goal
    BY <2>1 DEF Edit
  <2> HIDE DEF Goal
  <2>2. CASE Create(u)
    <3>1. PICK c \in Crons, p \in Policies :
            Edit(u, [status |-> "active", rev |-> 1, cron |-> c, policy |-> p])
      BY <2>2 DEF Create
    <3>2. schedule[u].rev = 0
      BY <2>2 DEF Create
    <3> QED BY <2>1, <3>1, <3>2
  <2>3. CASE Update(u)
    <3>1. PICK c \in Crons : Edit(u, [schedule[u] EXCEPT !.rev = @ + 1, !.cron = c])
      BY <2>3 DEF Update
    <3>2. [schedule[u] EXCEPT !.rev = @ + 1, !.cron = c].rev = schedule[u].rev + 1
      BY DEF ScheduleRecord
    <3> QED BY <2>1, <3>1, <3>2
  <2>4. CASE PauseOrResume(u)
    <3> DEFINE row == [schedule[u] EXCEPT !.rev = @ + 1,
                         !.status = IF @ = "active" THEN "paused" ELSE "active"]
    <3>1. row.rev = schedule[u].rev + 1
      BY DEF ScheduleRecord
    <3>2. Edit(u, row)
      BY <2>4 DEF PauseOrResume
    <3> HIDE DEF row
    <3> QED BY <2>1, <3>1, <3>2
  <2>5. CASE Delete(u)
    <3> DEFINE row == [schedule[u] EXCEPT !.status = "none"]
    <3>1. row.rev = schedule[u].rev /\ row.status = "none"
      BY DEF ScheduleRecord
    <3>2. Edit(u, row)
      BY <2>5 DEF Delete
    <3> HIDE DEF row
    <3> QED BY <2>1, <3>1, <3>2
  <2> QED BY <1>5, <2>2, <2>3, <2>4, <2>5
<1>6. CASE SchedulerStep
  BY <1>1, <1>6 DEF SchedulerStep, ListSchedules, ReconcileTriggers, ArmNext,
     ContinueLongDelay, TimerFires, ClaimScheduledRun, store
<1>7. CASE StartupStep
  BY <1>1, <1>4, <1>7 DEF StartupStep, StartScheduler, ListMissed, OpenWindow,
     RecoverMissed, ResolveMissed, store
<1>8. CASE RunStep
  <2>1. ASSUME NEW i \in RunIds, StartRun(i) \/ RequirePermission(i) PROVE schedule' = schedule
    BY <2>1 DEF StartRun, RequirePermission
  <2> QED BY <1>1, <1>3, <1>8, <2>1 DEF RunStep
<1>9. CASE UserStep
  <2>1. ASSUME NEW u \in Ids, RunNow(u) PROVE schedule' = schedule
    BY <2>1 DEF RunNow, store
  <2> QED BY <1>1, <1>5, <1>9, <2>1 DEF UserStep
<1>10. CASE Restart \/ Tick \/ UNCHANGED vars
  BY <1>1, <1>10 DEF Restart, Tick, vars, store
<1> QED BY <1>6, <1>7, <1>8, <1>9, <1>10 DEF Next

\* A call that begins takes a free run id and what it has just read.
Begins(i) ==
  /\ job[i].pc = "free" /\ run[i].status = "none"
  /\ UNCHANGED <<store, now>>
  /\ job'[i].pc \in {"claim", "start", "resolve"}
  /\ job'[i].rev = schedule[job'[i].id].rev
  /\ job'[i].pc = "claim" => /\ job'[i].slot <= now /\ job'[i].slot < job'[i].next
                             /\ scheduler.timer # NoTimer
  /\ job'[i].pc = "resolve" => \E m \in missed : job'[i].slot = m.slot

LEMMA StepsOfJobs ==
  ASSUME Shape, [Next]_vars, NEW i \in RunIds
  PROVE  job'[i] = job[i] \/ job'[i].pc \in {"free", "execute"} \/ Begins(i)
<1> USE ShapeNow
<1> DEFINE Goal == job'[i] = job[i] \/ job'[i].pc \in {"free", "execute"} \/ Begins(i)
<1>1. CASE job' = job
  BY <1>1
<1>2. ASSUME NEW k \in RunIds, Ended(k) \/ Executes(k) PROVE Goal
  <2>1. FreeJob.pc = "free" /\ [job[k] EXCEPT !.pc = "execute", !.seen = "running",
                                  !.slot = None, !.next = None].pc = "execute"
    BY DEF FreeJob, JobRecord
  <2>2. CASE i = k
    BY <1>2, <2>1, <2>2 DEF Ended, Executes
  <2>3. CASE i # k
    BY <1>2, <2>3 DEF Ended, Executes
  <2> QED BY <2>2, <2>3
<1>3. CASE TimerFires
  <2> DEFINE s == scheduler.timer.id
             j == [FreeJob EXCEPT !.pc = "claim", !.kind = "cron", !.id = s,
                    !.rev = scheduler.timer.rev, !.slot = scheduler.timer.due,
                    !.next = NextSlot(schedule[s].cron, now)]
  <2>1. CASE job' = job
    BY <1>1, <2>1
  <2>2. CASE /\ FreeIds # {} /\ schedule[s].rev = scheduler.timer.rev
             /\ job' = [job EXCEPT ![NewId] = j]
    <3>1. /\ scheduler.timer \in [id : Ids, rev : Nat, due : Slots, at : Nat]
          /\ scheduler.timer # NoTimer
          /\ scheduler.timer.due <= now
      BY <1>3 DEF TimerFires, TimerIsDue, Schedulers, Timers
    <3>2. NextSlot(schedule[s].cron, now) > now /\ NextSlot(schedule[s].cron, now) \in Nat
          /\ scheduler.timer.due \in Nat
      BY <3>1, NextSlotIsAhead, ScheduleAssumption DEF ScheduleRecord, Slots,
         ScheduleAssumption
    <3>3. /\ j.pc = "claim" /\ j.rev = scheduler.timer.rev /\ j.id = s
          /\ j.slot = scheduler.timer.due /\ j.next = NextSlot(schedule[s].cron, now)
      BY DEF FreeJob
    <3>4. CASE i = NewId
      <4>1. job'[i] = j
        BY <2>2, <3>4
      <4>2. j.slot <= now /\ j.slot < j.next
        BY <3>1, <3>2, <3>3
      <4> HIDE DEF j
      <4>3. Begins(i)
        BY <1>3, <2>2, <3>1, <3>3, <3>4, <4>1, <4>2, NewIdIsFree DEF TimerFires, Begins, store
      <4> QED BY <4>3
    <3>5. CASE i # NewId
      <4> HIDE DEF j
      <4> QED BY <2>2, <3>5
    <3> QED BY <3>4, <3>5
  <2> QED BY <1>3, <2>1, <2>2 DEF TimerFires
<1>4. ASSUME NEW m \in missed, RecoverMissed(m) PROVE Goal
  <2>1. CASE job' = job
    BY <1>1, <2>1
  <2>2. CASE /\ FreeIds # {} /\ schedule[m.id].rev = m.rev
             /\ job' = [job EXCEPT ![NewId] =
                  [FreeJob EXCEPT !.pc = "resolve", !.kind = "missed",
                     !.id = m.id, !.rev = m.rev, !.slot = m.slot]]
    <3>1. CASE i = NewId
      <4>1. /\ job'[i].pc = "resolve" /\ job'[i].rev = m.rev /\ job'[i].id = m.id
            /\ job'[i].slot = m.slot
        BY <2>2, <3>1 DEF FreeJob
      <4>2. Begins(i)
        BY <1>4, <2>2, <3>1, <4>1, NewIdIsFree DEF RecoverMissed, Begins, store
      <4> QED BY <4>2
    <3>2. CASE i # NewId
      BY <2>2, <3>2
    <3> QED BY <3>1, <3>2
  <2> QED BY <1>4, <2>1, <2>2 DEF RecoverMissed
<1>5. ASSUME NEW s \in Ids, RunNow(s) PROVE Goal
  <2>1. CASE i = NewId
    <3>1. job'[i].pc = "start" /\ job'[i].rev = schedule[s].rev /\ job'[i].id = s
      BY <1>5, <2>1 DEF RunNow, FreeJob
    <3>2. Begins(i)
      BY <1>5, <2>1, <3>1, NewIdIsFree DEF RunNow, Begins, store
    <3> QED BY <3>2
  <2>2. CASE i # NewId
    BY <1>5, <2>2 DEF RunNow
  <2> QED BY <2>1, <2>2
<1>6. ASSUME NEW k \in RunIds, RequirePermission(k) PROVE Goal
  <2>1. CASE Ended(k)
    BY <1>2, <2>1
  <2>2. CASE job' = [job EXCEPT ![k].seen = "waiting"] /\ job[k].pc = "execute"
    BY <2>2 DEF JobRecord
  <2> QED BY <1>6, <2>1, <2>2 DEF RequirePermission
<1>7. CASE SchedulerStep
  <2>1. ASSUME NEW k \in RunIds, ClaimScheduledRun(k) PROVE Goal
    BY <1>2, <2>1 DEF ClaimScheduledRun
  <2>2. CASE ListSchedules \/ ReconcileTriggers \/ ArmNext \/ ContinueLongDelay
    BY <1>1, <2>2 DEF ListSchedules, ReconcileTriggers, ArmNext, ContinueLongDelay
  <2> QED BY <1>3, <1>7, <2>1, <2>2 DEF SchedulerStep
<1>8. CASE StartupStep
  <2>1. ASSUME NEW k \in RunIds, ResolveMissed(k) PROVE Goal
    BY <1>2, <2>1 DEF ResolveMissed
  <2>2. CASE RecoverInterrupted \/ StartScheduler \/ ListMissed \/ OpenWindow
    BY <1>1, <2>2 DEF RecoverInterrupted, StartScheduler, ListMissed, OpenWindow
  <2> QED BY <1>4, <1>8, <2>1, <2>2 DEF StartupStep
<1>9. CASE RunStep
  <2>1. ASSUME NEW k \in RunIds, StartRun(k) \/ Finish(k) \/ ReconcilePermission(k) PROVE Goal
    BY <1>1, <1>2, <2>1 DEF StartRun, Finish, ReconcilePermission
  <2> QED BY <1>6, <1>9, <2>1 DEF RunStep
<1>10. CASE UserStep
  <2>1. ASSUME NEW s \in Ids, Create(s) \/ Update(s) \/ PauseOrResume(s) \/ Delete(s)
        PROVE  job' = job
    BY <2>1 DEF Create, Update, PauseOrResume, Delete, Edit
  <2> QED BY <1>1, <1>5, <1>10, <2>1 DEF UserStep
<1>11. CASE Restart \/ Tick \/ UNCHANGED vars
  <2>1. CASE Restart
    BY <2>1 DEF Restart, FreeJob
  <2> QED BY <1>1, <1>11, <2>1 DEF Tick, vars
<1> QED BY <1>7, <1>8, <1>9, <1>10, <1>11 DEF Next

\* armNext ends the operation, whatever it arms.
LEMMA ArmEnds ==
  ASSUME Shape, ArmNext
  PROVE  /\ scheduler'.op = NoOp /\ NoOp.step = "none"
         /\ scheduler'.pending = scheduler.pending
         /\ scheduler'.running = scheduler.running
<1>1. NoOp.step = "none"
  BY DEF NoOp
<1>2. CASE scheduler' = [scheduler EXCEPT !.op = NoOp]
  BY <1>1, <1>2 DEF Shape, Schedulers
<1>3. CASE \E t : scheduler' = [scheduler EXCEPT !.op = NoOp, !.timer = t]
  BY <1>1, <1>3 DEF Shape, Schedulers
<1> QED BY <1>2, <1>3 DEF ArmNext

\* Nothing but ListSchedules makes plans.
LEMMA StepsOfPlans ==
  ASSUME Shape, [Next]_vars, Reconciling', ~ListSchedules
  PROVE  /\ Reconciling /\ ~ReconcileTriggers
         /\ scheduler'.op.at = scheduler.op.at
         /\ scheduler'.op.planned = scheduler.op.planned
<1> DEFINE Kept == /\ scheduler'.op.step = scheduler.op.step
                   /\ scheduler'.op.at = scheduler.op.at
                   /\ scheduler'.op.planned = scheduler.op.planned
<1>1. ASSUME Notify \/ UNCHANGED scheduler PROVE Kept
  BY <1>1, NotifyShape
<1>2. ASSUME ReconcileTriggers \/ ArmNext \/ ContinueLongDelay PROVE FALSE
  <2>1. CASE ReconcileTriggers
    BY <2>1 DEF ReconcileTriggers, Shape, Schedulers, Operations, Reconciling
  <2>2. CASE ArmNext
    BY <2>2, ArmEnds DEF Reconciling
  <2>3. CASE ContinueLongDelay
    BY <2>3 DEF ContinueLongDelay, Shape, Schedulers, NoOp, Reconciling
  <2> QED BY <1>2, <2>1, <2>2, <2>3
<1>3. ASSUME StartScheduler \/ Restart PROVE FALSE
  <2>1. CASE StartScheduler
    BY <2>1 DEF StartScheduler, Reconciling, Off, NoOp
  <2>2. CASE Restart
    BY <2>2 DEF Restart, Reconciling, Off, NoOp
  <2> QED BY <1>3, <2>1, <2>2
<1>4. ASSUME TimerFires PROVE Kept
  BY <1>4 DEF TimerFires, Shape, Schedulers
<1> HIDE DEF Kept
<1>5. CASE SchedulerStep
  <2>1. ASSUME NEW i \in RunIds, ClaimScheduledRun(i) PROVE Kept
    BY <1>1, <2>1 DEF ClaimScheduledRun
  <2> QED BY <1>2, <1>4, <1>5, <2>1 DEF SchedulerStep, Kept, Reconciling
<1>6. CASE StartupStep
  <2>1. ASSUME NEW i \in RunIds, ResolveMissed(i) PROVE Kept
    BY <1>1, <2>1 DEF ResolveMissed
  <2>2. ASSUME NEW m \in missed, RecoverMissed(m) PROVE Kept
    BY <1>1, <2>2 DEF RecoverMissed
  <2>3. ASSUME RecoverInterrupted \/ ListMissed \/ OpenWindow PROVE Kept
    BY <1>1, <2>3 DEF RecoverInterrupted, ListMissed, OpenWindow, Notify
  <2> QED BY <1>2, <1>3, <1>6, <2>1, <2>2, <2>3 DEF StartupStep, Kept, Reconciling
<1>7. CASE RunStep
  <2>1. ASSUME NEW i \in RunIds,
               StartRun(i) \/ RequirePermission(i) \/ Finish(i) \/ ReconcilePermission(i)
        PROVE  Kept
    BY <1>1, <2>1 DEF StartRun, RequirePermission, Finish, ReconcilePermission,
       RefreshAfter, Notify
  <2> QED BY <1>2, <1>7, <2>1 DEF RunStep, Kept, Reconciling
<1>8. CASE UserStep
  <2>1. Kept
    BY <1>1, <1>8 DEF UserStep, RunNow, Create, Update, PauseOrResume, Delete, Edit
  <2> QED BY <1>2, <2>1 DEF Kept, Reconciling
<1>9. CASE Restart \/ Tick \/ UNCHANGED vars
  <2>1. ASSUME Tick \/ UNCHANGED vars PROVE Kept
    BY <1>1, <2>1 DEF Tick, vars
  <2> QED BY <1>2, <1>3, <1>9, <2>1 DEF Kept, Reconciling
<1> QED BY <1>5, <1>6, <1>7, <1>8, <1>9 DEF Next


\* Who writes the cursors.
LEMMA StepsOfCursors ==
  ASSUME [Next]_vars
  PROVE  \/ cursor' = cursor
         \/ ReconcileTriggers
         \/ \E i \in RunIds : ClaimScheduledRun(i) /\ ~ClaimIsStale(i)
         \/ \E i \in RunIds : ResolveMissed(i)
         \/ \E s \in Ids : Delete(s)
<1>1. CASE SchedulerStep
  <2>1. ASSUME NEW i \in RunIds, ClaimScheduledRun(i), ClaimIsStale(i) PROVE cursor' = cursor
    BY <2>1 DEF ClaimScheduledRun
  <2> QED
    BY <1>1, <2>1 DEF SchedulerStep, ListSchedules, ArmNext, ContinueLongDelay, TimerFires,
       store
<1>2. CASE StartupStep
  BY <1>2 DEF StartupStep, RecoverInterrupted, StartScheduler, ListMissed, OpenWindow,
     RecoverMissed, store
<1>3. CASE RunStep
  BY <1>3 DEF RunStep, StartRun, RequirePermission, Finish, ReconcilePermission
<1>4. CASE UserStep
  BY <1>4 DEF UserStep, RunNow, Create, Update, PauseOrResume, store
<1>5. CASE Restart \/ Tick \/ UNCHANGED vars
  BY <1>5 DEF Restart, Tick, vars, store
<1> QED BY <1>1, <1>2, <1>3, <1>4, <1>5 DEF Next

LEMMA StepsOfTime ==
  ASSUME Shape, [Next]_vars
  PROVE  now' = now \/ now < now'
<1>1. CASE SchedulerStep
  BY <1>1 DEF SchedulerStep, ListSchedules, ReconcileTriggers, ArmNext,
     ContinueLongDelay, TimerFires, ClaimScheduledRun
<1>2. CASE StartupStep
  BY <1>2 DEF StartupStep, RecoverInterrupted, StartScheduler, ListMissed, OpenWindow,
     RecoverMissed, ResolveMissed
<1>3. CASE RunStep
  BY <1>3 DEF RunStep, StartRun, RequirePermission, Finish, ReconcilePermission
<1>4. CASE UserStep
  BY <1>4 DEF UserStep, RunNow, Create, Update, PauseOrResume, Delete, Edit
<1>5. CASE Restart
  <2>1. PICK t \in now..MaxTime : now' = t
    BY <1>5 DEF Restart
  <2> QED BY <2>1, ShapeNow, ScheduleAssumption DEF ScheduleAssumption
<1>6. CASE Tick
  BY <1>6, ShapeNow DEF Tick
<1>7. CASE UNCHANGED vars
  BY <1>7 DEF vars
<1> QED BY <1>1, <1>2, <1>3, <1>4, <1>5, <1>6, <1>7 DEF Next

LEMMA StepsOfMissed ==
  ASSUME [Next]_vars
  PROVE  missed' \subseteq missed \cup MissedTriggers
<1>1. CASE SchedulerStep
  BY <1>1 DEF SchedulerStep, ListSchedules, ReconcileTriggers, ArmNext,
     ContinueLongDelay, TimerFires, ClaimScheduledRun
<1>2. CASE StartupStep
  BY <1>2 DEF StartupStep, RecoverInterrupted, StartScheduler, ListMissed, OpenWindow,
     RecoverMissed, ResolveMissed
<1>3. CASE RunStep
  BY <1>3 DEF RunStep, StartRun, RequirePermission, Finish, ReconcilePermission
<1>4. CASE UserStep
  BY <1>4 DEF UserStep, RunNow, Create, Update, PauseOrResume, Delete, Edit
<1>5. CASE Restart \/ Tick \/ UNCHANGED vars
  BY <1>5 DEF Restart, Tick, vars
<1> QED BY <1>1, <1>2, <1>3, <1>4, <1>5 DEF Next

-----------------------------------------------------------------------------
(* A slot is run once.                                                     *)

\* The numbers in a state.
LEMMA Numbers ==
  ASSUME Shape
  PROVE  /\ now \in Nat /\ None \in Nat /\ Slots \subseteq Nat /\ \A t \in Slots : None < t
         /\ \A s \in Ids : /\ schedule[s].rev \in Nat /\ cursor[s].rev \in Nat
                           /\ cursor[s].due \in Nat /\ cursor[s].missed \in Nat
         /\ \A i \in RunIds : /\ run[i].slot \in Nat /\ run[i].rev \in Nat
                              /\ job[i].slot \in Nat /\ job[i].next \in Nat
                              /\ job[i].rev \in Nat
         /\ \A m \in missed : m.slot \in Nat
         /\ scheduler.op.at \in Nat
         /\ \A s \in Ids : Planned(s).due \in Nat /\ Planned(s).rev \in Nat
<1>1. None \in Nat /\ Slots \subseteq Nat /\ \A t \in Slots : None < t
  BY ScheduleAssumption DEF None, Slots, Never, ScheduleAssumption
<1>2. \A s \in Ids : /\ schedule[s].rev \in Nat /\ cursor[s].rev \in Nat
                     /\ cursor[s].due \in Nat /\ cursor[s].missed \in Nat
  BY <1>1, ShapeNow DEF ScheduleRecord, Plans
<1>3. \A i \in RunIds : run[i].slot \in Nat /\ run[i].rev \in Nat
  BY <1>1, ShapeNow DEF RunRecord
<1>4. \A i \in RunIds : job[i].slot \in Nat /\ job[i].next \in Nat /\ job[i].rev \in Nat
  BY <1>1, ShapeNow DEF JobRecord
<1>5. scheduler.op \in Operations
  BY ShapeNow DEF Schedulers
<1>6. /\ scheduler.op.at \in Nat
      /\ \A s \in Ids : Planned(s).due \in Nat /\ Planned(s).rev \in Nat
  BY <1>1, <1>5 DEF Operations, Plans, Planned
<1>7. \A m \in missed : m.slot \in Nat
  BY <1>1, ShapeNow
<1> QED BY <1>1, <1>2, <1>3, <1>4, <1>6, <1>7, ShapeNow

LEMMA SlotsArePastStep ==
  ASSUME Shape, Shape', SlotsArePast, [Next]_vars
  PROVE  SlotsArePast'
<1> USE Numbers DEF SlotsArePast
<1>1. now <= now' /\ now' \in Nat
  <2>1. now' \in Nat
    BY ScheduleAssumption DEF Shape, TypeOK, ScheduleAssumption
  <2> QED BY <2>1, StepsOfTime
<1>2. ASSUME NEW i \in RunIds PROVE run'[i].slot <= now'
  <2>1. CASE run' = run
    BY <1>1, <2>1
  <2>2. ASSUME NEW k \in RunIds, RunIsWritten(k) PROVE run'[i].slot <= now'
    <3>1. job[k].slot <= now
      <4>1. job[k].pc = "start" => job[k].slot = None
        BY ShapeNow DEF JobIsComplete
      <4> QED BY <2>2, <4>1 DEF RunIsWritten, None
    <3>2. run'[i] = run[i] \/ run'[i].slot = job[k].slot
      BY <2>2, ShapeNow DEF RunIsWritten, NewRun
    <3> QED BY <1>1, <3>1, <3>2
  <2>3. ASSUME NEW k \in RunIds, RunMoves(k) PROVE run'[i].slot <= now'
    <3>1. run'[i].slot = run[i].slot
      <4>1. CASE run' = [run EXCEPT ![k].status = "waiting"]
        BY <4>1, ShapeNow DEF RunRecord
      <4>2. CASE run' = [run EXCEPT ![k].status = "finished"]
        BY <4>2, ShapeNow DEF RunRecord
      <4> QED BY <2>3, <4>1, <4>2 DEF RunMoves
    <3> QED BY <1>1, <3>1
  <2>4. CASE RunsAreInterrupted
    <3>1. run'[i].slot = run[i].slot
      BY <2>4, ShapeNow DEF RunsAreInterrupted, RunRecord
    <3> QED BY <1>1, <3>1
  <2> QED BY <2>1, <2>2, <2>3, <2>4, WritesOfRuns
<1>3. ASSUME NEW i \in RunIds, job'[i].pc \in {"claim", "resolve"}
      PROVE  job'[i].slot <= now' /\ (job'[i].pc = "claim" => job'[i].slot < job'[i].next)
  <2>1. CASE job'[i] = job[i]
    BY <1>1, <1>3, <2>1
  <2>2. CASE Begins(i)
    <3>1. job'[i].slot \in Nat
      <4>1. job'[i].slot \in Slots
        BY <1>3 DEF Shape, JobsAreComplete, JobIsComplete
      <4> QED BY <4>1
    <3>2. job'[i].slot <= now
      <4>1. CASE job'[i].pc = "claim"
        BY <2>2, <4>1 DEF Begins
      <4>2. CASE job'[i].pc = "resolve"
        <5>1. PICK m \in missed : job'[i].slot = m.slot
          BY <2>2, <4>2 DEF Begins
        <5> QED BY <5>1
      <4> QED BY <1>3, <4>1, <4>2
    <3> QED BY <1>1, <2>2, <3>1, <3>2 DEF Begins
  <2> QED BY <1>3, <2>1, <2>2, StepsOfJobs
<1>4. ASSUME NEW s \in Ids PROVE cursor'[s].missed <= now'
  <2>1. NoCursor.missed = None
    BY DEF NoCursor
  <2>2. CASE cursor' = cursor
    BY <1>1, <2>2
  <2>3. CASE ReconcileTriggers
    <3>1. Reconciling /\ cursor'[s] = Reconciled(s)
      BY <2>3 DEF ReconcileTriggers, Reconciling
    <3>2. \/ Reconciled(s) = NoCursor \/ Reconciled(s) = cursor[s]
          \/ Reconciled(s) = Planned(s) /\ Planned(s) # NoCursor
          \/ /\ cursor[s].due <= scheduler.op.at
             /\ Reconciled(s).missed \in {cursor[s].due, cursor[s].missed}
      BY ShapeNow DEF Reconciled, Planned, Plans
    <3>3. Planned(s) # NoCursor => Planned(s).missed = None
      BY <3>1 DEF Shape, PlansAreComplete
    <3>4. scheduler.op.at <= now
      BY <3>1
    <3>5. cursor'[s].missed \in {None, cursor[s].missed, cursor[s].due}
      BY <2>1, <3>1, <3>2, <3>3
    <3>6. cursor'[s].missed = cursor[s].due => cursor[s].due <= scheduler.op.at \/ cursor'[s].missed \in {None, cursor[s].missed}
      BY <2>1, <3>1, <3>2, <3>3
    <3>7. cursor[s].due <= scheduler.op.at => cursor[s].due <= now
      BY <3>4
    <3>8. None <= now /\ cursor[s].missed <= now
      BY DEF None
    <3> QED BY <1>1, <3>5, <3>6, <3>7, <3>8
  <2>4. ASSUME NEW i \in RunIds, ClaimScheduledRun(i), ~ClaimIsStale(i)
        PROVE  cursor'[s].missed <= now'
    <3>1. cursor'[s].missed = cursor[s].missed
      BY <2>4, ShapeNow DEF ClaimScheduledRun, Plans
    <3> QED BY <1>1, <3>1
  <2>5. ASSUME NEW i \in RunIds, ResolveMissed(i) PROVE cursor'[s].missed <= now'
    <3>1. cursor'[s].missed = cursor[s].missed \/ cursor'[s].missed = None
      BY <2>5, ShapeNow DEF ResolveMissed, Plans
    <3> QED BY <1>1, <3>1 DEF None
  <2>6. ASSUME NEW u \in Ids, Delete(u) PROVE cursor'[s].missed <= now'
    <3>1. cursor'[s] = cursor[s] \/ cursor'[s] = NoCursor
      BY <2>6, ShapeNow DEF Delete
    <3> QED BY <1>1, <2>1, <3>1 DEF None
  <2> QED BY <2>2, <2>3, <2>4, <2>5, <2>6, StepsOfCursors
<1>5. ASSUME NEW m \in missed' PROVE m.slot <= now'
  <2>1. CASE m \in missed
    BY <1>1, <2>1
  <2>2. CASE m \in MissedTriggers
    <3>1. PICK s \in Ids : m.slot = cursor[s].missed
      BY <2>2 DEF MissedTriggers, Cursors
    <3> QED BY <1>1, <3>1
  <2> QED BY <2>1, <2>2, StepsOfMissed
<1>6. ASSUME Reconciling' PROVE scheduler'.op.at <= now'
  <2>1. CASE ListSchedules
    BY <1>1, <2>1 DEF ListSchedules, Shape, Schedulers
  <2>2. CASE ~ListSchedules
    BY <1>1, <1>6, <2>2, StepsOfPlans
  <2> QED BY <2>1, <2>2
<1> QED BY <1>2, <1>3, <1>4, <1>5, <1>6

LEMMA SlotsArePastHolds == Spec => []SlotsArePast
<1>1. Init => SlotsArePast
  BY DEF Init, SlotsArePast, NoCursor, FreeJob, None, Off, NoOp, Reconciling
<1>2. Shape /\ Shape' /\ SlotsArePast /\ [Next]_vars => SlotsArePast'
  BY SlotsArePastStep
<1> QED BY <1>1, <1>2, ShapeHolds, PTL DEF Spec


\* The slot that a run stands for stays, or there is none.
SlotIsKept(i) ==
  run'[i].slot = None \/ (run'[i].id = run[i].id /\ run'[i].slot = run[i].slot)

LEMMA StepsOfSlots ==
  ASSUME Shape, [Next]_vars
  PROVE  \/ \A i \in RunIds : SlotIsKept(i)
         \/ \E i \in RunIds : ClaimScheduledRun(i) /\ ~ClaimIsStale(i)
         \/ \E i \in RunIds : ResolveMissed(i)
<1> DEFINE Kept == \A i \in RunIds : SlotIsKept(i)
<1>1. ASSUME run' = run PROVE Kept
  BY <1>1 DEF SlotIsKept
<1>2. ASSUME NEW k \in RunIds, RunMoves(k) PROVE Kept
  <2>1. CASE run' = [run EXCEPT ![k].status = "waiting"]
    BY <2>1, ShapeNow DEF RunRecord, SlotIsKept
  <2>2. CASE run' = [run EXCEPT ![k].status = "finished"]
    BY <2>2, ShapeNow DEF RunRecord, SlotIsKept
  <2> QED BY <1>2, <2>1, <2>2 DEF RunMoves
<1>3. ASSUME RunsAreInterrupted PROVE Kept
  BY <1>3, ShapeNow DEF RunsAreInterrupted, RunRecord, SlotIsKept
<1>4. ASSUME NEW k \in RunIds, StartRun(k) PROVE Kept
  <2>1. job[k].slot = None
    BY <1>4, ShapeNow DEF StartRun, JobIsComplete
  <2> QED BY <1>1, <1>4, <2>1, ShapeNow DEF StartRun, NewRun, SlotIsKept
<1> HIDE DEF Kept
<1>5. ASSUME NEW k \in RunIds, RunIsWritten(k),
             ~ \E i \in RunIds : StartRun(i),
             ~ \E i \in RunIds : ClaimScheduledRun(i) /\ ~ClaimIsStale(i),
             ~ \E i \in RunIds : ResolveMissed(i)
      PROVE  run' = run \/ RunsAreInterrupted \/ \E i \in RunIds : RunMoves(i)
  <2>1. CASE SchedulerStep
    BY <1>5, <2>1 DEF SchedulerStep, ListSchedules, ReconcileTriggers, ArmNext,
       ContinueLongDelay, TimerFires, ClaimScheduledRun, store
  <2>2. CASE StartupStep
    BY <1>5, <2>2 DEF StartupStep, RecoverInterrupted, RunsAreInterrupted, StartScheduler,
       ListMissed, OpenWindow, RecoverMissed, store
  <2>3. CASE RunStep
    <3>1. PICK i \in RunIds : RequirePermission(i) \/ Finish(i) \/ ReconcilePermission(i)
      BY <1>5, <2>3 DEF RunStep
    <3>2. CASE RequirePermission(i)
      BY <3>2 DEF RequirePermission, Applies, RunMoves
    <3>3. CASE Finish(i)
      <4>1. Applies(i) => run[i].status # "none"
        BY <3>3, ShapeNow DEF Finish, Applies, JobIsComplete, Active
      <4> QED BY <3>3, <4>1 DEF Finish, RunMoves
    <3>4. CASE ReconcilePermission(i)
      BY <3>4 DEF ReconcilePermission, RunMoves
    <3> QED BY <3>1, <3>2, <3>3, <3>4
  <2>4. CASE UserStep
    BY <2>4 DEF UserStep, RunNow, Create, Update, PauseOrResume, Delete, Edit, store
  <2>5. CASE Restart \/ Tick \/ UNCHANGED vars
    BY <2>5 DEF Restart, Tick, vars, store
  <2> QED BY <2>1, <2>2, <2>3, <2>4, <2>5 DEF Next
<1> QED BY <1>1, <1>2, <1>3, <1>4, <1>5, WritesOfRuns DEF Kept

\* As long as no run gets a slot.
LEMMA SlotsKeptStep ==
  ASSUME Shape, Shape', SlotsArePast, SlotInv, [Next]_vars,
         \A i \in RunIds : SlotIsKept(i),
         \/ cursor' = cursor \/ ReconcileTriggers \/ \E s \in Ids : Delete(s)
  PROVE  SlotInv'
<1> USE Numbers
<1>1. SlotRunsOnce'
  BY DEF SlotInv, SlotRunsOnce, SlotIsKept
<1>2. ASSUME NEW s \in Ids PROVE CursorIsAhead(s)'
  <2>1. CASE cursor'[s] = cursor[s]
    <3>1. HasCursor(s) => cursor[s].due \in Slots
      BY ShapeNow DEF HasCursor
    <3>2. ASSUME HasCursor(s), NEW i \in RunIds, run'[i].id = s PROVE run'[i].slot < cursor[s].due
      BY <3>1, <3>2 DEF SlotInv, CursorsAreAhead, CursorIsAhead, SlotIsKept
    <3>3. ASSUME cursor[s].missed # None, NEW i \in RunIds, run'[i].id = s
          PROVE  run'[i].slot # cursor[s].missed
      BY <3>3 DEF SlotInv, CursorsAreAhead, CursorIsAhead, SlotIsKept
    <3> QED
      BY <2>1, <3>2, <3>3 DEF CursorIsAhead, HasCursor, SlotInv, CursorsAreAhead
  <2>2. CASE cursor'[s] = NoCursor
    BY <2>2 DEF CursorIsAhead, HasCursor, NoCursor
  <2>3. CASE ReconcileTriggers
    <3>1. Reconciling /\ cursor'[s] = Reconciled(s) /\ run' = run
      BY <2>3 DEF ReconcileTriggers, Reconciling
    <3>2. CursorIsAhead(s)
      BY DEF SlotInv, CursorsAreAhead
    <3>3. CASE /\ Reconciled(s) = Planned(s) /\ Planned(s) # NoCursor
               /\ Planned(s).rev = schedule[s].rev /\ IsActive(s)
               /\ cursor[s].rev # Planned(s).rev
      <4>1. PlanIsAhead(s)
        BY <3>1, <3>3 DEF SlotInv, PlansAreAhead
      <4>2. \A i \in RunIds : run[i].id = s => run[i].slot < Planned(s).due
        BY <3>3, <4>1 DEF PlanIsAhead, IsActive
      <4>3. Planned(s).missed = None
        BY <3>1, <3>3 DEF Shape, PlansAreComplete
      <4>4. cursor'[s].due = Planned(s).due /\ cursor'[s].missed = None
        BY <3>1, <3>3, <4>3
      <4> QED BY <3>1, <4>2, <4>4 DEF CursorIsAhead
    <3>4. CASE /\ Planned(s) # NoCursor /\ cursor[s].rev = Planned(s).rev
               /\ cursor[s].due <= scheduler.op.at
               /\ Reconciled(s) = [cursor[s] EXCEPT !.due = Planned(s).due,
                    !.missed = IF @ = None THEN cursor[s].due ELSE @]
      <4>1. scheduler.op.at < Planned(s).due
        BY <3>1, <3>4 DEF SlotInv, PlansAreAhead, PlanIsAhead
      <4>2. cursor[s].due < Planned(s).due
        BY <3>4, <4>1
      <4>3. HasCursor(s)
        <5>1. Planned(s).rev > 0
          BY <3>1, <3>4 DEF Shape, PlansAreComplete
        <5> QED BY <3>4, <5>1 DEF HasCursor, NoCursor
      <4>4. /\ cursor'[s].due = Planned(s).due
            /\ cursor'[s].missed = IF cursor[s].missed = None THEN cursor[s].due
                                   ELSE cursor[s].missed
        BY <3>1, <3>4, ShapeNow DEF Plans
      <4>5. ASSUME NEW i \in RunIds, run[i].id = s
            PROVE  run[i].slot < Planned(s).due /\ run[i].slot # cursor'[s].missed
        BY <3>2, <4>2, <4>3, <4>4, <4>5 DEF CursorIsAhead
      <4>6. cursor'[s].missed < cursor'[s].due
        BY <3>2, <4>2, <4>4 DEF CursorIsAhead
      <4> QED BY <3>1, <4>4, <4>5, <4>6 DEF CursorIsAhead
    <3>5. \/ Reconciled(s) = NoCursor \/ Reconciled(s) = cursor[s]
          \/ /\ Reconciled(s) = Planned(s) /\ Planned(s) # NoCursor
             /\ Planned(s).rev = schedule[s].rev /\ IsActive(s)
             /\ cursor[s].rev # Planned(s).rev
          \/ /\ Planned(s) # NoCursor /\ cursor[s].rev = Planned(s).rev
             /\ cursor[s].due <= scheduler.op.at
             /\ Reconciled(s) = [cursor[s] EXCEPT !.due = Planned(s).due,
                  !.missed = IF @ = None THEN cursor[s].due ELSE @]
      BY DEF Reconciled, Planned
    <3> QED BY <2>1, <2>2, <3>1, <3>3, <3>4, <3>5
  <2>4. ASSUME NEW u \in Ids, Delete(u)
        PROVE  cursor'[s] = cursor[s] \/ cursor'[s] = NoCursor
    BY <2>4, ShapeNow DEF Delete
  <2> QED BY <2>1, <2>2, <2>3, <2>4
<1>3. ASSUME Reconciling', NEW s \in Ids, Planned(s)' # NoCursor PROVE PlanIsAhead(s)'
  <2>1. CASE ListSchedules
    <3> DEFINE plan(u) == IF IsActive(u)
                          THEN [rev |-> schedule[u].rev, missed |-> None,
                                due |-> NextSlot(schedule[u].cron, now)]
                          ELSE NoCursor
    <3>1. scheduler'.op = [step |-> "reconcile", current |-> TRUE, at |-> now,
                           preserve |-> scheduler.pending = "start",
                           planned |-> [u \in Ids |-> plan(u)]]
      BY <2>1 DEF ListSchedules, Shape, Schedulers
    <3> HIDE DEF plan
    <3>2. Planned(s)' = plan(s) /\ scheduler'.op.at = now
      BY <3>1 DEF Planned
    <3>3. IsActive(s)
      BY <1>3, <3>2 DEF plan
    <3>4. /\ Planned(s)'.rev = schedule[s].rev
          /\ Planned(s)'.due = NextSlot(schedule[s].cron, now)
      BY <3>2, <3>3 DEF plan
    <3>5. NextSlot(schedule[s].cron, now) > now /\ NextSlot(schedule[s].cron, now) \in Nat
      BY NextSlotIsAhead, ShapeNow DEF ScheduleRecord
    <3>6. run' = run /\ schedule' = schedule
      BY <2>1 DEF ListSchedules, store
    <3>7. \A i \in RunIds : run[i].slot < Planned(s)'.due
      BY <3>4, <3>5 DEF SlotsArePast
    <3> QED BY <3>2, <3>4, <3>5, <3>6, <3>7 DEF PlanIsAhead
  <2>2. CASE ~ListSchedules
    <3>1. /\ Reconciling /\ ~ReconcileTriggers
          /\ scheduler'.op.at = scheduler.op.at /\ Planned(s)' = Planned(s)
      BY <1>3, <2>2, StepsOfPlans DEF Planned
    <3>2. PlanIsAhead(s)
      BY <1>3, <3>1 DEF SlotInv, PlansAreAhead
    <3>3. schedule'[s].rev \in Nat
      BY DEF Shape, TypeOK
    <3>4. Planned(s).rev <= schedule'[s].rev
      BY <3>2, <3>3, StepsOfSchedules DEF PlanIsAhead
    <3>5. ASSUME Planned(s).rev = schedule'[s].rev, schedule'[s].status # "none",
                 cursor'[s].rev # Planned(s).rev, NEW i \in RunIds, run'[i].id = s
          PROVE  run'[i].slot < Planned(s).due
      <4>1. schedule'[s] = schedule[s]
        BY <3>2, <3>3, <3>5, StepsOfSchedules DEF PlanIsAhead
      <4>2. cursor'[s] = cursor[s]
        <5>1. ASSUME NEW u \in Ids, Delete(u) PROVE u # s
          BY <3>5, <5>1, ShapeNow DEF Delete, Edit, ScheduleRecord
        <5>2. ASSUME NEW u \in Ids, Delete(u) PROVE cursor'[s] = cursor[s]
          BY <5>1, <5>2, ShapeNow DEF Delete
        <5> QED BY <3>1, <5>2
      <4>3. \A k \in RunIds : run[k].id = s => run[k].slot < Planned(s).due
        BY <3>2, <3>5, <4>1, <4>2 DEF PlanIsAhead
      <4>4. Planned(s).due \in Slots
        BY <1>3, <3>1 DEF Shape, PlansAreComplete
      <4> QED BY <3>5, <4>3, <4>4 DEF SlotIsKept
    <3> QED BY <3>1, <3>2, <3>4, <3>5 DEF PlanIsAhead
  <2> QED BY <2>1, <2>2
<1> QED BY <1>1, <1>2, <1>3 DEF SlotInv, CursorsAreAhead, PlansAreAhead


\* A new run stands for a slot of its schedule that no other run stands for;
\* it is decided under the schedule's revision, so no plan that would replace
\* the cursor is under way.
LEMMA SlotsRunStep ==
  ASSUME Shape, Shape', SlotInv, [Next]_vars,
         NEW i \in RunIds, NEW s \in Ids,
         schedule' = schedule,
         cursor[s].rev = schedule[s].rev, HasCursor(s),
         \A u \in Ids \ {s} : cursor'[u] = cursor[u],
         \A k \in RunIds \ {i} : run'[k] = run[k],
         cursor'[s].rev = cursor[s].rev,
         \A k \in RunIds : SlotIsKept(k) \/ (k = i /\ run'[i].id = s),
         ~SlotIsKept(i) =>
           \A k \in RunIds : run[k].id = s => run[k].slot # run'[i].slot,
         CursorIsAhead(s)', ~ListSchedules
  PROVE  SlotInv'
<1> USE Numbers
<1>1. SlotRunsOnce'
  BY DEF SlotInv, SlotRunsOnce, SlotIsKept
<1>2. ASSUME NEW u \in Ids, u # s PROVE CursorIsAhead(u)'
  <2>1. cursor'[u] = cursor[u] /\ CursorIsAhead(u)
    BY <1>2 DEF SlotInv, CursorsAreAhead
  <2>2. HasCursor(u) => cursor[u].due \in Slots
    BY ShapeNow DEF HasCursor
  <2>3. ASSUME HasCursor(u), NEW k \in RunIds, run'[k].id = u PROVE run'[k].slot < cursor[u].due
    BY <1>2, <2>1, <2>2, <2>3 DEF CursorIsAhead, SlotIsKept
  <2>4. ASSUME cursor[u].missed # None, NEW k \in RunIds, run'[k].id = u
        PROVE  run'[k].slot # cursor[u].missed
    BY <1>2, <2>1, <2>4 DEF CursorIsAhead, SlotIsKept
  <2> QED BY <2>1, <2>3, <2>4 DEF CursorIsAhead, HasCursor
<1>3. ASSUME Reconciling', NEW u \in Ids, Planned(u)' # NoCursor PROVE PlanIsAhead(u)'
  <2>1. /\ Reconciling /\ scheduler'.op.at = scheduler.op.at /\ Planned(u)' = Planned(u)
    BY <1>3, StepsOfPlans DEF Planned
  <2>2. PlanIsAhead(u)
    BY <1>3, <2>1 DEF SlotInv, PlansAreAhead
  <2>3. CASE u = s
    BY <2>1, <2>2, <2>3 DEF PlanIsAhead
  <2>4. CASE u # s
    <3>1. Planned(u).due \in Slots
      BY <1>3, <2>1 DEF Shape, PlansAreComplete
    <3>2. cursor'[u] = cursor[u]
      BY <2>4
    <3>3. ASSUME NEW k \in RunIds, run'[k].id = u,
                 \A j \in RunIds : run[j].id = u => run[j].slot < Planned(u).due
          PROVE  run'[k].slot < Planned(u).due
      BY <2>4, <3>1, <3>3 DEF SlotIsKept
    <3> QED BY <2>1, <2>2, <3>2, <3>3 DEF PlanIsAhead
  <2> QED BY <2>3, <2>4
<1> QED BY <1>1, <1>2, <1>3 DEF SlotInv, CursorsAreAhead, PlansAreAhead

\* A claim or a catch-up is over when its transaction has run.
LEMMA JobStops ==
  ASSUME Shape, NEW i \in RunIds, Ended(i) \/ Executes(i)
  PROVE  job'[i].pc \in {"free", "execute"}
<1>1. FreeJob.pc = "free" /\ [job[i] EXCEPT !.pc = "execute", !.seen = "running",
                                !.slot = None, !.next = None].pc = "execute"
  BY ShapeNow DEF FreeJob, JobRecord
<1> QED BY <1>1, ShapeNow DEF Ended, Executes

LEMMA SlotInvStep ==
  ASSUME Shape, Shape', SlotsArePast, SlotInv, [Next]_vars
  PROVE  SlotInv'
<1> USE Numbers
<1>1. ASSUME NEW i \in RunIds, ClaimScheduledRun(i), ~ClaimIsStale(i) PROVE SlotInv'
  <2>0. PICK s \in Ids : s = job[i].id
    BY <1>1, ShapeNow DEF ClaimScheduledRun, JobIsComplete
  <2>1. job[i].pc = "claim" /\ job[i].slot \in Slots /\ job[i].slot < job[i].next
    BY <1>1, ShapeNow DEF ClaimScheduledRun, JobIsComplete, SlotsArePast
  <2>2. /\ schedule[s].rev = job[i].rev /\ cursor[s].rev = job[i].rev
        /\ cursor[s].due = job[i].slot
    BY <1>1, <2>0 DEF ClaimIsStale
  <2>3. HasCursor(s)
    BY <2>1, <2>2 DEF HasCursor, NoCursor
  <2>4. CursorIsAhead(s)
    BY <2>1 DEF SlotInv, CursorsAreAhead
  <2>5. /\ run'[i].id = s /\ run'[i].slot = job[i].slot
        /\ \A k \in RunIds \ {i} : run'[k] = run[k]
    BY <1>1, <2>0, ShapeNow DEF ClaimScheduledRun, NewRun
  <2>6. /\ cursor'[s].due = job[i].next /\ cursor'[s].rev = cursor[s].rev
        /\ cursor'[s].missed = cursor[s].missed
        /\ \A u \in Ids \ {s} : cursor'[u] = cursor[u]
    BY <1>1, <2>0, ShapeNow DEF ClaimScheduledRun, Plans
  <2>7. \A k \in RunIds : run[k].id = s => run[k].slot < job[i].slot
    BY <2>2, <2>3, <2>4 DEF CursorIsAhead
  <2>8. \A k \in RunIds : run'[k].id = s => run'[k].slot < job[i].next
    BY <2>1, <2>5, <2>7
  <2>9. ASSUME cursor[s].missed # None
        PROVE  /\ cursor[s].missed < job[i].slot
               /\ \A k \in RunIds : run'[k].id = s => run'[k].slot # cursor[s].missed
    BY <2>2, <2>4, <2>5, <2>9 DEF CursorIsAhead
  <2>10. CursorIsAhead(s)'
    BY <2>1, <2>6, <2>8, <2>9 DEF CursorIsAhead
  <2>11. ~ListSchedules /\ schedule' = schedule
    BY <1>1, <2>1, JobStops DEF ClaimScheduledRun, ListSchedules
  <2>12. \A k \in RunIds : SlotIsKept(k) \/ (k = i /\ run'[i].id = s)
    BY <2>5 DEF SlotIsKept
  <2>13. \A k \in RunIds : run[k].id = s => run[k].slot # run'[i].slot
    BY <2>5, <2>7
  <2> QED
    BY <2>2, <2>3, <2>5, <2>6, <2>10, <2>11, <2>12, <2>13, SlotsRunStep
<1>2. ASSUME NEW i \in RunIds, ResolveMissed(i) PROVE SlotInv'
  <2>0. PICK s \in Ids : s = job[i].id
    BY <1>2, ShapeNow DEF ResolveMissed, JobIsComplete
  <2>1. job[i].pc = "resolve" /\ job[i].slot \in Slots
    BY <1>2, ShapeNow DEF ResolveMissed, JobIsComplete
  <2> DEFINE fresh == /\ cursor[s].rev = job[i].rev /\ schedule[s].rev = job[i].rev
                      /\ cursor[s].missed = job[i].slot
  <2>2. CASE cursor' = cursor /\ run' = run
    BY <2>2, SlotsKeptStep DEF SlotIsKept
  <2>3. CASE /\ fresh /\ cursor' = [cursor EXCEPT ![s].missed = None]
             /\ run' = run \/ \E overlap \in BOOLEAN :
                                run' = [run EXCEPT ![i] = NewRun(i, overlap)]
    <3>1. cursor[s].missed \in Slots /\ cursor[s].missed # None
      BY <2>1, <2>3
    <3>2. HasCursor(s)
      BY <3>1 DEF HasCursor, NoCursor
    <3>3. CursorIsAhead(s)
      BY <2>1 DEF SlotInv, CursorsAreAhead
    <3>4. /\ run'[i] = run[i] \/ (run'[i].id = s /\ run'[i].slot = job[i].slot)
          /\ \A k \in RunIds \ {i} : run'[k] = run[k]
      BY <2>0, <2>3, ShapeNow DEF NewRun
    <3>5. /\ cursor'[s].due = cursor[s].due /\ cursor'[s].rev = cursor[s].rev
          /\ cursor'[s].missed = None
          /\ \A u \in Ids \ {s} : cursor'[u] = cursor[u]
      BY <2>1, <2>3, ShapeNow DEF Plans
    <3>6. \A k \in RunIds : run[k].id = s =>
            run[k].slot < cursor[s].due /\ run[k].slot # job[i].slot
      BY <2>3, <3>1, <3>2, <3>3 DEF CursorIsAhead
    <3>7. \A k \in RunIds : run'[k].id = s => run'[k].slot < cursor[s].due
      BY <2>3, <3>1, <3>3, <3>4, <3>6 DEF CursorIsAhead
    <3>8. CursorIsAhead(s)'
      BY <3>5, <3>7 DEF CursorIsAhead
    <3>9. ~ListSchedules /\ schedule' = schedule
      BY <1>2, <2>1, JobStops DEF ResolveMissed, ListSchedules
    <3>10. \A k \in RunIds : SlotIsKept(k) \/ (k = i /\ run'[i].id = s)
      BY <3>4 DEF SlotIsKept
    <3>11. ASSUME ~SlotIsKept(i), NEW k \in RunIds, run[k].id = s
           PROVE  run[k].slot # run'[i].slot
      BY <3>4, <3>6, <3>11 DEF SlotIsKept
    <3> QED
      BY <2>3, <3>2, <3>4, <3>5, <3>8, <3>9, <3>10, <3>11, SlotsRunStep
  <2>4. /\ fresh \/ (cursor' = cursor /\ run' = run)
        /\ cursor' = cursor \/ cursor' = [cursor EXCEPT ![s].missed = None]
        /\ \/ run' = run
           \/ \E overlap \in BOOLEAN : run' = [run EXCEPT ![i] = NewRun(i, overlap)]
    BY <1>2, <2>0 DEF ResolveMissed, HasActiveRun
  <2>5. fresh => (cursor' = [cursor EXCEPT ![s].missed = None] \/ (cursor' = cursor /\ run' = run))
    BY <1>2, <2>0 DEF ResolveMissed
  <2> QED BY <2>2, <2>3, <2>4, <2>5
<1>3. CASE \A i \in RunIds : SlotIsKept(i)
  BY <1>1, <1>2, <1>3, StepsOfCursors, SlotsKeptStep
<1> QED BY <1>1, <1>2, <1>3, StepsOfSlots

(* Of each schedule, a slot is run at most once: not by two timers that    *)
(* were armed for it, not by the timer and the catch-up after a restart,   *)
(* and not again under a later revision.                                   *)
THEOREM EachSlotRunsOnce == Spec => []SlotRunsOnce
<1>1. Init => SlotInv
  BY DEF Init, SlotInv, CursorsAreAhead, CursorIsAhead, PlansAreAhead, SlotRunsOnce,
     HasCursor, NoCursor, None, Off, NoOp, Reconciling
<1>2. Shape /\ Shape' /\ SlotsArePast /\ SlotInv /\ [Next]_vars => SlotInv'
  BY SlotInvStep
<1>3. SlotInv => SlotRunsOnce
  BY DEF SlotInv
<1> QED BY <1>1, <1>2, <1>3, ShapeHolds, SlotsArePastHolds, PTL DEF Spec



-----------------------------------------------------------------------------
(* A run that is shown as running.                                         *)

\* The transaction of a call: it writes its run or gives up.
Executing(j) == [j EXCEPT !.pc = "execute", !.seen = "running", !.slot = None, !.next = None]

Decides(i) ==
  /\ job[i].pc \in {"claim", "start", "resolve"} /\ schedule' = schedule
  /\ \/ /\ job'[i] = FreeJob
        /\ run'[i] = run[i] \/ run'[i] = NewRun(i, TRUE)
     \/ job'[i] = Executing(job[i]) /\ run'[i] = NewRun(i, FALSE)

\* An execution reports: it waits, it is over, or nobody takes its report.
Reports(i) ==
  /\ job[i].pc = "execute"
  /\ \/ /\ ~Applies(i) /\ run'[i] = run[i] /\ job'[i] = FreeJob /\ schedule' = schedule
     \/ /\ run'[i] = [run[i] EXCEPT !.status = "waiting"] /\ run[i].status = "running"
        /\ job'[i] = [job[i] EXCEPT !.seen = "waiting"]
     \/ /\ run'[i] = [run[i] EXCEPT !.status = "finished"] /\ run[i].status # "none"
        /\ job'[i] = FreeJob

\* The answer to a waiting run ends it, whoever executes it.
IsAnswered(i) ==
  /\ run[i].status = "waiting" /\ run'[i] = [run[i] EXCEPT !.status = "finished"]
  /\ job'[i] = job[i]

LEMMA StepsOfRuns ==
  ASSUME Shape, [Next]_vars, NEW i \in RunIds
  PROVE  \/ run'[i] = run[i] /\ job'[i] = job[i]
         \/ Begins(i) \/ Decides(i) \/ Reports(i) \/ IsAnswered(i)
         \/ RecoverInterrupted \/ Restart
<1> USE ShapeNow
<1> DEFINE Same == run'[i] = run[i] /\ job'[i] = job[i]
           Goal == \/ Same \/ Begins(i) \/ Decides(i) \/ Reports(i) \/ IsAnswered(i)
                   \/ RecoverInterrupted \/ Restart
<1>1. ASSUME NEW k \in RunIds, ClaimScheduledRun(k) PROVE Goal
  <2>1. CASE k = i
    <3>1. job[i].pc = "claim" /\ schedule' = schedule
      BY <1>1, <2>1 DEF ClaimScheduledRun
    <3>2. \/ Ended(i) /\ run' = run
          \/ Ended(i) /\ run' = [run EXCEPT ![i] = NewRun(i, TRUE)]
          \/ Executes(i) /\ run' = [run EXCEPT ![i] = NewRun(i, FALSE)]
      BY <1>1, <2>1 DEF ClaimScheduledRun, HasActiveRun
    <3>3. Decides(i)
      BY <3>1, <3>2 DEF Decides, Ended, Executes, Executing
    <3> QED BY <3>3
  <2>2. CASE k # i
    <3>1. job' = [job EXCEPT ![k] = job'[k]] /\ run' = [run EXCEPT ![k] = run'[k]]
      BY <1>1 DEF ClaimScheduledRun, Ended, Executes
    <3> QED BY <2>2, <3>1
  <2> QED BY <2>1, <2>2
<1>2. ASSUME NEW k \in RunIds, StartRun(k) PROVE Goal
  <2>1. CASE k = i
    <3>1. Decides(i)
      BY <1>2, <2>1 DEF StartRun, Decides, Ended, Executes, Executing
    <3> QED BY <3>1
  <2>2. CASE k # i
    BY <1>2, <2>2 DEF StartRun, Ended, Executes
  <2> QED BY <2>1, <2>2
<1>3. ASSUME NEW k \in RunIds, ResolveMissed(k) PROVE Goal
  <2>1. CASE k = i
    <3>1. job[i].pc = "resolve" /\ schedule' = schedule
      BY <1>3, <2>1 DEF ResolveMissed
    <3>2. \/ Ended(i) /\ run' = run
          \/ Ended(i) /\ run' = [run EXCEPT ![i] = NewRun(i, TRUE)]
          \/ Executes(i) /\ run' = [run EXCEPT ![i] = NewRun(i, FALSE)]
      BY <1>3, <2>1 DEF ResolveMissed, HasActiveRun
    <3>3. Decides(i)
      BY <3>1, <3>2 DEF Decides, Ended, Executes, Executing
    <3> QED BY <3>3
  <2>2. CASE k # i
    <3>1. /\ Ended(k) \/ Executes(k)
          /\ run' = run \/ \E overlap : run' = [run EXCEPT ![k] = NewRun(k, overlap)]
      BY <1>3 DEF ResolveMissed
    <3> QED BY <2>2, <3>1 DEF Ended, Executes
  <2> QED BY <2>1, <2>2
<1>4. ASSUME NEW k \in RunIds, RequirePermission(k) PROVE Goal
  <2>1. CASE k = i
    <3>1. Reports(i)
      BY <1>4, <2>1 DEF RequirePermission, Reports, Ended, Applies
    <3> QED BY <3>1
  <2>2. CASE k # i
    BY <1>4, <2>2 DEF RequirePermission, Ended
  <2> QED BY <2>1, <2>2
<1>5. ASSUME NEW k \in RunIds, Finish(k) PROVE Goal
  <2>1. CASE k = i
    <3>1. Applies(i) => run[i].status # "none"
      BY <1>5, <2>1 DEF Finish, Applies, JobIsComplete, Active
    <3>2. Reports(i)
      BY <1>5, <2>1, <3>1 DEF Finish, Reports, Ended
    <3> QED BY <3>2
  <2>2. CASE k # i
    BY <1>5, <2>2 DEF Finish, Ended
  <2> QED BY <2>1, <2>2
<1>6. ASSUME NEW k \in RunIds, ReconcilePermission(k) PROVE Goal
  <2>1. CASE k = i
    <3>1. IsAnswered(i)
      BY <1>6, <2>1 DEF ReconcilePermission, IsAnswered
    <3> QED BY <3>1
  <2>2. CASE k # i
    BY <1>6, <2>2 DEF ReconcilePermission
  <2> QED BY <2>1, <2>2
<1>7. ASSUME NEW j, j.pc \in {"claim", "start", "resolve"}, FreeIds # {},
             job' = [job EXCEPT ![NewId] = j], run' = run
      PROVE  Goal
  <2>1. CASE i = NewId
    <3>1. job'[i] = j
      BY <1>7, <2>1
    <3> QED BY <1>7, <3>1, StepsOfJobs
  <2>2. CASE i # NewId
    BY <1>7, <2>2
  <2> QED BY <2>1, <2>2
<1>8. CASE TimerFires
  <2> DEFINE s == scheduler.timer.id
             j == [FreeJob EXCEPT !.pc = "claim", !.kind = "cron", !.id = s,
                    !.rev = scheduler.timer.rev, !.slot = scheduler.timer.due,
                    !.next = NextSlot(schedule[s].cron, now)]
  <2>1. run' = run /\ (job' = job \/ (FreeIds # {} /\ job' = [job EXCEPT ![NewId] = j]))
    BY <1>8 DEF TimerFires, store
  <2>2. j.pc = "claim"
    BY DEF FreeJob
  <2> HIDE DEF j
  <2> QED BY <1>7, <2>1, <2>2
<1>9. ASSUME NEW m \in missed, RecoverMissed(m) PROVE Goal
  <2> DEFINE j == [FreeJob EXCEPT !.pc = "resolve", !.kind = "missed",
                     !.id = m.id, !.rev = m.rev, !.slot = m.slot]
  <2>1. run' = run /\ (job' = job \/ (FreeIds # {} /\ job' = [job EXCEPT ![NewId] = j]))
    BY <1>9 DEF RecoverMissed, store
  <2>2. j.pc = "resolve"
    BY DEF FreeJob
  <2> HIDE DEF j
  <2> QED BY <1>7, <2>1, <2>2
<1>10. ASSUME NEW s \in Ids, RunNow(s) PROVE Goal
  <2> DEFINE j == [FreeJob EXCEPT !.pc = "start", !.id = s, !.rev = schedule[s].rev]
  <2>1. run' = run /\ (job' = job \/ (FreeIds # {} /\ job' = [job EXCEPT ![NewId] = j]))
    BY <1>10 DEF RunNow, store
  <2>2. j.pc = "start"
    BY DEF FreeJob
  <2> HIDE DEF j
  <2> QED BY <1>7, <2>1, <2>2
<1>11. CASE SchedulerStep
  <2>1. ASSUME ListSchedules \/ ReconcileTriggers \/ ArmNext \/ ContinueLongDelay PROVE Same
    BY <2>1 DEF ListSchedules, ReconcileTriggers, ArmNext, ContinueLongDelay, store
  <2> QED BY <1>1, <1>8, <1>11, <2>1 DEF SchedulerStep
<1>12. CASE StartupStep
  <2>1. ASSUME StartScheduler \/ ListMissed \/ OpenWindow PROVE Same
    BY <2>1 DEF StartScheduler, ListMissed, OpenWindow, store
  <2> QED BY <1>3, <1>9, <1>12, <2>1 DEF StartupStep
<1>13. CASE RunStep
  BY <1>2, <1>4, <1>5, <1>6, <1>13 DEF RunStep
<1>14. CASE UserStep
  <2>1. ASSUME NEW s \in Ids, Create(s) \/ Update(s) \/ PauseOrResume(s) \/ Delete(s)
        PROVE  Same
    BY <2>1 DEF Create, Update, PauseOrResume, Delete, Edit
  <2> QED BY <1>10, <1>14, <2>1 DEF UserStep
<1>15. CASE Restart \/ Tick \/ UNCHANGED vars
  BY <1>15 DEF Tick, vars, store
<1> QED BY <1>11, <1>12, <1>13, <1>14, <1>15 DEF Next

LEMMA StepsOfPhase ==
  ASSUME [Next]_vars, phase = "interrupt"
  PROVE  phase' = "interrupt" \/ RecoverInterrupted
<1>1. CASE SchedulerStep
  BY <1>1 DEF SchedulerStep, ListSchedules, ReconcileTriggers, ArmNext,
     ContinueLongDelay, TimerFires, ClaimScheduledRun
<1>2. CASE StartupStep
  BY <1>2 DEF StartupStep, StartScheduler, ListMissed, OpenWindow, RecoverMissed,
     ResolveMissed
<1>3. CASE RunStep
  BY <1>3 DEF RunStep, StartRun, RequirePermission, Finish, ReconcilePermission
<1>4. CASE UserStep
  BY <1>4 DEF UserStep, RunNow, Create, Update, PauseOrResume, Delete, Edit
<1>5. CASE Restart \/ Tick \/ UNCHANGED vars
  BY <1>5 DEF Restart, Tick, vars
<1> QED BY <1>1, <1>2, <1>3, <1>4, <1>5 DEF Next


\* A cursor changes its revision only with a reconciliation or a deletion.
LEMMA StepsOfCursorRevisions ==
  ASSUME Shape, [Next]_vars, ~ReconcileTriggers, NEW s \in Ids
  PROVE  \/ cursor'[s].rev = cursor[s].rev
         \/ cursor'[s] = NoCursor /\ schedule'[s].status = "none"
<1>1. ASSUME NEW i \in RunIds, ClaimScheduledRun(i) PROVE cursor'[s].rev = cursor[s].rev
  <2>1. \/ cursor' = cursor \/ cursor' = [cursor EXCEPT ![job[i].id].due = job[i].next]
    BY <1>1 DEF ClaimScheduledRun
  <2> QED BY <2>1, ShapeNow DEF Plans
<1>2. ASSUME NEW i \in RunIds, ResolveMissed(i) PROVE cursor'[s].rev = cursor[s].rev
  <2>1. \/ cursor' = cursor \/ cursor' = [cursor EXCEPT ![job[i].id].missed = None]
    BY <1>2 DEF ResolveMissed
  <2> QED BY <2>1, ShapeNow DEF Plans
<1>3. ASSUME NEW u \in Ids, Delete(u)
      PROVE  \/ cursor'[s] = cursor[s]
             \/ cursor'[s] = NoCursor /\ schedule'[s].status = "none"
  BY <1>3, ShapeNow DEF Delete, Edit, ScheduleRecord
<1> QED BY <1>1, <1>2, <1>3, StepsOfCursors

LEMMA RevisionsAreReadStep ==
  ASSUME Shape, Shape', RevisionsAreRead, [Next]_vars
  PROVE  RevisionsAreRead'
<1> USE Numbers
<1>1. ASSUME NEW s \in Ids
      PROVE  schedule'[s].rev \in Nat /\ schedule[s].rev <= schedule'[s].rev
  <2>1. schedule'[s].rev \in Nat
    BY DEF Shape, TypeOK
  <2> QED BY <2>1, StepsOfSchedules
<1>2. ASSUME NEW s \in Ids PROVE cursor'[s].rev <= schedule'[s].rev
  <2>1. cursor[s].rev <= schedule[s].rev
    BY DEF RevisionsAreRead
  <2>2. CASE cursor'[s].rev = cursor[s].rev
    BY <1>1, <2>1, <2>2
  <2>3. CASE cursor'[s] = NoCursor
    BY <1>1, <2>3 DEF NoCursor
  <2>4. CASE ReconcileTriggers
    <3>1. Reconciling /\ cursor'[s] = Reconciled(s)
      BY <2>4 DEF ReconcileTriggers, Reconciling
    <3>2. Reconciled(s) = Planned(s) \/ Reconciled(s) = NoCursor
          \/ Reconciled(s).rev = cursor[s].rev
      BY ShapeNow DEF Reconciled, Planned, Plans
    <3>3. Planned(s).rev <= schedule[s].rev
      BY <3>1 DEF RevisionsAreRead
    <3> QED BY <1>1, <2>2, <2>3, <3>1, <3>2, <3>3
  <2> QED BY <2>2, <2>3, <2>4, StepsOfCursorRevisions
<1>3. ASSUME Reconciling', NEW s \in Ids PROVE Planned(s)'.rev <= schedule'[s].rev
  <2>1. CASE ListSchedules
    <3> DEFINE plan(u) == IF IsActive(u)
                          THEN [rev |-> schedule[u].rev, missed |-> None,
                                due |-> NextSlot(schedule[u].cron, now)]
                          ELSE NoCursor
    <3>1. scheduler'.op = [step |-> "reconcile", current |-> TRUE, at |-> now,
                           preserve |-> scheduler.pending = "start",
                           planned |-> [u \in Ids |-> plan(u)]]
      BY <2>1 DEF ListSchedules, Shape, Schedulers
    <3>2. plan(s).rev = schedule[s].rev \/ plan(s).rev = 0
      BY DEF NoCursor
    <3> HIDE DEF plan
    <3>3. Planned(s)' = plan(s)
      BY <3>1 DEF Planned
    <3> QED BY <1>1, <3>2, <3>3
  <2>2. CASE ~ListSchedules
    <3>1. Reconciling /\ Planned(s)' = Planned(s)
      BY <1>3, <2>2, StepsOfPlans DEF Planned
    <3>2. Planned(s).rev <= schedule[s].rev
      BY <3>1 DEF RevisionsAreRead
    <3> QED BY <1>1, <3>1, <3>2
  <2> QED BY <2>1, <2>2
<1>4. ASSUME NEW i \in RunIds, job[i].pc # "free",
             job'[i].id = job[i].id, job'[i].rev = job[i].rev
      PROVE  job'[i].rev <= schedule'[job'[i].id].rev
  <2>1. PICK s \in Ids : s = job[i].id
    BY <1>4, ShapeNow DEF JobIsComplete
  <2>2. job[i].rev <= schedule[s].rev
    BY <1>4, <2>1 DEF RevisionsAreRead
  <2> QED BY <1>1, <1>4, <2>1, <2>2
<1>5. ASSUME NEW i \in RunIds, run[i].status # "none",
             run'[i].id = run[i].id, run'[i].rev = run[i].rev
      PROVE  run'[i].rev <= schedule'[run'[i].id].rev
  <2>1. PICK s \in Ids : s = run[i].id
    BY <1>5, ShapeNow
  <2>2. run[i].rev <= schedule[s].rev
    BY <1>5, <2>1 DEF RevisionsAreRead
  <2> QED BY <1>1, <1>5, <2>1, <2>2
<1>6. ASSUME NEW i \in RunIds, job[i].pc # "free",
             run'[i].id = job[i].id, run'[i].rev = job[i].rev
      PROVE  run'[i].rev <= schedule'[run'[i].id].rev
  <2>1. PICK s \in Ids : s = job[i].id
    BY <1>6, ShapeNow DEF JobIsComplete
  <2>2. job[i].rev <= schedule[s].rev
    BY <1>6, <2>1 DEF RevisionsAreRead
  <2> QED BY <1>1, <1>6, <2>1, <2>2
<1> DEFINE Right(i) ==
      /\ job'[i].pc # "free" => job'[i].rev <= schedule'[job'[i].id].rev
      /\ run'[i].status # "none" => run'[i].rev <= schedule'[run'[i].id].rev
<1>7. ASSUME NEW i \in RunIds PROVE Right(i)
  <2> USE ShapeNow
  <2>1. FreeJob.pc = "free"
    BY DEF FreeJob
  <2>2. ASSUME NEW st \in {"waiting", "finished", "interrupted"},
               run'[i] = [run[i] EXCEPT !.status = st],
               run[i].status # "none"
        PROVE  run'[i].rev <= schedule'[run'[i].id].rev
    <3>1. run'[i].id = run[i].id /\ run'[i].rev = run[i].rev
      BY <2>2 DEF RunRecord
    <3> QED BY <1>5, <2>2, <3>1
  <2>3. CASE run'[i] = run[i] /\ job'[i] = job[i]
    BY <1>4, <1>5, <2>3
  <2>4. CASE Begins(i)
    <3>1. job'[i].rev \in Nat
      BY DEF Shape, TypeOK
    <3>2. run' = run /\ schedule' = schedule /\ job'[i].rev = schedule[job'[i].id].rev
      BY <2>4 DEF Begins, store
    <3> QED BY <1>5, <3>1, <3>2
  <2>5. CASE Decides(i)
    <3>1. /\ NewRun(i, TRUE).id = job[i].id /\ NewRun(i, TRUE).rev = job[i].rev
          /\ NewRun(i, FALSE).id = job[i].id /\ NewRun(i, FALSE).rev = job[i].rev
      BY DEF NewRun
    <3>2. Executing(job[i]).id = job[i].id /\ Executing(job[i]).rev = job[i].rev
      BY DEF Executing, JobRecord
    <3>3. CASE job'[i] = FreeJob /\ run'[i] = run[i]
      BY <1>5, <2>1, <3>3
    <3>4. CASE job'[i] = FreeJob /\ run'[i] = NewRun(i, TRUE)
      BY <1>6, <2>1, <2>5, <3>1, <3>4 DEF Decides
    <3>5. CASE job'[i] = Executing(job[i]) /\ run'[i] = NewRun(i, FALSE)
      BY <1>4, <1>6, <2>5, <3>1, <3>2, <3>5 DEF Decides
    <3> QED BY <2>5, <3>3, <3>4, <3>5 DEF Decides
  <2>6. CASE Reports(i)
    <3>1. CASE job'[i] = FreeJob /\ run'[i] = run[i]
      BY <1>5, <2>1, <3>1
    <3>2. CASE /\ run'[i] = [run[i] EXCEPT !.status = "waiting"] /\ run[i].status = "running"
               /\ job'[i] = [job[i] EXCEPT !.seen = "waiting"]
      <4>1. job'[i].id = job[i].id /\ job'[i].rev = job[i].rev
        BY <3>2 DEF JobRecord
      <4>2. run'[i].rev <= schedule'[run'[i].id].rev
        BY <2>2, <3>2
      <4> QED BY <1>4, <2>6, <4>1, <4>2 DEF Reports
    <3>3. CASE /\ run'[i] = [run[i] EXCEPT !.status = "finished"] /\ run[i].status # "none"
               /\ job'[i] = FreeJob
      <4>1. run'[i].rev <= schedule'[run'[i].id].rev
        BY <2>2, <3>3
      <4> QED BY <2>1, <3>3, <4>1
    <3> QED BY <2>6, <3>1, <3>2, <3>3 DEF Reports
  <2>7. CASE IsAnswered(i)
    <3>1. run'[i].rev <= schedule'[run'[i].id].rev
      BY <2>2, <2>7 DEF IsAnswered
    <3> QED BY <1>4, <2>7, <3>1 DEF IsAnswered
  <2>8. CASE RecoverInterrupted
    <3>1. job' = job
      BY <2>8 DEF RecoverInterrupted
    <3>2. run'[i] = run[i] \/ (run[i].status = "running"
                                /\ run'[i] = [run[i] EXCEPT !.status = "interrupted"])
      BY <2>8 DEF RecoverInterrupted, DeadRuns
    <3>3. CASE run'[i] = run[i]
      BY <1>4, <1>5, <3>1, <3>3
    <3>4. CASE run[i].status = "running" /\ run'[i] = [run[i] EXCEPT !.status = "interrupted"]
      <4>1. run'[i].rev <= schedule'[run'[i].id].rev
        BY <2>2, <3>4
      <4> QED BY <1>4, <3>1, <4>1
    <3> QED BY <3>2, <3>3, <3>4
  <2>9. CASE Restart
    BY <1>5, <2>1, <2>9 DEF Restart, store
  <2> QED BY <2>3, <2>4, <2>5, <2>6, <2>7, <2>8, <2>9, StepsOfRuns
<1> QED BY <1>2, <1>3, <1>7 DEF RevisionsAreRead

LEMMA JobsOwnTheirRunsStep ==
  ASSUME Shape, JobsOwnTheirRuns, [Next]_vars
  PROVE  JobsOwnTheirRuns'
<1> DEFINE Owns(i) ==
      /\ job'[i].pc \in {"claim", "start", "resolve"} => run'[i].status = "none"
      /\ job'[i].pc = "execute" =>
           /\ run'[i].status # "none"
           /\ job'[i].id = run'[i].id /\ job'[i].rev = run'[i].rev
           /\ run'[i].status = "running" => job'[i].seen = "running"
<1>1. ASSUME NEW i \in RunIds PROVE Owns(i)
  <2> USE ShapeNow
  <2>1. FreeJob.pc = "free"
    BY DEF FreeJob
  <2>2. CASE run'[i] = run[i] /\ job'[i] = job[i]
    BY <2>2 DEF JobsOwnTheirRuns
  <2>3. CASE Begins(i)
    BY <2>3 DEF Begins, store
  <2>4. CASE Decides(i)
    <3>1. CASE job'[i] = FreeJob
      BY <2>1, <3>1
    <3>2. CASE job'[i] = Executing(job[i]) /\ run'[i] = NewRun(i, FALSE)
      <4>1. /\ NewRun(i, FALSE).id = job[i].id /\ NewRun(i, FALSE).rev = job[i].rev
            /\ NewRun(i, FALSE).status = "running"
        BY DEF NewRun
      <4>2. /\ Executing(job[i]).id = job[i].id /\ Executing(job[i]).rev = job[i].rev
            /\ Executing(job[i]).seen = "running" /\ Executing(job[i]).pc = "execute"
        BY DEF Executing, JobRecord
      <4> QED BY <3>2, <4>1, <4>2
    <3> QED BY <2>4, <3>1, <3>2 DEF Decides
  <2>5. CASE Reports(i)
    <3>1. CASE job'[i] = FreeJob
      BY <2>1, <3>1
    <3>2. CASE /\ run'[i] = [run[i] EXCEPT !.status = "waiting"]
               /\ job'[i] = [job[i] EXCEPT !.seen = "waiting"]
      <4>1. /\ run'[i].id = run[i].id /\ run'[i].rev = run[i].rev
            /\ run'[i].status = "waiting"
        BY <3>2 DEF RunRecord
      <4>2. /\ job'[i].id = job[i].id /\ job'[i].rev = job[i].rev
            /\ job'[i].pc = job[i].pc
        BY <3>2 DEF JobRecord
      <4> QED BY <2>5, <4>1, <4>2 DEF Reports, JobsOwnTheirRuns
    <3> QED BY <2>5, <3>1, <3>2 DEF Reports
  <2>6. CASE IsAnswered(i)
    <3>1. /\ run'[i].id = run[i].id /\ run'[i].rev = run[i].rev
          /\ run'[i].status = "finished" /\ run[i].status # "none"
      BY <2>6 DEF IsAnswered, RunRecord
    <3> QED BY <2>6, <3>1 DEF IsAnswered, JobsOwnTheirRuns
  <2>7. CASE RecoverInterrupted
    <3>1. job' = job
      BY <2>7 DEF RecoverInterrupted
    <3>2. run'[i] = run[i] \/ (run[i].status = "running"
                                /\ run'[i] = [run[i] EXCEPT !.status = "interrupted"])
      BY <2>7 DEF RecoverInterrupted, DeadRuns
    <3>3. CASE /\ run[i].status = "running"
               /\ run'[i] = [run[i] EXCEPT !.status = "interrupted"]
      <4>1. /\ run'[i].id = run[i].id /\ run'[i].rev = run[i].rev
            /\ run'[i].status = "interrupted"
        BY <3>3 DEF RunRecord
      <4> QED BY <3>1, <3>3, <4>1 DEF JobsOwnTheirRuns
    <3> QED BY <2>2, <3>1, <3>2, <3>3
  <2>8. CASE Restart
    BY <2>1, <2>8 DEF Restart
  <2> QED BY <2>2, <2>3, <2>4, <2>5, <2>6, <2>7, <2>8, StepsOfRuns
<1> QED BY <1>1 DEF JobsOwnTheirRuns

LEMMA RunningIsExecutedStep ==
  ASSUME Shape, Shape', ExecutionInv, [Next]_vars
  PROVE  RunningIsExecuted'
<1> USE Numbers DEF ExecutionInv
<1>1. SUFFICES ASSUME NEW i \in RunIds, run'[i].status = "running", phase' # "interrupt"
               PROVE  \/ job'[i].pc = "execute"
                      \/ schedule'[run'[i].id].rev # run'[i].rev
                      \/ schedule'[run'[i].id].status = "none"
  BY DEF RunningIsExecuted
<1> USE ShapeNow
<1>2. ASSUME run'[i] = run[i], phase # "interrupt", job[i].pc = "execute" => job'[i].pc = "execute"
      PROVE  \/ job'[i].pc = "execute"
             \/ schedule'[run'[i].id].rev # run'[i].rev
             \/ schedule'[run'[i].id].status = "none"
  <2>1. PICK s \in Ids : s = run[i].id
    BY <1>1, <1>2
  <2>2. run[i].rev <= schedule[s].rev /\ schedule'[s].rev \in Nat
    BY <1>1, <1>2, <2>1 DEF RevisionsAreRead, Shape, TypeOK
  <2>3. \/ job[i].pc = "execute" \/ schedule[s].rev # run[i].rev
        \/ schedule[s].status = "none"
    BY <1>1, <1>2, <2>1 DEF RunningIsExecuted
  <2> QED BY <1>2, <2>1, <2>2, <2>3, StepsOfSchedules
<1>3. CASE RecoverInterrupted
  <2>1. run'[i] = IF i \in DeadRuns THEN [run[i] EXCEPT !.status = "interrupted"] ELSE run[i]
    BY <1>3 DEF RecoverInterrupted
  <2>2. CASE i \in DeadRuns
    BY <1>1, <2>1, <2>2 DEF RunRecord
  <2>3. CASE i \notin DeadRuns
    BY <1>1, <2>1, <2>3 DEF DeadRuns
  <2> QED BY <2>2, <2>3
<1>4. CASE Restart
  BY <1>1, <1>4 DEF Restart
<1>5. CASE ~RecoverInterrupted /\ ~Restart
  <2>1. phase # "interrupt"
    BY <1>1, <1>5, StepsOfPhase
  <2>2. CASE run'[i] = run[i] /\ job'[i] = job[i]
    BY <1>2, <2>1, <2>2
  <2>3. CASE Begins(i)
    BY <1>1, <2>3 DEF Begins, store
  <2>4. CASE Decides(i)
    <3>1. CASE run'[i] = run[i]
      BY <1>1, <2>4, <3>1 DEF Decides, JobsOwnTheirRuns
    <3>2. CASE run'[i] = NewRun(i, TRUE)
      BY <1>1, <3>2 DEF NewRun
    <3>3. CASE job'[i] = Executing(job[i])
      BY <3>3 DEF Executing, JobRecord
    <3> QED BY <2>4, <3>1, <3>2, <3>3 DEF Decides
  <2>5. CASE Reports(i)
    <3>1. CASE ~Applies(i) /\ run'[i] = run[i] /\ schedule' = schedule
      <4>1. /\ job[i].id = run[i].id /\ job[i].rev = run[i].rev
            /\ job[i].seen = "running"
        BY <1>1, <2>5, <3>1 DEF Reports, JobsOwnTheirRuns
      <4>2. schedule[run[i].id].rev # run[i].rev \/ schedule[run[i].id].status = "none"
        BY <1>1, <3>1, <4>1 DEF Applies
      <4> QED BY <3>1, <4>2
    <3>2. CASE run'[i] = [run[i] EXCEPT !.status = "waiting"]
      BY <1>1, <3>2 DEF RunRecord
    <3>3. CASE run'[i] = [run[i] EXCEPT !.status = "finished"]
      BY <1>1, <3>3 DEF RunRecord
    <3> QED BY <2>5, <3>1, <3>2, <3>3 DEF Reports
  <2>6. CASE IsAnswered(i)
    BY <1>1, <2>6 DEF IsAnswered, RunRecord
  <2> QED BY <1>5, <2>2, <2>3, <2>4, <2>5, <2>6, StepsOfRuns
<1> QED BY <1>3, <1>4, <1>5

LEMMA ExecutionInvHolds == Spec => []ExecutionInv
<1>1. Init => ExecutionInv
  BY DEF Init, ExecutionInv, RevisionsAreRead, JobsOwnTheirRuns, RunningIsExecuted,
     NoCursor, FreeJob, Off, NoOp, Reconciling
<1>2. Shape /\ Shape' /\ ExecutionInv /\ [Next]_vars => ExecutionInv'
  BY RevisionsAreReadStep, JobsOwnTheirRunsStep, RunningIsExecutedStep DEF ExecutionInv
<1> QED BY <1>1, <1>2, ShapeHolds, PTL DEF Spec

(* Once a startup has recovered, a run that the store shows as running is  *)
(* executed by a call under way, or its schedule was edited or deleted     *)
(* since the run read it (finishRun then refuses every result).            *)
THEOREM RunningRunsAreExecuted == Spec => []RunningIsExecuted
<1>1. ExecutionInv => RunningIsExecuted
  BY DEF ExecutionInv
<1> QED BY <1>1, ExecutionInvHolds, PTL



-----------------------------------------------------------------------------
(* No slot is dropped.                                                     *)

LEMMA PlansFollowCursorsStep ==
  ASSUME Shape, Shape', RevisionsAreRead, PlansFollowCursors, [Next]_vars
  PROVE  PlansFollowCursors'
<1> USE Numbers
<1>1. SUFFICES ASSUME Reconciling', NEW s \in Ids, IsActive(s)',
                      cursor'[s].rev = schedule'[s].rev
               PROVE  Planned(s)'.rev = schedule'[s].rev
  BY DEF PlansFollowCursors
<1>2. CASE ListSchedules
  <2> DEFINE plan(u) == IF IsActive(u)
                        THEN [rev |-> schedule[u].rev, missed |-> None,
                              due |-> NextSlot(schedule[u].cron, now)]
                        ELSE NoCursor
  <2>1. scheduler'.op = [step |-> "reconcile", current |-> TRUE, at |-> now,
                         preserve |-> scheduler.pending = "start",
                         planned |-> [u \in Ids |-> plan(u)]]
    BY <1>2 DEF ListSchedules, Shape, Schedulers
  <2>2. schedule' = schedule
    BY <1>2 DEF ListSchedules, store
  <2>3. plan(s).rev = schedule[s].rev
    BY <1>1, <2>2 DEF IsActive
  <2> HIDE DEF plan
  <2> QED BY <2>1, <2>2, <2>3 DEF Planned
<1>3. CASE ~ListSchedules
  <2>1. Reconciling /\ ~ReconcileTriggers /\ Planned(s)' = Planned(s)
    BY <1>1, <1>3, StepsOfPlans DEF Planned
  <2>2. cursor'[s].rev = cursor[s].rev
    BY <1>1, <2>1, StepsOfCursorRevisions DEF IsActive
  <2>3. cursor[s].rev <= schedule[s].rev
    BY DEF RevisionsAreRead
  <2>4. schedule'[s].status = "active" /\ schedule'[s].rev <= schedule[s].rev
    BY <1>1, <2>2, <2>3 DEF IsActive
  <2>5. schedule'[s] = schedule[s]
    BY <2>4, StepsOfSchedules
  <2> QED BY <1>1, <2>1, <2>2, <2>5 DEF PlansFollowCursors, IsActive
<1> QED BY <1>2, <1>3

LEMMA PlansFollowCursorsHolds == Spec => []PlansFollowCursors
<1>1. Init => PlansFollowCursors
  BY DEF Init, PlansFollowCursors, Reconciling, Off, NoOp
<1>2. ExecutionInv => RevisionsAreRead
  BY DEF ExecutionInv
<1>3. Shape /\ Shape' /\ RevisionsAreRead /\ PlansFollowCursors /\ [Next]_vars
        => PlansFollowCursors'
  BY PlansFollowCursorsStep
<1> QED BY <1>1, <1>2, <1>3, ShapeHolds, ExecutionInvHolds, PTL DEF Spec

LEMMA SlotIsNotDroppedStep ==
  ASSUME Shape, RevisionsAreRead, PlansFollowCursors, [Next]_vars, NEW s \in Ids,
         HasCursor(s), cursor[s].rev = schedule'[s].rev, schedule'[s].status = "active",
         cursor'[s].due # cursor[s].due
  PROVE  \/ \E i \in RunIds : run'[i].id = s /\ run'[i].slot = cursor[s].due
         \/ cursor'[s].missed = cursor[s].due
         \/ cursor[s].missed # None /\ cursor'[s].missed = cursor[s].missed
<1> USE Numbers
<1>1. schedule'[s] = schedule[s]
  BY StepsOfSchedules DEF RevisionsAreRead
<1>2. IsActive(s) /\ cursor[s].rev = schedule[s].rev /\ schedule[s].rev > 0
  BY <1>1, ShapeNow DEF IsActive
<1>3. CASE ReconcileTriggers
  <2>1. Reconciling /\ cursor'[s] = Reconciled(s)
    BY <1>3 DEF ReconcileTriggers, Reconciling
  <2>2. Planned(s).rev = schedule[s].rev /\ Planned(s) # NoCursor
    BY <1>2, <2>1 DEF PlansFollowCursors, NoCursor
  <2>3. \/ Reconciled(s) = cursor[s]
        \/ Reconciled(s) = [cursor[s] EXCEPT !.due = Planned(s).due,
                              !.missed = IF @ = None THEN cursor[s].due ELSE @]
    BY <1>2, <2>2 DEF Reconciled, Planned
  <2>4. cursor'[s].missed = IF cursor[s].missed = None THEN cursor[s].due
                            ELSE cursor[s].missed
    BY <2>1, <2>3, ShapeNow DEF Plans
  <2> QED BY <2>4
<1>4. ASSUME NEW i \in RunIds, ClaimScheduledRun(i), ~ClaimIsStale(i)
      PROVE  \E k \in RunIds : run'[k].id = s /\ run'[k].slot = cursor[s].due
  <2>1. /\ run' = [run EXCEPT ![i] = NewRun(i, HasActiveRun(job[i].id))]
        /\ cursor' = [cursor EXCEPT ![job[i].id].due = job[i].next]
    BY <1>4 DEF ClaimScheduledRun
  <2>2. job[i].id = s
    BY <2>1, ShapeNow
  <2>3. cursor[s].due = job[i].slot
    BY <1>4, <2>2 DEF ClaimIsStale
  <2> QED BY <2>1, <2>2, <2>3, ShapeNow DEF NewRun
<1>5. ASSUME NEW i \in RunIds, ResolveMissed(i) PROVE FALSE
  <2>1. \/ cursor' = cursor \/ cursor' = [cursor EXCEPT ![job[i].id].missed = None]
    BY <1>5 DEF ResolveMissed
  <2> QED BY <2>1, ShapeNow DEF Plans
<1>6. ASSUME NEW u \in Ids, Delete(u) PROVE FALSE
  <2>1. u # s
    BY <1>6, ShapeNow DEF Delete, Edit, ScheduleRecord
  <2> QED BY <1>6, <2>1, ShapeNow DEF Delete
<1> QED BY <1>3, <1>4, <1>5, <1>6, StepsOfCursors

(* A cursor moves past a due slot only with a run that stands for it, or   *)
(* with that slot or an older one noted as missed, as long as the schedule *)
(* is active at the revision the cursor was written for.                   *)
THEOREM NoSlotIsDropped == Spec => SlotIsNotDropped
<1>1. Shape /\ ExecutionInv /\ PlansFollowCursors /\ [Next]_vars
        => [\A s \in Ids :
              (/\ HasCursor(s) /\ cursor[s].due <= now
               /\ cursor[s].rev = schedule'[s].rev /\ schedule'[s].status = "active"
               /\ cursor'[s].due # cursor[s].due)
              => \/ \E i \in RunIds : run'[i].id = s /\ run'[i].slot = cursor[s].due
                 \/ cursor'[s].missed = cursor[s].due
                 \/ cursor[s].missed # None /\ cursor'[s].missed = cursor[s].missed]_vars
  BY SlotIsNotDroppedStep DEF ExecutionInv
<1> QED
  BY <1>1, ShapeHolds, ExecutionInvHolds, PlansFollowCursorsHolds, PTL
  DEF Spec, SlotIsNotDropped



-----------------------------------------------------------------------------
(* No wake-up is lost.                                                     *)

LEMMA NoOpShape ==
  /\ NoOp \in Operations /\ NoOp.step = "none" /\ NoOp.current = FALSE
  /\ [NoOp EXCEPT !.current = FALSE] = NoOp
<1>1. \A s \in Ids : NoOp.planned[s] = NoCursor
  BY DEF NoOp
<1>2. NoOp \in Operations
  BY DEF NoOp, Operations, NoCursor, Plans, None
<1> QED BY <1>2 DEF NoOp, Operations

\* The scheduler is refreshed, or does a step of its own, or begins or ends.
LEMMA StepsOfScheduler ==
  ASSUME [Next]_vars
  PROVE  \/ UNCHANGED scheduler \/ Notify
         \/ ListSchedules \/ ReconcileTriggers \/ ArmNext \/ ContinueLongDelay
         \/ TimerFires \/ StartScheduler \/ Restart
<1>1. CASE SchedulerStep
  BY <1>1 DEF SchedulerStep, ClaimScheduledRun
<1>2. CASE StartupStep
  BY <1>2 DEF StartupStep, RecoverInterrupted, ListMissed, OpenWindow, RecoverMissed,
     ResolveMissed, Notify
<1>3. CASE RunStep
  BY <1>3 DEF RunStep, StartRun, RequirePermission, Finish, ReconcilePermission,
     RefreshAfter, Notify
<1>4. CASE UserStep
  BY <1>4 DEF UserStep, RunNow, Create, Update, PauseOrResume, Delete, Edit
<1>5. CASE Restart \/ Tick \/ UNCHANGED vars
  BY <1>5 DEF Tick, vars
<1> QED BY <1>1, <1>2, <1>3, <1>4, <1>5 DEF Next

\* The scheduler runs from its start to the end of the process.
LEMMA StepsOfStartup ==
  ASSUME [Next]_vars
  PROVE  \/ phase' = phase
         \/ phase = "interrupt" /\ phase' = "permissions"
         \/ StartScheduler
         \/ phase \in {"starting", "missed"} /\ phase' \in {"missed", "up"}
         \/ Restart
<1>1. CASE SchedulerStep
  BY <1>1 DEF SchedulerStep, ListSchedules, ReconcileTriggers, ArmNext,
     ContinueLongDelay, TimerFires, ClaimScheduledRun
<1>2. CASE StartupStep
  BY <1>2 DEF StartupStep, RecoverInterrupted, ListMissed, OpenWindow, RecoverMissed,
     ResolveMissed
<1>3. CASE RunStep
  BY <1>3 DEF RunStep, StartRun, RequirePermission, Finish, ReconcilePermission
<1>4. CASE UserStep
  BY <1>4 DEF UserStep, RunNow, Create, Update, PauseOrResume, Delete, Edit
<1>5. CASE Restart \/ Tick \/ UNCHANGED vars
  BY <1>5 DEF Tick, vars
<1> QED BY <1>1, <1>2, <1>3, <1>4, <1>5 DEF Next

LEMMA SchedulerIsOrderlyStep ==
  ASSUME Shape, SchedulerIsOrderly, [Next]_vars
  PROVE  SchedulerIsOrderly'
<1> USE ShapeNow, NoOpShape
<1> DEFINE Queue(x) ==
      /\ x.pending # "none" => x.running
      /\ x.timer # NoTimer => x.running /\ x.pending = "none" /\ x.op = NoOp
      /\ x.op # NoOp => /\ x.running
                        /\ x.op.step \in {"reconcile", "arm"}
                        /\ x.op.current <=> x.pending = "none"
<1>1. scheduler \in Schedulers /\ scheduler.op \in Operations
  BY DEF Schedulers
<1>2. Queue(scheduler)
  BY DEF SchedulerIsOrderly
<1>3. Queue(scheduler') /\ (scheduler'.running = scheduler.running \/ StartScheduler \/ Restart)
  <2>1. CASE UNCHANGED scheduler
    BY <1>2, <2>1
  <2>2. CASE Notify
    <3>1. CASE ~scheduler.running
      BY <1>2, <2>2, <3>1 DEF Notify, Enqueued
    <3>2. CASE scheduler.running
      <4>1. /\ scheduler'.running /\ scheduler'.pending = "refresh"
            /\ scheduler'.timer = NoTimer
            /\ scheduler'.op = [scheduler.op EXCEPT !.current = FALSE]
        BY <1>1, <2>2, <3>2 DEF Notify, Enqueued, Schedulers
      <4>2. CASE scheduler.op = NoOp
        BY <3>2, <4>1, <4>2
      <4>3. CASE scheduler.op # NoOp
        <5>1. scheduler'.op.step = scheduler.op.step /\ scheduler'.op.current = FALSE
          BY <1>1, <4>1 DEF Operations
        <5> QED BY <1>2, <3>2, <4>1, <4>3, <5>1
      <4> QED BY <4>2, <4>3
    <3> QED BY <3>1, <3>2
  <2>3. CASE ListSchedules
    <3>1. /\ scheduler'.running = scheduler.running /\ scheduler'.pending = "none"
          /\ scheduler'.timer = scheduler.timer
          /\ scheduler'.op.step = "reconcile" /\ scheduler'.op.current
          /\ scheduler.pending # "none"
      BY <1>1, <2>3 DEF ListSchedules, Schedulers
    <3> QED BY <1>2, <3>1
  <2>4. CASE ReconcileTriggers
    <3>1. /\ scheduler'.running = scheduler.running
          /\ scheduler'.pending = scheduler.pending
          /\ scheduler'.timer = scheduler.timer
          /\ scheduler'.op.step = "arm" /\ scheduler'.op.current = scheduler.op.current
          /\ scheduler.op # NoOp
      BY <1>1, <2>4 DEF ReconcileTriggers, Schedulers, Operations
    <3> QED BY <1>2, <3>1
  <2>5. CASE ArmNext
    <3>1. /\ scheduler'.op = NoOp /\ scheduler'.pending = scheduler.pending
          /\ scheduler'.running = scheduler.running
      BY <2>5, ArmEnds
    <3>2. scheduler.op # NoOp
      BY <2>5 DEF ArmNext
    <3>3. scheduler'.timer = NoTimer \/ scheduler.op.current
      <4>1. CASE scheduler' = [scheduler EXCEPT !.op = NoOp]
        BY <1>1, <1>2, <3>2, <4>1 DEF Schedulers
      <4> QED BY <2>5, <4>1 DEF ArmNext
    <3> QED BY <1>2, <3>1, <3>2, <3>3
  <2>6. CASE ContinueLongDelay
    <3>1. /\ scheduler'.running = scheduler.running
          /\ scheduler'.pending = scheduler.pending
          /\ scheduler'.timer = NoTimer
          /\ scheduler'.op.step = "arm" /\ scheduler'.op.current
          /\ scheduler.timer # NoTimer
      BY <1>1, <2>6 DEF ContinueLongDelay, TimerIsDue, Schedulers, Operations
    <3> QED BY <1>2, <3>1
  <2>7. CASE TimerFires
    <3>1. /\ scheduler'.running = scheduler.running
          /\ scheduler'.timer = NoTimer /\ scheduler'.op = scheduler.op
          /\ scheduler.timer # NoTimer
      BY <1>1, <2>7 DEF TimerFires, TimerIsDue, Schedulers
    <3> QED BY <1>2, <3>1
  <2>8. CASE StartScheduler
    <3>1. /\ scheduler'.running /\ scheduler'.timer = NoTimer /\ scheduler'.op = NoOp
      BY <2>8 DEF StartScheduler, Off
    <3> QED BY <2>8, <3>1
  <2>9. CASE Restart
    BY <2>9 DEF Restart, Off
  <2> HIDE DEF Queue
  <2> QED BY <2>1, <2>2, <2>3, <2>4, <2>5, <2>6, <2>7, <2>8, <2>9, StepsOfScheduler
<1>4. scheduler'.running <=> phase' \in {"starting", "missed", "up"}
  <2>1. CASE StartScheduler
    BY <2>1 DEF StartScheduler, Off
  <2>2. CASE Restart
    BY <2>2 DEF Restart, Off
  <2>3. CASE ~StartScheduler /\ ~Restart
    BY <1>3, <2>3, StepsOfStartup DEF SchedulerIsOrderly
  <2> QED BY <2>1, <2>2, <2>3
<1>5. ASSUME NEW i \in RunIds, job'[i].pc = "claim" PROVE scheduler'.running
  <2>1. CASE Restart
    BY <1>5, <2>1 DEF Restart, FreeJob
  <2>2. CASE StartScheduler
    BY <2>2 DEF StartScheduler, Off
  <2>3. CASE ~Restart /\ ~StartScheduler
    <3>1. job'[i] = job[i] \/ scheduler.timer # NoTimer
      BY <1>5, StepsOfJobs DEF Begins
    <3> QED BY <1>3, <1>5, <2>3, <3>1 DEF SchedulerIsOrderly
  <2> QED BY <2>1, <2>2, <2>3
<1> QED BY <1>3, <1>4, <1>5 DEF SchedulerIsOrderly

\* A step after which nothing is asked of the scheduler.
LEMMA SettledSteps ==
  ASSUME Shape, SchedulerIsOrderly, [Next]_vars, Settled'
  PROVE  \/ ListSchedules
         \/ Settled /\ (ReconcileTriggers \/ ArmNext \/ ContinueLongDelay \/ TimerFires)
         \/ /\ Settled /\ UNCHANGED scheduler
            /\ \/ UNCHANGED store
               \/ \E i \in RunIds : StartRun(i) \/ ResolveMissed(i) \/ Finish(i)
<1> USE ShapeNow
<1>1. ~Notify
  BY EnqueuedShape DEF Notify, Settled, Enqueued
<1> DEFINE Same == UNCHANGED scheduler /\ UNCHANGED store
<1>2. UNCHANGED scheduler => Settled
  BY DEF Settled
<1>3. CASE SchedulerStep
  <2>1. ASSUME ReconcileTriggers \/ ArmNext \/ ContinueLongDelay \/ TimerFires PROVE Settled
    <3>1. CASE ReconcileTriggers
      BY <3>1 DEF ReconcileTriggers, Settled, Schedulers
    <3>2. CASE ArmNext
      BY <3>2, ArmEnds DEF Settled
    <3>3. CASE ContinueLongDelay
      BY <3>3 DEF ContinueLongDelay, Settled, Schedulers
    <3>4. CASE TimerFires
      <4>1. scheduler.timer # NoTimer /\ scheduler'.running = scheduler.running
        BY <3>4 DEF TimerFires, TimerIsDue, Schedulers
      <4> QED BY <4>1 DEF Settled, SchedulerIsOrderly
    <3> QED BY <2>1, <3>1, <3>2, <3>3, <3>4
  <2>2. \A i \in RunIds : ~ClaimScheduledRun(i)
    BY <1>1 DEF ClaimScheduledRun
  <2> QED BY <1>3, <2>1, <2>2 DEF SchedulerStep
<1>4. CASE StartupStep
  <2>1. ~RecoverInterrupted
    BY <1>2 DEF RecoverInterrupted, SchedulerIsOrderly, Settled
  <2>2. ~StartScheduler
    BY DEF StartScheduler, Settled, Off
  <2>3. ~OpenWindow
    BY <1>1 DEF OpenWindow, Notify
  <2>4. ASSUME ListMissed \/ \E m \in missed : RecoverMissed(m) PROVE Same
    BY <2>4 DEF ListMissed, RecoverMissed
  <2>5. \A i \in RunIds : ResolveMissed(i) => UNCHANGED scheduler
    BY DEF ResolveMissed
  <2> QED BY <1>2, <1>4, <2>1, <2>2, <2>3, <2>4, <2>5 DEF StartupStep
<1>5. CASE RunStep
  <2>1. ASSUME NEW i \in RunIds, RequirePermission(i) PROVE Same
    BY <1>1, <2>1 DEF RequirePermission, RefreshAfter, Notify, store
  <2>2. ASSUME NEW i \in RunIds, ReconcilePermission(i) PROVE FALSE
    BY <1>1, <2>2 DEF ReconcilePermission
  <2>3. ASSUME NEW i \in RunIds, StartRun(i) \/ Finish(i) PROVE UNCHANGED scheduler
    BY <1>1, <2>3 DEF StartRun, Finish, RefreshAfter, Notify
  <2> QED BY <1>2, <1>5, <2>1, <2>2, <2>3 DEF RunStep
<1>6. CASE UserStep
  <2>1. ASSUME NEW s \in Ids, RunNow(s) PROVE Same
    BY <2>1 DEF RunNow
  <2>2. ASSUME NEW s \in Ids, Create(s) \/ Update(s) \/ PauseOrResume(s) \/ Delete(s)
        PROVE  FALSE
    BY <1>1, <2>2 DEF Create, Update, PauseOrResume, Delete, Edit
  <2> QED BY <1>2, <1>6, <2>1, <2>2 DEF UserStep
<1>7. CASE Restart \/ Tick \/ UNCHANGED vars
  <2>1. ~Restart
    BY DEF Restart, Settled, Off
  <2>2. Same
    BY <1>7, <2>1 DEF Tick, vars, store
  <2> QED BY <1>2, <2>2
<1> QED BY <1>3, <1>4, <1>5, <1>6, <1>7 DEF Next


\* What a call may change without a refresh: a run that had not been written,
\* a missed slot, or the result of a run with the revision it brings.
Unnoticed(s) ==
  /\ HasCursor(s)' <=> HasCursor(s)
  /\ cursor'[s].due = cursor[s].due
  /\ IsActive(s)' <=> IsActive(s)
  /\ \/ LastChangedByRun(s)'
     \/ schedule'[s].rev = schedule[s].rev /\ (LastChangedByRun(s) => LastChangedByRun(s)')

LEMMA UnnoticedSteps ==
  ASSUME Shape, JobsOwnTheirRuns, NEW s \in Ids,
         UNCHANGED store \/ \E i \in RunIds : StartRun(i) \/ ResolveMissed(i) \/ Finish(i)
  PROVE  Unnoticed(s)
<1> USE ShapeNow
<1>1. CASE UNCHANGED store
  BY <1>1 DEF store, Unnoticed, HasCursor, IsActive, LastChangedByRun
<1>2. ASSUME NEW i \in RunIds, NEW r, run' = run \/ run' = [run EXCEPT ![i] = r],
             run[i].status = "none", schedule' = schedule
      PROVE  LastChangedByRun(s) => LastChangedByRun(s)'
  BY <1>2 DEF LastChangedByRun
<1>3. ASSUME NEW i \in RunIds, StartRun(i) PROVE Unnoticed(s)
  <2>1. run[i].status = "none" /\ schedule' = schedule /\ cursor' = cursor
    BY <1>3 DEF StartRun, JobsOwnTheirRuns
  <2>2. run' = run \/ run' = [run EXCEPT ![i] = NewRun(i, FALSE)]
    BY <1>3 DEF StartRun
  <2>3. LastChangedByRun(s) => LastChangedByRun(s)'
    BY <1>2, <2>1, <2>2
  <2> QED BY <2>1, <2>3 DEF Unnoticed, HasCursor, IsActive
<1>4. ASSUME NEW i \in RunIds, ResolveMissed(i) PROVE Unnoticed(s)
  <2>1. run[i].status = "none" /\ schedule' = schedule
    BY <1>4 DEF ResolveMissed, JobsOwnTheirRuns
  <2>2. run' = run \/ run' = [run EXCEPT ![i] = NewRun(i, HasActiveRun(job[i].id))]
    BY <1>4 DEF ResolveMissed
  <2>3. LastChangedByRun(s) => LastChangedByRun(s)'
    BY <1>2, <2>1, <2>2
  <2>4. \/ cursor' = cursor
        \/ /\ cursor' = [cursor EXCEPT ![job[i].id].missed = None]
           /\ cursor[job[i].id].missed = job[i].slot
    BY <1>4 DEF ResolveMissed
  <2>5. job[i].slot \in Slots
    BY <1>4 DEF ResolveMissed, JobIsComplete
  <2>6. (HasCursor(s)' <=> HasCursor(s)) /\ cursor'[s].due = cursor[s].due
    <3>1. CASE cursor'[s] = cursor[s]
      BY <3>1 DEF HasCursor
    <3>2. CASE /\ cursor'[s] = [cursor[s] EXCEPT !.missed = None]
               /\ cursor[s].missed \in Slots
      <4>1. HasCursor(s)
        BY <3>2, Numbers DEF HasCursor, NoCursor
      <4>2. cursor[s].due # None
        BY <4>1, Numbers DEF HasCursor
      <4>3. cursor'[s].due = cursor[s].due
        BY <3>2 DEF Plans
      <4>4. cursor'[s] # NoCursor
        BY <4>2, <4>3 DEF NoCursor
      <4> QED BY <4>1, <4>3, <4>4 DEF HasCursor
    <3> QED BY <2>4, <2>5, <3>1, <3>2
  <2> QED BY <2>1, <2>3, <2>6 DEF Unnoticed, IsActive
<1>5. ASSUME NEW i \in RunIds, Finish(i) PROVE Unnoticed(s)
  <2>1. CASE UNCHANGED <<run, schedule>>
    BY <1>1, <1>5, <2>1 DEF Finish, store
  <2>2. CASE /\ Applies(i)
             /\ run' = [run EXCEPT ![i].status = "finished"]
             /\ schedule' = [schedule EXCEPT ![job[i].id].rev = @ + 1]
    <3>1. cursor' = cursor
      BY <1>5 DEF Finish
    <3>2. run[i].id = job[i].id /\ run[i].rev = job[i].rev
      BY <1>5 DEF Finish, JobsOwnTheirRuns
    <3>3. /\ run'[i].id = run[i].id /\ run'[i].rev = run[i].rev
          /\ run'[i].status = "finished"
      BY <2>2 DEF RunRecord
    <3>4. CASE s = job[i].id
      <4>1. schedule'[s].rev = run'[i].rev + 1 /\ schedule'[s].status = schedule[s].status
        BY <2>2, <3>2, <3>3, <3>4 DEF Applies, ScheduleRecord
      <4>2. LastChangedByRun(s)'
        BY <3>2, <3>3, <3>4, <4>1 DEF LastChangedByRun
      <4> QED BY <3>1, <4>1, <4>2 DEF Unnoticed, HasCursor, IsActive
    <3>5. CASE s # job[i].id
      <4>1. schedule'[s] = schedule[s]
        BY <2>2, <3>5
      <4>2. \A k \in RunIds : k # i => run'[k] = run[k]
        BY <2>2
      <4>3. LastChangedByRun(s) => LastChangedByRun(s)'
        BY <3>2, <3>5, <4>1, <4>2 DEF LastChangedByRun
      <4> QED BY <3>1, <4>1, <4>3 DEF Unnoticed, HasCursor, IsActive
    <3> QED BY <3>4, <3>5
  <2> QED BY <1>5, <2>1, <2>2 DEF Finish
<1> QED BY <1>1, <1>3, <1>4, <1>5

LEMMA CursorsAreRightStep ==
  ASSUME Shape, JobsOwnTheirRuns, SchedulerIsOrderly, CursorsAreRight, [Next]_vars
  PROVE  CursorsAreRight'
<1> USE ShapeNow, Numbers
<1>1. SUFFICES ASSUME Settled', NEW s \in Ids
               PROVE  /\ Reconciling' =>
                           (IsActive(s)' => \/ Planned(s)'.rev = schedule'[s].rev
                                            \/ LastChangedByRun(s)')
                      /\ ~Reconciling' =>
                           /\ HasCursor(s)' => IsActive(s)'
                           /\ IsActive(s)' => HasCursor(s)' \/ LastChangedByRun(s)'
  BY DEF CursorsAreRight
<1>2. CASE ListSchedules
  <2> DEFINE plan(u) == IF IsActive(u)
                        THEN [rev |-> schedule[u].rev, missed |-> None,
                              due |-> NextSlot(schedule[u].cron, now)]
                        ELSE NoCursor
  <2>1. scheduler'.op = [step |-> "reconcile", current |-> TRUE, at |-> now,
                         preserve |-> scheduler.pending = "start",
                         planned |-> [u \in Ids |-> plan(u)]]
    BY <1>2 DEF ListSchedules, Shape, Schedulers
  <2>2. schedule' = schedule
    BY <1>2 DEF ListSchedules, store
  <2>3. IsActive(s) => plan(s).rev = schedule[s].rev
    OBVIOUS
  <2> HIDE DEF plan
  <2> QED BY <2>1, <2>2, <2>3 DEF Planned, Reconciling, IsActive
<1>3. CASE Settled /\ ReconcileTriggers
  <2>1. Reconciling /\ cursor'[s] = Reconciled(s) /\ schedule' = schedule /\ run' = run
    BY <1>3 DEF ReconcileTriggers, Reconciling
  <2>2. ~Reconciling'
    BY <1>3 DEF ReconcileTriggers, Schedulers, Operations, Reconciling
  <2>3. HasCursor(s)' => IsActive(s)'
    <3>1. ~IsActive(s) => Reconciled(s) = NoCursor
      BY DEF Reconciled
    <3> QED BY <2>1, <3>1 DEF HasCursor, IsActive
  <2>4. ASSUME IsActive(s)' PROVE HasCursor(s)' \/ LastChangedByRun(s)'
    <3>1. CASE LastChangedByRun(s)
      BY <2>1, <3>1 DEF LastChangedByRun
    <3>2. CASE Planned(s).rev = schedule[s].rev
      <4>1. IsActive(s) /\ schedule[s].rev > 0
        BY <2>1, <2>4 DEF IsActive
      <4>2. Planned(s) # NoCursor /\ Planned(s).rev # 0
        BY <3>2, <4>1 DEF NoCursor
      <4>3. Reconciled(s).rev = Planned(s).rev
        BY <3>2, <4>1, <4>2 DEF Reconciled, Planned, Plans
      <4> QED BY <2>1, <4>2, <4>3 DEF HasCursor, NoCursor
    <3>3. LastChangedByRun(s) \/ Planned(s).rev = schedule[s].rev
      BY <1>3, <2>1, <2>4 DEF CursorsAreRight, IsActive
    <3> QED BY <3>1, <3>2, <3>3
  <2> QED BY <2>2, <2>3, <2>4
<1>4. ASSUME Settled, Unnoticed(s), Reconciling' <=> Reconciling,
             Planned(s)' = Planned(s) \/ ~Reconciling
      PROVE  /\ Reconciling' =>
                  (IsActive(s)' => \/ Planned(s)'.rev = schedule'[s].rev
                                   \/ LastChangedByRun(s)')
             /\ ~Reconciling' =>
                  /\ HasCursor(s)' => IsActive(s)'
                  /\ IsActive(s)' => HasCursor(s)' \/ LastChangedByRun(s)'
  BY <1>4 DEF CursorsAreRight, Unnoticed
<1>5. ASSUME ArmNext \/ ContinueLongDelay PROVE UNCHANGED store /\ ~Reconciling /\ ~Reconciling'
  <2>1. CASE ArmNext
    BY <2>1, ArmEnds DEF ArmNext, Reconciling
  <2>2. CASE ContinueLongDelay
    <3>1. scheduler.op = NoOp
      BY <2>2 DEF ContinueLongDelay, TimerIsDue, SchedulerIsOrderly
    <3> QED BY <2>2, <3>1, NoOpShape DEF ContinueLongDelay, Reconciling, Schedulers, Operations
  <2> QED BY <1>5, <2>1, <2>2
<1>6. ASSUME TimerFires PROVE UNCHANGED store /\ scheduler'.op = scheduler.op
  BY <1>6 DEF TimerFires, Schedulers
<1>7. CASE Settled /\ (ArmNext \/ ContinueLongDelay)
  BY <1>4, <1>5, <1>7, UnnoticedSteps
<1>8. CASE Settled /\ TimerFires
  BY <1>4, <1>6, <1>8, UnnoticedSteps DEF Reconciling, Planned
<1>9. CASE /\ Settled /\ UNCHANGED scheduler
           /\ \/ UNCHANGED store
              \/ \E i \in RunIds : StartRun(i) \/ ResolveMissed(i) \/ Finish(i)
  BY <1>4, <1>9, UnnoticedSteps DEF Reconciling, Planned
<1> QED BY <1>1, <1>2, <1>3, <1>7, <1>8, <1>9, SettledSteps

\* A claim under way ends with its transaction, or with the process.
LEMMA ClaimsStay ==
  ASSUME Shape, [Next]_vars, NEW i \in RunIds, job[i].pc = "claim"
  PROVE  job'[i].pc = "claim" \/ Notify \/ Restart
<1> USE ShapeNow
<1>1. ASSUME NEW k \in RunIds, job[k].pc # "claim", Ended(k) \/ Executes(k)
      PROVE  job'[i].pc = "claim"
  BY <1>1 DEF Ended, Executes
<1>2. CASE ~ \E k \in RunIds : ClaimScheduledRun(k)
  <2>1. CASE job'[i] = job[i]
    BY <2>1
  <2>2. CASE Begins(i)
    BY <2>2 DEF Begins
  <2>3. CASE job'[i].pc \in {"free", "execute"} /\ job'[i] # job[i]
    <3>1. CASE StartupStep
      <4>1. ASSUME NEW m \in missed, RecoverMissed(m) PROVE job'[i] = job[i]
        BY <4>1, NewIdIsFree DEF RecoverMissed
      <4> QED
        BY <1>1, <2>3, <3>1, <4>1 DEF StartupStep, RecoverInterrupted, StartScheduler,
           ListMissed, OpenWindow, ResolveMissed
    <3>2. CASE RunStep
      BY <1>1, <2>3, <3>2 DEF RunStep, StartRun, RequirePermission, Finish,
         ReconcilePermission
    <3>3. CASE SchedulerStep
      <4>1. ASSUME TimerFires PROVE job'[i] = job[i]
        BY <4>1, NewIdIsFree DEF TimerFires
      <4> QED
        BY <1>2, <2>3, <3>3, <4>1 DEF SchedulerStep, ListSchedules, ReconcileTriggers,
           ArmNext, ContinueLongDelay
    <3>4. CASE UserStep
      <4>1. ASSUME NEW s \in Ids, RunNow(s) PROVE job'[i] = job[i]
        BY <4>1, NewIdIsFree DEF RunNow
      <4> QED
        BY <2>3, <3>4, <4>1 DEF UserStep, Create, Update, PauseOrResume, Delete, Edit
    <3> QED BY <2>3, <3>1, <3>2, <3>3, <3>4 DEF Next, Tick, vars
  <2> QED BY <2>1, <2>2, <2>3, StepsOfJobs
<1> QED BY <1>2 DEF ClaimScheduledRun

LEMMA TimerIsRightStep ==
  ASSUME Shape, JobsOwnTheirRuns, SchedulerIsOrderly, TimerIsRight, [Next]_vars
  PROVE  TimerIsRight'
<1> USE ShapeNow, NoOpShape
<1>1. SUFFICES ASSUME Settled', scheduler'.op = NoOp,
                      \A i \in RunIds : job'[i].pc # "claim"
               PROVE  Armed'
  BY DEF TimerIsRight
<1>2. ~Notify /\ ~Restart
  <2>1. ~Notify
    BY <1>1, EnqueuedShape DEF Notify, Settled, Enqueued
  <2>2. ~Restart
    BY <1>1 DEF Settled, Restart, Off
  <2> QED BY <2>1, <2>2
<1>3. \A i \in RunIds : job[i].pc # "claim"
  BY <1>1, <1>2, ClaimsStay
<1>4. CASE ListSchedules
  BY <1>1, <1>4 DEF ListSchedules, Schedulers
<1>5. CASE ReconcileTriggers
  <2>1. scheduler'.op.step = "arm"
    BY <1>5 DEF ReconcileTriggers, Schedulers, Operations
  <2> QED BY <1>1, <2>1
<1>6. CASE ContinueLongDelay
  <2>1. scheduler'.op.step = "arm"
    BY <1>6 DEF ContinueLongDelay, Schedulers, Operations
  <2> QED BY <1>1, <2>1
<1>7. CASE TimerFires
  <2> DEFINE s == scheduler.timer.id
             j == [FreeJob EXCEPT !.pc = "claim", !.kind = "cron", !.id = s,
                    !.rev = scheduler.timer.rev, !.slot = scheduler.timer.due,
                    !.next = NextSlot(schedule[s].cron, now)]
             fired == [scheduler EXCEPT !.timer = NoTimer]
  <2>1. j.pc = "claim" /\ fired \in Schedulers
    BY DEF FreeJob, Schedulers, Timers
  <2>2. \/ FreeIds # {} /\ job' = [job EXCEPT ![NewId] = j]
        \/ scheduler' = [fired EXCEPT !.pending = "refresh"]
    BY <1>7 DEF TimerFires
  <2> HIDE DEF j, fired
  <2>3. CASE FreeIds # {} /\ job' = [job EXCEPT ![NewId] = j]
    <3>1. job'[NewId].pc = "claim" /\ NewId \in RunIds
      BY <2>1, <2>3, NewIdIsFree
    <3> QED BY <1>1, <3>1
  <2>4. CASE scheduler' = [fired EXCEPT !.pending = "refresh"]
    <3>1. scheduler'.pending = "refresh"
      BY <2>1, <2>4 DEF Schedulers
    <3> QED BY <1>1, <3>1 DEF Settled
  <2> QED BY <2>2, <2>3, <2>4
<1>8. CASE Settled /\ ArmNext
  <2>1. cursor' = cursor /\ scheduler.op # NoOp
    BY <1>8 DEF ArmNext, store
  <2>2. scheduler.op.current /\ scheduler.timer = NoTimer
    BY <1>8, <2>1 DEF SchedulerIsOrderly, Settled
  <2>3. CASE Cursors = {} /\ scheduler' = [scheduler EXCEPT !.op = NoOp]
    <3>1. scheduler'.timer = NoTimer
      BY <2>2, <2>3 DEF Schedulers
    <3> QED BY <2>1, <2>3, <3>1 DEF Armed, Cursors, HasCursor
  <2>4. ASSUME NEW s \in Earliest, NEW at,
               scheduler' = [scheduler EXCEPT !.op = NoOp,
                 !.timer = [id |-> s, rev |-> cursor[s].rev, due |-> cursor[s].due,
                            at |-> at]]
        PROVE  Armed'
    <3>1. scheduler'.timer.id = s /\ scheduler'.timer.due = cursor[s].due
      BY <2>4 DEF Schedulers
    <3>2. Cursors # {}
      BY <2>4 DEF Earliest
    <3> QED BY <2>1, <2>4, <3>1, <3>2 DEF Armed, Cursors, HasCursor, Earliest
  <2>5. \/ Cursors = {} /\ scheduler' = [scheduler EXCEPT !.op = NoOp]
        \/ \E s \in Earliest : \E at :
             scheduler' = [scheduler EXCEPT !.op = NoOp,
               !.timer = [id |-> s, rev |-> cursor[s].rev, due |-> cursor[s].due,
                          at |-> at]]
    BY <1>8, <2>2 DEF ArmNext
  <2> QED BY <2>3, <2>4, <2>5
<1>9. CASE /\ Settled /\ UNCHANGED scheduler
           /\ \/ UNCHANGED store
              \/ \E i \in RunIds : StartRun(i) \/ ResolveMissed(i) \/ Finish(i)
  <2>1. \A s \in Ids : (HasCursor(s)' <=> HasCursor(s)) /\ cursor'[s].due = cursor[s].due
    BY <1>9, UnnoticedSteps DEF Unnoticed
  <2>2. Cursors' = Cursors /\ Cursors \subseteq Ids
    BY <2>1 DEF Cursors
  <2>3. Earliest' = Earliest /\ Earliest \subseteq Ids
    BY <2>1, <2>2 DEF Earliest
  <2>4. Armed
    BY <1>1, <1>3, <1>9 DEF TimerIsRight
  <2>5. scheduler' = scheduler
    BY <1>9
  <2>6. Cursors # {} => /\ scheduler.timer.id \in Earliest'
                        /\ scheduler.timer.due = cursor'[scheduler.timer.id].due
    BY <2>1, <2>3, <2>4 DEF Armed
  <2> QED BY <2>2, <2>4, <2>5, <2>6 DEF Armed
<1> QED BY <1>1, <1>4, <1>5, <1>6, <1>7, <1>8, <1>9, SettledSteps

LEMMA ArmInvHolds == Spec => []ArmInv
<1>1. Init => ArmInv
  BY NoOpShape DEF Init, ArmInv, SchedulerIsOrderly, CursorsAreRight, TimerIsRight, Settled,
     FreeJob, Off
<1>2. Shape /\ ExecutionInv /\ ArmInv /\ [Next]_vars => ArmInv'
  BY SchedulerIsOrderlyStep, CursorsAreRightStep, TimerIsRightStep DEF ArmInv, ExecutionInv
<1> QED BY <1>1, <1>2, ShapeHolds, ExecutionInvHolds, PTL DEF Spec

(* No wake-up is lost: when the scheduler has nothing queued or under way, *)
(* its timer stands for the earliest cursor, and the cursors are those of  *)
(* the active schedules, but for one last changed by the result of a run   *)
(* (finish does not notify the scheduler).                                 *)
THEOREM QuietSchedulerIsArmed == Spec => []QuietIsArmed
<1>1. ArmInv => QuietIsArmed
  <2> SUFFICES ASSUME ArmInv, Quiet
               PROVE  /\ \A s \in Ids :
                           /\ HasCursor(s) => IsActive(s)
                           /\ IsActive(s) => HasCursor(s) \/ LastChangedByRun(s)
                      /\ Armed
    BY DEF QuietIsArmed, Armed
  <2>1. Settled /\ ~Reconciling
    BY NoOpShape DEF ArmInv, Quiet, SchedulerIsOrderly, Settled, Reconciling
  <2> QED BY <2>1 DEF ArmInv, CursorsAreRight, TimerIsRight, Quiet
<1> QED BY <1>1, ArmInvHolds, PTL


=============================================================================
