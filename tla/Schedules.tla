----------------------------- MODULE Schedules -----------------------------
(***************************************************************************)
(* Cron schedules: the store (SqliteScheduleRepository), the service that  *)
(* runs them (ScheduleService) and the scheduler that arms one timer for   *)
(* the earliest trigger cursor (CronScheduleScheduler).                    *)
(*                                                                         *)
(* A store transaction is one step.  A job is one call of the service that *)
(* may create a run; its program counter stops at the awaits where another *)
(* call can come between.  The store survives a crash; jobs, the scheduler *)
(* and pending notifications do not.  A run executes a skill: main.ts      *)
(* gives the service a tool runtime that refuses everything.               *)
(***************************************************************************)
EXTENDS Integers, FiniteSets

CONSTANTS
  Ids,        \* schedule ids; a deleted id is never used again
  RunIds,     \* run ids, one per run written
  Crons,      \* cron expressions, each the set of its slots up to MaxTime
  MaxTime,    \* bound on the clock
  MaxDelay,   \* the longest delay of one timer (MAX_TIMER_DELAY)
  MaxEdits,   \* bound on the user's edits
  MaxBoots    \* bound on restarts

ASSUME ScheduleAssumption ==
  /\ MaxTime \in Nat /\ MaxDelay \in Nat \ {0}
  /\ MaxEdits \in Nat /\ MaxBoots \in Nat
  /\ Crons \subseteq SUBSET (1..MaxTime) /\ Crons # {}

VARIABLES
  now,        \* the clock
  schedule,   \* the schedules' rows
  run,        \* the runs' rows
  cursor,     \* the trigger cursors' rows
  job,        \* calls in progress, by the id of the run they would write
  scheduler,  \* the fields of CronScheduleScheduler
  missed,     \* what recoverMissed has still to go through
  phase,      \* steps of the startup, then "up"
  edits, boots

store == <<schedule, run, cursor>>
vars == <<now, schedule, run, cursor, job, scheduler, missed, phase,
          edits, boots>>

None == 0                  \* no slot, no missed slot
Never == MaxTime + 1       \* the next slot of a cron lies beyond the horizon

Policies == {"skip", "run_once"}
Active == {"running", "waiting"}     \* waiting stands for waiting_permission
Slots == 1..Never
NoCursor == [rev |-> 0, due |-> None, missed |-> None]
NoTimer == [id |-> None, rev |-> 0, due |-> None, at |-> None]
NoOp == [step |-> "none", current |-> FALSE, preserve |-> FALSE, at |-> 0,
         planned |-> [s \in Ids |-> NoCursor]]
Off == [running |-> FALSE, pending |-> "none", op |-> NoOp, timer |-> NoTimer]
FreeJob == [pc |-> "free", kind |-> "manual", id |-> None, rev |-> 0,
            slot |-> None, next |-> None, seen |-> "none"]

\* CronSchedulePlanner.next: the first slot strictly after a time.
NextSlot(cron, after) ==
  CHOOSE t \in Slots : /\ t \in cron \cup {Never} /\ t > after
                       /\ \A u \in cron : u > after => t <= u

FreeIds == {i \in RunIds : run[i].status = "none" /\ job[i].pc = "free"}
NewId == CHOOSE i \in FreeIds : TRUE
IsActive(s) == schedule[s].status = "active"

\* Mutant of HasActiveRun: a run that waits for the user does not count.
HasRunningRun(s) == \E i \in RunIds : run[i].id = s /\ run[i].status = "running"
HasActiveRun(s) == \E i \in RunIds : run[i].id = s /\ run[i].status \in Active

HasCursor(s) == cursor[s] # NoCursor
Cursors == {s \in Ids : HasCursor(s)}

\* getNextTrigger: the earliest cursors; ties go by id, here to any of them.
Earliest == {s \in Cursors : \A u \in Cursors : cursor[s].due <= cursor[u].due}

-----------------------------------------------------------------------------
(* The scheduler's own steps.                                              *)

\* Mutant of Enqueued: nothing is queued behind a reconciliation under way.
EnqueuedIfIdle(kind) ==
  IF scheduler.running
  THEN [scheduler EXCEPT !.pending = IF scheduler.op = NoOp THEN kind ELSE @,
                         !.timer = NoTimer, !.op.current = FALSE]
  ELSE scheduler

\* refresh: the armed timer and what is under way no longer count, and one
\* reconciliation is queued behind it.  Of the queued ones only the last
\* passes isCurrent; the others return at once and are left out.
Enqueued(kind) ==
  IF scheduler.running
  THEN [scheduler EXCEPT !.pending = kind, !.timer = NoTimer,
                         !.op.current = FALSE]
  ELSE scheduler

\* Mutant of Notify: the change is left to the next refresh.
NotifyNobody == UNCHANGED scheduler

\* notifyScheduleChanged queues a microtask that refreshes: no timer can fire
\* before it, so the refresh is taken as part of the step that asks for it.
Notify == scheduler' = Enqueued("refresh")

\* reconcileAndArm up to its first await: the active schedules and their
\* next slots, as of this moment.
ListSchedules ==
  /\ scheduler.pending # "none" /\ scheduler.op = NoOp
  /\ scheduler' = [scheduler EXCEPT
       !.pending = "none",
       !.op = [step |-> "reconcile", current |-> TRUE, at |-> now,
               preserve |-> scheduler.pending = "start",
               planned |-> [s \in Ids |->
                 IF IsActive(s)
                 THEN [rev |-> schedule[s].rev, missed |-> None,
                       due |-> NextSlot(schedule[s].cron, now)]
                 ELSE NoCursor]]]
  /\ UNCHANGED <<now, store, job, missed, phase, edits, boots>>

\* Mutant of Reconciled: an overdue slot is planned anew and not noted.
ReconciledAnew(s) ==
  LET op == scheduler.op
      plan == IF IsActive(s) /\ op.planned[s].rev = schedule[s].rev
              THEN op.planned[s] ELSE NoCursor
  IN  IF plan.rev # cursor[s].rev \/ cursor[s].due <= op.at THEN plan ELSE cursor[s]

\* What reconcileTriggers does with the cursor of s.
Reconciled(s) ==
  LET op == scheduler.op
      plan == IF IsActive(s) /\ op.planned[s].rev = schedule[s].rev
              THEN op.planned[s] ELSE NoCursor
      old == cursor[s]
      late == op.preserve /\ old.due <= op.at
  IN  IF plan = NoCursor \/ old.rev # plan.rev THEN plan
      ELSE IF late THEN [old EXCEPT !.due = plan.due,
                           !.missed = IF @ = None THEN old.due ELSE @]
      ELSE old

ReconcileTriggers ==
  /\ scheduler.op.step = "reconcile"
  /\ cursor' = [s \in Ids |-> Reconciled(s)]
  /\ scheduler' = [scheduler EXCEPT
       !.op = [@ EXCEPT !.step = "arm", !.at = 0, !.planned = NoOp.planned]]
  /\ UNCHANGED <<now, schedule, run, job, missed, phase, edits, boots>>

\* armNext: the timer for the earliest cursor, or for a first part of a
\* delay too long for one timer.  An operation overtaken by a refresh ends.
ArmNext ==
  /\ scheduler.op.step = "arm"
  /\ \/ /\ ~scheduler.op.current \/ Cursors = {}
        /\ scheduler' = [scheduler EXCEPT !.op = NoOp]
     \/ /\ scheduler.op.current
        /\ \E s \in Earliest :
             scheduler' = [scheduler EXCEPT !.op = NoOp,
               !.timer = [id |-> s, rev |-> cursor[s].rev, due |-> cursor[s].due,
                          at |-> IF cursor[s].due - now > MaxDelay
                                 THEN now + MaxDelay ELSE cursor[s].due]]
  /\ UNCHANGED <<now, store, job, missed, phase, edits, boots>>

TimerIsDue == scheduler.timer # NoTimer /\ scheduler.timer.at <= now

\* continueLongDelay: the timer of a first part; armNext is called directly,
\* not through the refresh queue.
ContinueLongDelay ==
  /\ TimerIsDue /\ scheduler.timer.at < scheduler.timer.due
  /\ scheduler' = [scheduler EXCEPT !.timer = NoTimer,
                     !.op = [NoOp EXCEPT !.step = "arm", !.current = TRUE]]
  /\ UNCHANGED <<now, store, job, missed, phase, edits, boots>>

-----------------------------------------------------------------------------
(* The calls that create and finish runs.                                  *)

\* A call is over.  claimDueSlot refreshes in its finally, whatever happened.
Ended(i) == job' = [job EXCEPT ![i] = FreeJob]
Executes(i) == job' = [job EXCEPT ![i] =
                 [@ EXCEPT !.pc = "execute", !.seen = "running", !.slot = None, !.next = None]]
RefreshAfter(i) ==
  scheduler' = IF job[i].kind = "cron" THEN Enqueued("refresh") ELSE scheduler

\* claimDueSlot up to runScheduled's transaction: the timer is spent, and a
\* slot of an earlier revision, or of a schedule that is not active, is
\* dropped with a refresh.  (A change between the call and its reads has the
\* effect of one before the transaction, which compares everything again.)
TimerFires ==
  LET s == scheduler.timer.id
      fired == [scheduler EXCEPT !.timer = NoTimer]
      current == IsActive(s) /\ schedule[s].rev = scheduler.timer.rev
  IN  /\ TimerIsDue /\ scheduler.timer.at = scheduler.timer.due
      /\ \/ /\ current /\ FreeIds # {}
            /\ job' = [job EXCEPT ![NewId] =
                 [FreeJob EXCEPT !.pc = "claim", !.kind = "cron", !.id = s,
                    !.rev = scheduler.timer.rev, !.slot = scheduler.timer.due,
                    !.next = NextSlot(schedule[s].cron, now)]]
            /\ scheduler' = fired
         \/ /\ ~current
            /\ scheduler' = [fired EXCEPT !.pending = "refresh"]
            /\ UNCHANGED job
      /\ UNCHANGED <<now, store, missed, phase, edits, boots>>

\* The row of a new run; with another run under way it is written as failed.
NewRun(i, overlap) ==
  [id |-> job[i].id, rev |-> job[i].rev, slot |-> job[i].slot,
   status |-> IF overlap THEN "overlap" ELSE "running"]

\* Mutant of ClaimIsStale: neither the cursor nor the command log is asked.
ClaimOfOldRevision(i) ==
  ~IsActive(job[i].id) \/ schedule[job[i].id].rev # job[i].rev

ClaimIsStale(i) ==
  LET s == job[i].id
  IN  \/ ~IsActive(s) \/ schedule[s].rev # job[i].rev
      \/ cursor[s].rev # job[i].rev \/ cursor[s].due # job[i].slot

\* claimScheduledRun.  The command log's replay answers a second claim of a
\* slot before the cursor is looked at; either way it writes nothing.
ClaimScheduledRun(i) ==
  LET s == job[i].id
  IN  /\ job[i].pc = "claim"
      /\ \/ /\ ClaimIsStale(i)
            /\ Ended(i)
            /\ UNCHANGED <<run, cursor>>
         \/ /\ ~ClaimIsStale(i)
            /\ run' = [run EXCEPT ![i] = NewRun(i, HasActiveRun(s))]
            /\ cursor' = [cursor EXCEPT ![s].due = job[i].next]
            /\ \/ HasActiveRun(s) /\ Ended(i)
               \/ ~HasActiveRun(s) /\ Executes(i)
      /\ Notify   \* after a claim, or in claimDueSlot's finally
      /\ UNCHANGED <<now, schedule, missed, phase, edits, boots>>

\* runNow up to its preflight: it reads an active schedule.
RunNow(s) ==
  /\ phase = "up" /\ IsActive(s) /\ FreeIds # {}
  /\ job' = [job EXCEPT ![NewId] = [FreeJob EXCEPT !.pc = "start", !.id = s,
                                      !.rev = schedule[s].rev]]
  /\ UNCHANGED <<now, store, scheduler, missed, phase, edits, boots>>

\* startRun looks at the runs only: what became of the schedule during the
\* preflight does not matter to it.
StartRun(i) ==
  /\ job[i].pc = "start"
  /\ \/ /\ HasActiveRun(job[i].id)
        /\ Ended(i) /\ UNCHANGED run
     \/ /\ ~HasActiveRun(job[i].id)
        /\ run' = [run EXCEPT ![i] = NewRun(i, FALSE)]
        /\ Executes(i)
  /\ UNCHANGED <<now, schedule, cursor, scheduler, missed, phase,
                 edits, boots>>

\* finishRun's guard: the run as the caller last wrote it (its revision says
\* which of running and waiting, or over), the schedule as it first read it.
Applies(i) ==
  /\ run[i].status = job[i].seen
  /\ schedule[job[i].id].rev = job[i].rev /\ schedule[job[i].id].status # "none"

\* onPermissionRequired: the run waits for the user.  When its guard fails
\* the callback throws, executeRun catches and reports a failure that meets
\* the same guard: the call ends and the run keeps its status.
RequirePermission(i) ==
  /\ job[i].pc = "execute" /\ job[i].seen = "running"
  /\ \/ /\ Applies(i)
        /\ run' = [run EXCEPT ![i].status = "waiting"]
        /\ job' = [job EXCEPT ![i].seen = "waiting"]
        /\ Notify
     \/ /\ ~Applies(i)
        /\ Ended(i) /\ RefreshAfter(i) /\ UNCHANGED run
  /\ UNCHANGED <<now, schedule, cursor, missed, phase, edits, boots>>

\* finish, for an execution that ended in any way and for a failed
\* preflight: the run and the summary of its schedule, or nothing.
Finish(i) ==
  /\ job[i].pc = "execute"
  /\ \/ /\ Applies(i)
        /\ run' = [run EXCEPT ![i].status = "finished"]
        /\ schedule' = [schedule EXCEPT ![job[i].id].rev = @ + 1]
     \/ ~Applies(i) /\ UNCHANGED <<run, schedule>>
  /\ Ended(i) /\ RefreshAfter(i)
  /\ UNCHANGED <<now, cursor, missed, phase, edits, boots>>

\* reconcilePermissions for one waiting run whose AI run has ended: it reads
\* the schedule again, so only a change between the two can refuse it, and
\* the next call tries once more.  At startup, or whenever runs are listed.
ReconcilePermission(i) ==
  /\ phase \in {"permissions", "up"} /\ run[i].status = "waiting"
  /\ schedule[run[i].id].status # "none"
  /\ run' = [run EXCEPT ![i].status = "finished"]
  /\ schedule' = [schedule EXCEPT ![run[i].id].rev = @ + 1]
  /\ Notify
  /\ UNCHANGED <<now, cursor, job, missed, phase, edits, boots>>

-----------------------------------------------------------------------------
(* The user's edits: save and delete with the revision they were read at.  *)

Edit(s, row) ==
  /\ phase = "up" /\ edits < MaxEdits
  /\ schedule' = [schedule EXCEPT ![s] = row]
  /\ edits' = edits + 1
  /\ Notify
  /\ UNCHANGED <<now, run, job, missed, phase, boots>>

Create(s) ==
  /\ schedule[s].status = "none" /\ schedule[s].rev = 0
  /\ \E c \in Crons, p \in Policies :
       Edit(s, [status |-> "active", rev |-> 1, cron |-> c, policy |-> p])
  /\ UNCHANGED cursor

Update(s) ==
  /\ schedule[s].status # "none"
  /\ \E c \in Crons :
       Edit(s, [schedule[s] EXCEPT !.rev = @ + 1, !.cron = c])
  /\ UNCHANGED cursor

PauseOrResume(s) ==
  /\ schedule[s].status # "none"
  /\ Edit(s, [schedule[s] EXCEPT !.rev = @ + 1,
                !.status = IF @ = "active" THEN "paused" ELSE "active"])
  /\ UNCHANGED cursor

\* Refused while a run is active; the cursor goes with the row.
Delete(s) ==
  /\ schedule[s].status # "none" /\ ~HasActiveRun(s)
  /\ Edit(s, [schedule[s] EXCEPT !.status = "none"])
  /\ cursor' = [cursor EXCEPT ![s] = NoCursor]

-----------------------------------------------------------------------------
(* Startup, in the order of main.ts.  The window opens last, so the user   *)
(* does nothing before "up".                                               *)

\* Mutant of DeadRuns: only what the timer started.
DeadCronRuns == {i \in RunIds : run[i].status = "running" /\ run[i].slot # None}
DeadRuns == {i \in RunIds : run[i].status = "running"}

\* recoverInterrupted: every running run ends as interrupted and its
\* schedule gets a summary, hence a revision.
RecoverInterrupted ==
  /\ phase = "interrupt"
  /\ run' = [i \in RunIds |-> IF i \in DeadRuns
                THEN [run[i] EXCEPT !.status = "interrupted"] ELSE run[i]]
  /\ schedule' = [s \in Ids |->
       IF schedule[s].status # "none" /\ \E i \in DeadRuns : run[i].id = s
       THEN [schedule[s] EXCEPT !.rev = @ + 1] ELSE schedule[s]]
  /\ phase' = "permissions"
  /\ UNCHANGED <<now, cursor, job, scheduler, missed, edits, boots>>

\* CronScheduleScheduler.start.
StartScheduler ==
  /\ phase = "permissions"
  /\ scheduler' = [Off EXCEPT !.running = TRUE, !.pending = "start"]
  /\ phase' = "starting"
  /\ UNCHANGED <<now, store, job, missed, edits, boots>>

\* Mutant of MissedTriggers: the cursors without a missed slot are listed too.
AllTriggers == {[id |-> s, rev |-> cursor[s].rev, slot |-> cursor[s].missed] :
                  s \in Cursors}

\* listMissedTriggers.
MissedTriggers == {[id |-> s, rev |-> cursor[s].rev, slot |-> cursor[s].missed] :
                     s \in {u \in Cursors : cursor[u].missed # None}}

\* start has been awaited; recoverMissed lists the missed triggers.
ListMissed ==
  /\ phase = "starting" /\ scheduler.pending # "start" /\ ~scheduler.op.preserve
  /\ missed' = MissedTriggers
  /\ phase' = "missed"
  /\ UNCHANGED <<now, store, job, scheduler, edits, boots>>

\* recoverMissedTrigger up to its transaction, one trigger after the other:
\* the schedule must still be the one the trigger was listed for.
RecoverMissed(m) ==
  LET current == IsActive(m.id) /\ schedule[m.id].rev = m.rev
  IN  /\ phase = "missed" /\ m \in missed
      /\ \A i \in RunIds : job[i].pc # "free" => job[i].kind = "cron"
      /\ missed' = missed \ {m}
      /\ \/ ~current /\ UNCHANGED job
         \/ /\ current /\ FreeIds # {}
            /\ job' = [job EXCEPT ![NewId] =
                 [FreeJob EXCEPT !.pc = "resolve", !.kind = "missed",
                    !.id = m.id, !.rev = m.rev, !.slot = m.slot]]
      /\ UNCHANGED <<now, store, scheduler, phase, edits, boots>>

\* resolveMissedTrigger: skipped or run once, as the policy says.
ResolveMissed(i) ==
  LET s == job[i].id
      stale == \/ ~IsActive(s) \/ schedule[s].rev # job[i].rev
               \/ cursor[s].rev # job[i].rev \/ cursor[s].missed # job[i].slot
      once == schedule[s].policy = "run_once"
      runs == ~stale /\ once /\ ~HasActiveRun(s)
  IN  /\ job[i].pc = "resolve"
      /\ cursor' = IF stale THEN cursor
                   ELSE [cursor EXCEPT ![s].missed = None]
      /\ run' = IF stale \/ ~once THEN run
                ELSE [run EXCEPT ![i] = NewRun(i, HasActiveRun(s))]
      /\ \/ runs /\ Executes(i)
         \/ ~runs /\ Ended(i)
      /\ UNCHANGED <<now, schedule, scheduler, missed, phase, edits,
                     boots>>

\* The refresh after recoverMissed, and the rest of the startup.
OpenWindow ==
  /\ phase = "missed" /\ missed = {}
  /\ \A i \in RunIds : job[i].pc # "free" => job[i].kind = "cron"
  /\ scheduler' = Enqueued("refresh")
  /\ phase' = "up"
  /\ UNCHANGED <<now, store, job, missed, edits, boots>>

\* The process ends, cleanly or not, and is started again after a while.
\* stop() has no step of its own: what a job still does between it and the
\* end of the process, it may as well do before.
Restart ==
  /\ boots < MaxBoots
  /\ boots' = boots + 1
  /\ \E t \in now..MaxTime : now' = t
  /\ phase' = "interrupt"
  /\ job' = [i \in RunIds |-> FreeJob]
  /\ scheduler' = Off
  /\ missed' = {}
  /\ UNCHANGED <<store, edits>>

\* The startup up to the catch-up takes no time on this clock.
Tick ==
  /\ now < MaxTime /\ phase \in {"missed", "up"}
  /\ now' = now + 1
  /\ UNCHANGED <<store, job, scheduler, missed, phase, edits, boots>>

-----------------------------------------------------------------------------
Init ==
  /\ now = 0
  /\ schedule = [s \in Ids |-> [status |-> "none", rev |-> 0, policy |-> "skip",
                                cron |-> CHOOSE c \in Crons : TRUE]]
  /\ run = [i \in RunIds |-> [id |-> None, rev |-> 0, slot |-> None,
                              status |-> "none"]]
  /\ cursor = [s \in Ids |-> NoCursor]
  /\ job = [i \in RunIds |-> FreeJob]
  /\ scheduler = Off /\ missed = {}
  /\ phase = "interrupt" /\ edits = 0 /\ boots = 0

SchedulerStep ==
  \/ ListSchedules \/ ReconcileTriggers \/ ArmNext
  \/ ContinueLongDelay \/ TimerFires
  \/ \E i \in RunIds : ClaimScheduledRun(i)

StartupStep ==
  \/ RecoverInterrupted \/ StartScheduler \/ ListMissed \/ OpenWindow
  \/ \E m \in missed : RecoverMissed(m)
  \/ \E i \in RunIds : ResolveMissed(i)

RunStep ==
  \E i \in RunIds : \/ StartRun(i) \/ RequirePermission(i) \/ Finish(i)
                    \/ ReconcilePermission(i)

UserStep ==
  \E s \in Ids : \/ RunNow(s) \/ Create(s) \/ Update(s) \/ PauseOrResume(s)
                 \/ Delete(s)

Next == SchedulerStep \/ StartupStep \/ RunStep \/ UserStep
        \/ Restart \/ Tick

Spec == Init /\ [][Next]_vars

\* Event loop and timers serve what is due.  Nothing is assumed of the user,
\* of the clock, or of an execution that may last as long as it likes.
FairSpec == Spec /\ WF_vars(SchedulerStep) /\ WF_vars(StartupStep)

-----------------------------------------------------------------------------
(* Properties.                                                             *)

TypeOK ==
  /\ now \in 0..MaxTime
  /\ schedule \in [Ids -> [status : {"none", "active", "paused"}, rev : Nat,
                           policy : Policies, cron : Crons]]
  /\ run \in [RunIds -> [id : Ids \cup {None}, rev : Nat, slot : Slots \cup {None},
                status : Active \cup {"none", "finished", "overlap",
                                      "interrupted"}]]
  /\ cursor \in [Ids -> [rev : Nat, due : Slots \cup {None},
                         missed : Slots \cup {None}]]
  /\ job \in [RunIds -> [pc : {"free", "claim", "start", "resolve",
                               "execute"},
                kind : {"cron", "manual", "missed"}, id : Ids \cup {None},
                rev : Nat, slot : Slots \cup {None}, next : Slots \cup {None},
                seen : Active \cup {"none"}]]
  /\ scheduler.running \in BOOLEAN
  /\ scheduler.pending \in {"none", "refresh", "start"}
  /\ scheduler.op.step \in {"none", "reconcile", "arm"}
  /\ missed \subseteq [id : Ids, rev : Nat, slot : Slots]
  /\ phase \in {"interrupt", "permissions", "starting", "missed", "up"}
  /\ edits \in 0..MaxEdits /\ boots \in 0..MaxBoots

\* A slot of a schedule is run at most once: not again by a timer that was
\* armed twice for it, not by the catch-up after a restart, and not under
\* another revision.
SlotRunsOnce ==
  \A i, j \in RunIds :
    run[i].slot # None /\ run[i].slot = run[j].slot /\ run[i].id = run[j].id
      => i = j

\* Two runs of one schedule are never under way together, whoever asked for
\* them: the timer, the user, the catch-up, or an approval given late.
OneActiveRun ==
  \A i, j \in RunIds :
    run[i].status \in Active /\ run[j].status \in Active /\ run[i].id = run[j].id
      => i = j

\* After recovery, a run that the store shows as running is being executed,
\* unless its schedule was edited or deleted after the run read it: then
\* finishRun refuses the result and the run blocks its schedule until the
\* next restart.
RunningIsExecuted ==
  \A i \in RunIds :
    run[i].status = "running" /\ phase # "interrupt" =>
      \/ job[i].pc = "execute"
      \/ schedule[run[i].id].rev # run[i].rev
      \/ schedule[run[i].id].status = "none"

\* No wake-up is lost: when nothing is queued or under way, the timer stands
\* for the earliest cursor, no paused or deleted schedule has a cursor, and
\* every active one has, unless its last change was the result of a run:
\* finish does not notify the scheduler, and a reconciliation that listed
\* the schedule before it leaves it without a cursor.
Quiet == /\ phase = "up"
         /\ scheduler.pending = "none" /\ scheduler.op = NoOp
         /\ \A i \in RunIds : job[i].pc # "claim"

LastChangedByRun(s) ==
  \E i \in RunIds : /\ run[i].id = s /\ run[i].status = "finished"
                    /\ schedule[s].rev = run[i].rev + 1

QuietIsArmed ==
  Quiet => /\ \A s \in Ids : /\ HasCursor(s) => IsActive(s)
                             /\ IsActive(s) => HasCursor(s) \/ LastChangedByRun(s)
           /\ Cursors # {} => /\ scheduler.timer.id \in Earliest
                              /\ scheduler.timer.due = cursor[scheduler.timer.id].due
           /\ Cursors = {} => scheduler.timer = NoTimer

\* A cursor leaves a due slot behind only with a run for it, or with the slot
\* (or an older one) noted as missed, or because it belongs to another
\* revision or to a schedule that is not active.
SlotIsNotDropped ==
  [][\A s \in Ids :
       (/\ HasCursor(s) /\ cursor[s].due <= now
        /\ cursor[s].rev = schedule'[s].rev /\ schedule'[s].status = "active"
        /\ cursor'[s].due # cursor[s].due)
       => \/ \E i \in RunIds : run'[i].id = s /\ run'[i].slot = cursor[s].due
          \/ cursor'[s].missed = cursor[s].due
          \/ cursor[s].missed # None /\ cursor'[s].missed = cursor[s].missed]_vars

\* A slot that falls due while the program is up is decided: its cursor
\* moves on.  (Or this instance has no run id left to decide it with.)
DueSlotIsDecided ==
  \A s \in Ids :
    (phase = "up" /\ HasCursor(s) /\ cursor[s].due <= now)
      ~> (phase # "up" \/ ~HasCursor(s) \/ cursor[s].due > now \/ FreeIds = {})

\* What the documentation says of slots missed while the program was not
\* running: the policy of the task decides.  So the first reconciliation of
\* a startup notes an overdue slot of an active run_once schedule as missed,
\* if nobody edited the schedule since its cursor was written.  A run that
\* was interrupted, or finished without a refresh, breaks it.
Unedited(s) ==
  \/ schedule[s].rev = cursor[s].rev
  \/ \E i \in RunIds : /\ run[i].id = s /\ run[i].rev = cursor[s].rev
                       /\ run[i].status \in {"finished", "interrupted"}
                       /\ schedule[s].rev = run[i].rev + 1

MissedSlotIsNoted ==
  [][\A s \in Ids :
       (/\ scheduler.op.preserve /\ scheduler.op.step = "reconcile"
        /\ scheduler'.op.step = "arm"
        /\ HasCursor(s) /\ cursor[s].due <= scheduler.op.at
        /\ IsActive(s) /\ schedule[s].policy = "run_once" /\ Unedited(s))
       => cursor'[s].missed # None]_vars

=============================================================================
