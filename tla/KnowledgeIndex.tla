--------------------------- MODULE KnowledgeIndex ---------------------------
(***************************************************************************)
(* The knowledge index: jobs and generations in SQLite, points in Qdrant,  *)
(* the worker that turns a pending job into the current generation, the    *)
(* loops that drive it, the garbage collector and what a startup does.     *)
(*                                                                         *)
(* The sources are knowledge notes: a note's version is part of the key of *)
(* its jobs, and archiving it withdraws its index.  A SQLite transaction   *)
(* or one Qdrant call is one step; the worker's program counter stops at   *)
(* the awaits between them.  A job and its generation are created together *)
(* and one for one, so both have the same number; numbers are in the order *)
(* of creation.  Only one process runs, so a job's numbers are its own.    *)
(***************************************************************************)
EXTENDS Integers, Sequences

CONSTANTS
  Notes,        \* knowledge notes
  Archivable,   \* those the user may archive
  Collectors,   \* calls of collect that can be under way together
  MaxRevision,  \* bound on the revisions of each note
  MaxJobs,      \* bound on the jobs ever made
  MaxFaults,    \* bound on failed calls of Qdrant or of the embedding
  MaxStarts     \* bound on starts; the last one is left running

ASSUME IndexAssumption ==
  /\ Archivable \subseteq Notes
  /\ MaxRevision \in [Notes -> Nat] /\ MaxJobs \in Nat
  /\ MaxFaults \in Nat /\ MaxStarts \in Nat

VARIABLES
  revision, archived,   \* the notes
  made,                 \* how many jobs there are
  about,                \* what a job was made for
  job, gen,             \* status of the job and of its generation
  saved,                \* generations whose manifest is in SQLite
  deleted,              \* generations marked deleted in Qdrant
  points,               \* what Qdrant holds of a generation
  asking,               \* saved notes whose enqueue is still to come
  hiding,               \* archived notes whose collection is still to come
  worker,               \* the run of executeNext in progress
  loop,                 \* who calls runNext: a drain, the rebuild or nobody
  collector,            \* calls of collect in progress
  app,                  \* phase of the program
  todo,                 \* what the startup has still to go through
  faults, starts

notes == <<revision, archived>>
store == <<made, about, job, gen, saved, deleted>>
callers == <<asking, hiding>>
vars == <<notes, store, points, callers, worker, loop, collector, app, todo,
          faults, starts>>

Ids == 1..MaxJobs
Made == 1..made
NoJob == [note |-> "none", rev |-> 0, startup |-> FALSE]
JobStatus == {"none", "pending", "running", "qdrant_written", "completed",
              "failed", "cancelled", "interrupted"}
GenStatus == {"none", "staging", "current", "retired", "failed"}
Steps == {"idle", "read", "save", "upsert", "mark", "verify", "check",
          "commit", "clean", "mend", "close"}

Idle == [pc |-> "idle", id |-> 0, started |-> FALSE, aborted |-> FALSE]
NoWork == [phase |-> "off", ids |-> {}]
Nothing == [jobs |-> {}, rebuild |-> {}, drain |-> FALSE, boot |-> FALSE]

JobsOf(n) == {i \in Made : about[i].note = n}
InStatus(st) == {i \in Made : job[i] = st}

\* isJobTargetCurrent, and the comparison of isCurrent: the note is active
\* and has the revision, and with it the version and text, of the job.
TargetCurrent(i) ==
  /\ about[i].note \notin archived
  /\ about[i].rev = revision[about[i].note]

-----------------------------------------------------------------------------
(* The queue.                                                              *)

\* Mutant of Replayed: any pending job of the note will do.
ReplayedByNote(n, r, startup) ==
  \E i \in JobsOf(n) :
    \/ job[i] = "pending"
    \/ about[i].rev = r /\ ~startup /\ ~about[i].startup

\* enqueue hands back a job with the same idempotency key, which a startup job
\* shares with nobody, or a pending job for the same target.
Replayed(n, r, startup) ==
  \E i \in JobsOf(n) :
    /\ about[i].rev = r
    /\ job[i] = "pending" \/ (~startup /\ ~about[i].startup)

Pending(n) == {i \in JobsOf(n) : job[i] = "pending"}

\* Mutant of Superseded: a superseded job keeps its generation.
SupersededNone(n) == {}

\* The generations a new job of the note makes failed.
Superseded(n) == Pending(n)

\* Otherwise another pending job of the note is cancelled, and a generation
\* in staging and its pending job are inserted.
Insert(n, r, startup) ==
  LET new == made + 1
  IN  /\ made < MaxJobs
      /\ made' = new
      /\ about' = [about EXCEPT ![new] = [note |-> n, rev |-> r, startup |-> startup]]
      /\ job' = [i \in Ids |-> IF i = new THEN "pending"
                               ELSE IF i \in Pending(n) THEN "cancelled" ELSE job[i]]
      /\ gen' = [i \in Ids |-> IF i = new THEN "staging"
                               ELSE IF i \in Superseded(n) THEN "failed" ELSE gen[i]]
      /\ UNCHANGED <<saved, deleted>>

EnqueueJob(n, r, startup) ==
  IF Replayed(n, r, startup) THEN UNCHANGED store ELSE Insert(n, r, startup)

\* Mutant of Drained: the job is left to a drain that somebody else schedules.
DrainedLater == loop

\* scheduleKnowledgeIndexDrain: a second loop gets "busy" and returns.
Drained == IF loop = "none" /\ app = "up" THEN "drain" ELSE loop

\* create and edit: the note is saved, its job is enqueued afterwards.
Write(n) ==
  /\ app = "up" /\ n \notin archived /\ revision[n] < MaxRevision[n]
  /\ revision' = [revision EXCEPT ![n] = @ + 1]
  /\ asking' = [asking EXCEPT ![n] = Append(@, revision[n] + 1)]
  /\ UNCHANGED <<archived, store, points, hiding, worker, loop, collector, app,
                 todo, faults, starts>>

\* enqueueSnapshot of the saved note, and the drain the caller schedules.
Enqueue(n) ==
  /\ app \in {"up", "stopping"} /\ asking[n] # <<>>
  /\ EnqueueJob(n, Head(asking[n]), FALSE)
  /\ asking' = [asking EXCEPT ![n] = Tail(@)]
  /\ loop' = Drained
  /\ UNCHANGED <<notes, points, hiding, worker, collector, app, todo, faults,
                 starts>>

Free == {c \in Collectors : collector[c] = NoWork}

\* listQdrantGarbage: what is retired or failed and not yet marked deleted.
Garbage == {i \in Made : gen[i] \in {"retired", "failed"} /\ i \notin deleted}

\* A call of collect, up to its first await.  When all collectors are busy
\* the call is left out.
StartCollect ==
  IF Free = {} \/ Garbage = {} THEN UNCHANGED collector
  ELSE LET c == CHOOSE x \in Free : TRUE
       IN  collector' = [collector EXCEPT ![c] = [phase |-> "delete", ids |-> Garbage]]

\* Mutant of MayArchive: a note that is archived is archived once more.
MayArchiveAgain(n) == n \in Archivable /\ revision[n] > 0

MayArchive(n) == n \in Archivable \ archived /\ revision[n] > 0

\* archive: one transaction; pending jobs are cancelled, whatever is in
\* staging fails, the current generation retires.
Archive(n) ==
  /\ app = "up" /\ MayArchive(n)
  /\ archived' = archived \cup {n}
  /\ revision' = [revision EXCEPT ![n] = @ + 1]
  /\ job' = [i \in Ids |-> IF i \in Pending(n) THEN "cancelled" ELSE job[i]]
  /\ gen' = [i \in Ids |->
               IF i \notin JobsOf(n) THEN gen[i]
               ELSE IF gen[i] = "staging" THEN "failed"
               ELSE IF gen[i] = "current" THEN "retired" ELSE gen[i]]
  /\ hiding' = hiding \cup {n}
  /\ UNCHANGED <<made, about, saved, deleted, points, asking, worker, loop,
                 collector, app, todo, faults, starts>>

\* visibility.hide of an archived note, after the transaction.
Hide(n) ==
  /\ app \in {"up", "stopping"} /\ n \in hiding
  /\ hiding' = hiding \ {n}
  /\ StartCollect
  /\ UNCHANGED <<notes, store, points, asking, worker, loop, app, todo, faults,
                 starts>>

-----------------------------------------------------------------------------
(* The worker.                                                             *)

Busy == worker.pc # "idle"
At(step) == worker.pc = step
Go(step) == worker' = [worker EXCEPT !.pc = step]

\* What an error does: points may have been written, so they are deleted.
Fail == Go(IF worker.started THEN "clean" ELSE "mend")

\* A call that can fail by itself does so a bounded number of times; an
\* aborted one fails freely.
Breaks ==
  \/ worker.aborted /\ UNCHANGED faults
  \/ faults < MaxFaults /\ faults' = faults + 1

\* claimNext: highest priority, then oldest; startup jobs come last.
Claimable ==
  {i \in InStatus("pending") : \A k \in InStatus("pending") :
     \/ ~about[i].startup /\ about[k].startup
     \/ about[i].startup = about[k].startup /\ i <= k}

Claim ==
  /\ ~Busy /\ loop # "none" /\ app \in {"up", "stopping"}
  /\ \E i \in Claimable :
       /\ job' = [job EXCEPT ![i] = "running"]
       /\ worker' = [Idle EXCEPT !.pc = "read", !.id = i]
  /\ UNCHANGED <<notes, made, about, gen, saved, deleted, points, callers, loop,
                 collector, app, todo, faults, starts>>

\* Nothing is pending: a drain collects garbage and returns, the rebuild
\* returns.
RunDry ==
  /\ ~Busy /\ loop # "none" /\ InStatus("pending") = {}
  /\ loop' = "none"
  /\ IF loop = "drain" THEN StartCollect ELSE UNCHANGED collector
  /\ UNCHANGED <<notes, store, points, callers, worker, app, todo, faults, starts>>

\* readFrozen, assertSnapshotMatchesJob and the embedding.
Read ==
  /\ At("read")
  /\ \/ TargetCurrent(worker.id) /\ Go("save") /\ UNCHANGED faults
     \/ ~TargetCurrent(worker.id) /\ Fail /\ UNCHANGED faults
     \/ Fail /\ Breaks
  /\ UNCHANGED <<notes, store, points, callers, loop, collector, app, todo, starts>>

\* saveGenerationManifest and saveSearchPoints: the rows are inserted once,
\* and only while the generation is in staging.
SaveManifest ==
  /\ At("save")
  /\ IF gen[worker.id] = "staging" /\ worker.id \notin saved
     THEN /\ saved' = saved \cup {worker.id}
          /\ worker' = [worker EXCEPT !.pc = "upsert", !.started = TRUE]
     ELSE Fail /\ UNCHANGED saved
  /\ UNCHANGED <<notes, made, about, job, gen, deleted, points, callers, loop,
                 collector, app, todo, faults, starts>>

\* upsertPoints; one that fails may have written any part.
Upsert ==
  /\ At("upsert")
  /\ \/ points' = [points EXCEPT ![worker.id] = "full"] /\ Go("mark") /\ UNCHANGED faults
     \/ \E p \in {"none", "part", "full"} :
          points' = [points EXCEPT ![worker.id] = p] /\ Fail /\ Breaks
  /\ UNCHANGED <<notes, store, callers, loop, collector, app, todo, starts>>

Mark ==
  /\ At("mark")
  /\ job' = [job EXCEPT ![worker.id] = "qdrant_written"]
  /\ Go("verify")
  /\ UNCHANGED <<notes, made, about, gen, saved, deleted, points, callers, loop,
                 collector, app, todo, faults, starts>>

\* verifyGeneration.
Verify ==
  /\ At("verify")
  /\ \/ points[worker.id] = "full" /\ Go("check") /\ UNCHANGED faults
     \/ points[worker.id] # "full" /\ Fail /\ UNCHANGED faults
     \/ Fail /\ Breaks
  /\ UNCHANGED <<notes, store, points, callers, loop, collector, app, todo, starts>>

\* isCurrent.
Check ==
  /\ At("check")
  /\ IF TargetCurrent(worker.id) THEN Go("commit") ELSE Fail
  /\ UNCHANGED <<notes, store, points, callers, loop, collector, app, todo,
                 faults, starts>>

\* Mutant of Promotes: the check before the commit is taken for enough.
PromotesUnchecked(i) == job[i] = "qdrant_written" /\ gen[i] = "staging"

\* commitGeneration's conditions, and what it writes.
Promotes(i) ==
  job[i] = "qdrant_written" /\ gen[i] = "staging" /\ TargetCurrent(i)

\* Mutant of Promoted: the generation that was current is left as it is.
PromotedBesides(i) == [gen EXCEPT ![i] = "current"]

Promoted(i) ==
  [k \in Ids |-> IF k = i THEN "current"
                 ELSE IF k \in JobsOf(about[i].note) /\ gen[k] = "current"
                      THEN "retired" ELSE gen[k]]

\* A loop whose program stops may be gone by the time it would go on; the
\* startup rebuild asks nobody and goes on.
After ==
  IF loop = "drain" /\ app = "stopping" THEN {"none", "drain"} ELSE {loop}

Commit ==
  /\ At("commit")
  /\ IF Promotes(worker.id)
     THEN /\ gen' = Promoted(worker.id)
          /\ job' = [job EXCEPT ![worker.id] = "completed"]
          /\ worker' = Idle /\ loop' \in After
     ELSE Fail /\ UNCHANGED <<job, gen, loop>>
  /\ UNCHANGED <<notes, made, about, saved, deleted, points, callers, collector,
                 app, todo, faults, starts>>

\* The catch block deletes the points first; a deletion that fails is left
\* to the garbage collector.
Clean ==
  /\ At("clean")
  /\ \/ points' = [points EXCEPT ![worker.id] = "none"] /\ UNCHANGED faults
     \/ UNCHANGED points /\ Breaks
  /\ Go("mend")
  /\ UNCHANGED <<notes, store, callers, loop, collector, app, todo, starts>>

\* An aborted job is interrupted and its loop returns.
Interrupt ==
  /\ At("mend") /\ worker.aborted
  /\ job' = [job EXCEPT ![worker.id] = "interrupted"]
  /\ worker' = Idle
  /\ loop' = IF loop = "drain" THEN "none" ELSE loop
  /\ UNCHANGED <<notes, made, about, gen, saved, deleted, points, callers,
                 collector, app, todo, faults, starts>>

\* transitionGeneration fails the staging generation; a generation that is
\* not in staging makes it throw, which ends the loop and leaves the job.
FailGeneration ==
  /\ At("mend") /\ ~worker.aborted
  /\ IF gen[worker.id] = "staging"
     THEN gen' = [gen EXCEPT ![worker.id] = "failed"] /\ Go("close") /\ UNCHANGED loop
     ELSE worker' = Idle /\ loop' = "none" /\ UNCHANGED gen
  /\ UNCHANGED <<notes, made, about, job, saved, deleted, points, callers,
                 collector, app, todo, faults, starts>>

\* transitionJob to failed; the loop goes on.
CloseJob ==
  /\ At("close")
  /\ job' = [job EXCEPT ![worker.id] = "failed"]
  /\ worker' = Idle /\ loop' \in After
  /\ UNCHANGED <<notes, made, about, gen, saved, deleted, points, callers,
                 collector, app, todo, faults, starts>>

Work ==
  \/ Claim \/ RunDry \/ Read \/ SaveManifest \/ Upsert \/ Mark \/ Verify
  \/ Check \/ Commit \/ Clean \/ Interrupt \/ FailGeneration \/ CloseJob

-----------------------------------------------------------------------------
(* The garbage collector.                                                  *)

\* Mutant of Abandoned: a deletion that failed is marked all the same.
AbandonedLate(c) == [collector[c] EXCEPT !.phase = "mark"]

\* A deletion that fails ends the call; its generations stay garbage.
Abandoned(c) == NoWork

\* deleteGenerations: done, or failed and left for another time.
DeletePoints(c) ==
  /\ collector[c].phase = "delete"
  /\ \/ /\ points' = [i \in Ids |-> IF i \in collector[c].ids THEN "none" ELSE points[i]]
        /\ collector' = [collector EXCEPT ![c].phase = "mark"]
        /\ UNCHANGED faults
     \/ /\ faults < MaxFaults /\ faults' = faults + 1
        /\ collector' = [collector EXCEPT ![c] = Abandoned(c)]
        /\ UNCHANGED points
  /\ UNCHANGED <<notes, store, callers, worker, loop, app, todo, starts>>

\* markQdrantDeletedBatch marks those not marked before; that it reports a
\* conflict when some were changes nothing.
MarkDeleted(c) ==
  /\ collector[c].phase = "mark"
  /\ deleted' = deleted \cup (collector[c].ids \cap Garbage)
  /\ collector' = [collector EXCEPT ![c] = NoWork]
  /\ UNCHANGED <<notes, made, about, job, gen, saved, points, callers, worker,
                 loop, app, todo, faults, starts>>

Collect == \E c \in Collectors : DeletePoints(c) \/ MarkDeleted(c)

-----------------------------------------------------------------------------
(* Startup, shutdown and crash.                                            *)

\* recoverInterrupted: of the jobs cut off, those with a successor that is
\* pending or was cut off later are cancelled, the others pend again.
CutOff == InStatus("running") \cup InStatus("interrupted")
Overtaken ==
  {i \in CutOff : \E k \in JobsOf(about[i].note) :
     job[k] = "pending" \/ (k \in CutOff /\ k > i)}

Start ==
  /\ app = "down" /\ starts < MaxStarts /\ starts' = starts + 1
  /\ job' = [i \in Ids |-> IF i \in Overtaken THEN "cancelled"
                           ELSE IF i \in CutOff THEN "pending" ELSE job[i]]
  /\ gen' = [i \in Ids |-> IF i \in Overtaken /\ gen[i] = "staging" THEN "failed"
                           ELSE gen[i]]
  /\ app' = "starting"
  /\ UNCHANGED <<notes, made, about, saved, deleted, points, callers, worker,
                 loop, collector, todo, faults>>

\* listQdrantWrittenRecovery: a written job whose generation is not in
\* staging makes it throw, and main.ts shows the error and quits.
ListWritten ==
  /\ app = "starting"
  /\ IF \A i \in InStatus("qdrant_written") : gen[i] = "staging"
     THEN /\ app' = "recovering"
          /\ todo' = [Nothing EXCEPT !.jobs = InStatus("qdrant_written")]
     ELSE app' = "refused" /\ UNCHANGED todo
  /\ UNCHANGED <<notes, store, points, callers, worker, loop, collector,
                 faults, starts>>

\* Mutant of IsComplete: the points are not counted.
IsCompleteUncounted(i) == gen[i] = "staging"

\* isCompleteGeneration.
IsComplete(i) == gen[i] = "staging" /\ points[i] = "full"

\* One candidate of recover: points that cannot be read defer it, incomplete
\* ones fail it, complete ones are committed if the note is still the same.
RecoverJob(i) ==
  /\ app = "recovering" /\ i \in todo.jobs
  /\ todo' = [todo EXCEPT !.jobs = @ \ {i}]
  /\ \/ faults < MaxFaults /\ faults' = faults + 1 /\ UNCHANGED <<job, gen>>
     \/ /\ UNCHANGED faults
        /\ IF IsComplete(i) /\ Promotes(i)
           THEN gen' = Promoted(i) /\ job' = [job EXCEPT ![i] = "completed"]
           ELSE /\ gen' = [gen EXCEPT ![i] = "failed"]
                /\ job' = [job EXCEPT ![i] = "failed"]
  /\ UNCHANGED <<notes, made, about, saved, deleted, points, callers, worker,
                 loop, collector, app, starts>>

\* The recovery ends with a collection.  Qdrant holds no generation that
\* SQLite does not know, so there are no orphans to add.
RecoverGarbage ==
  /\ app = "recovering" /\ todo.jobs = {}
  /\ app' = "collecting"
  /\ StartCollect
  /\ UNCHANGED <<notes, store, points, callers, worker, loop, todo, faults, starts>>

\* The rebuild lists the active notes and runs in the background.
GoUp ==
  /\ app = "collecting" /\ Free = Collectors
  /\ app' = "up"
  /\ todo' = [jobs |-> {}, rebuild |-> {n \in Notes \ archived : revision[n] > 0},
              drain |-> FALSE, boot |-> TRUE]
  /\ UNCHANGED <<notes, store, points, callers, worker, loop, collector, faults,
                 starts>>

\* One target of the rebuild: read and enqueued, or counted as failed, here
\* as well when the bound on jobs is reached.
Rebuild(n) ==
  /\ app \in {"up", "stopping"} /\ n \in todo.rebuild
  /\ IF n \in archived \/ made = MaxJobs
     THEN todo' = [todo EXCEPT !.rebuild = @ \ {n}] /\ UNCHANGED store
     ELSE /\ todo' = [todo EXCEPT !.rebuild = @ \ {n}, !.drain = TRUE]
          /\ EnqueueJob(n, revision[n], TRUE)
  /\ UNCHANGED <<notes, points, callers, worker, loop, collector, app, faults,
                 starts>>

\* Then, if it enqueued anything, it drains the queue itself; a worker that is
\* busy makes it give up.
RebuildDrain ==
  /\ app \in {"up", "stopping"} /\ todo.drain /\ todo.rebuild = {}
  /\ todo' = [todo EXCEPT !.drain = FALSE]
  /\ loop' = IF loop = "none" THEN "rebuild" ELSE loop
  /\ UNCHANGED <<notes, store, points, callers, worker, collector, app, faults,
                 starts>>

\* The drain that main.ts schedules at the end of the startup.
BootDrain ==
  /\ app = "up" /\ todo.boot
  /\ todo' = [todo EXCEPT !.boot = FALSE]
  /\ loop' = Drained
  /\ UNCHANGED <<notes, store, points, callers, worker, collector, app, faults,
                 starts>>

\* stop aborts the run in progress.
Shutdown ==
  /\ app = "up" /\ starts < MaxStarts
  /\ app' = "stopping"
  /\ worker' = IF Busy THEN [worker EXCEPT !.aborted = TRUE] ELSE worker
  /\ UNCHANGED <<notes, store, points, callers, loop, collector, todo, faults, starts>>

Gone ==
  /\ app' = "down" /\ worker' = Idle /\ loop' = "none" /\ todo' = Nothing
  /\ asking' = [n \in Notes |-> <<>>] /\ hiding' = {}
  /\ collector' = [c \in Collectors |-> NoWork]
  /\ UNCHANGED <<notes, store, points, faults, starts>>

\* The shutdown waits for the worker and for the rebuild.
Exit ==
  /\ app = "stopping" /\ ~Busy /\ loop # "rebuild" /\ todo.rebuild = {} /\ ~todo.drain
  /\ Gone

Crash ==
  /\ app \in {"starting", "recovering", "collecting", "up", "stopping"} /\ starts < MaxStarts
  /\ Gone

Boot ==
  \/ Start \/ ListWritten \/ RecoverGarbage \/ GoUp \/ RebuildDrain \/ BootDrain
  \/ \E i \in Ids : RecoverJob(i)
  \/ \E n \in Notes : Rebuild(n)

Init ==
  /\ revision = [n \in Notes |-> 0] /\ archived = {}
  /\ made = 0
  /\ about = [i \in Ids |-> NoJob]
  /\ job = [i \in Ids |-> "none"] /\ gen = [i \in Ids |-> "none"]
  /\ saved = {} /\ deleted = {}
  /\ points = [i \in Ids |-> "none"]
  /\ asking = [n \in Notes |-> <<>>] /\ hiding = {}
  /\ worker = Idle /\ loop = "none"
  /\ collector = [c \in Collectors |-> NoWork]
  /\ app = "down" /\ todo = Nothing
  /\ faults = 0 /\ starts = 0

Next ==
  \/ Work \/ Collect \/ Boot \/ Shutdown \/ Exit \/ Crash
  \/ \E n \in Notes : Write(n) \/ Enqueue(n) \/ Archive(n) \/ Hide(n)

Spec == Init /\ [][Next]_vars

\* The worker's promises settle and the startup runs to its end; nothing
\* obliges the user, a caller or the garbage collector to act.
FairSpec == Spec /\ WF_vars(Work) /\ WF_vars(Boot)

-----------------------------------------------------------------------------
(* Properties.                                                             *)

\* Every variable keeps its shape: the job numbers given out are the first
\* ones, and the worker works on one of them.
TypeOK ==
  /\ revision \in [Notes -> Nat] /\ \A n \in Notes : revision[n] <= MaxRevision[n] + 1
  /\ archived \subseteq Archivable
  /\ made \in 0..MaxJobs
  /\ about \in [Ids -> [note : Notes \cup {"none"}, rev : Nat,
                        startup : BOOLEAN]]
  /\ job \in [Ids -> JobStatus] /\ gen \in [Ids -> GenStatus]
  /\ \A i \in Ids : i > made <=> job[i] = "none" /\ gen[i] = "none"
  /\ saved \subseteq Made /\ deleted \subseteq Made
  /\ points \in [Ids -> {"none", "part", "full"}]
  /\ asking \in [Notes -> Seq(Nat)] /\ hiding \subseteq archived
  /\ worker \in [pc : Steps, id : 0..MaxJobs, started : BOOLEAN, aborted : BOOLEAN]
  /\ Busy => worker.id \in Made
  /\ loop \in {"none", "drain", "rebuild"}
  /\ collector \in [Collectors -> [phase : {"off", "delete", "mark"}, ids : SUBSET Made]]
  /\ app \in {"down", "starting", "recovering", "collecting", "up", "stopping", "refused"}
  /\ todo \in [jobs : SUBSET Made, rebuild : SUBSET Notes, drain : BOOLEAN,
              boot : BOOLEAN]
  /\ faults \in 0..MaxFaults /\ starts \in 0..MaxStarts

Current(n) == {i \in JobsOf(n) : gen[i] = "current"}

\* A search finds at most one generation of a note, whatever attempts of the
\* worker and of the recovery were cut off in between (knowledge-search-store.ts
\* joins every generation that is current).
OneCurrent == \A n \in Notes : \A i, k \in Current(n) : i = k

\* What a search is sent to is all there: no catch block, collection or
\* recovery ever deletes, or promotes without, the points of the generation
\* that is current.
CurrentIsComplete == \A i \in Ids : gen[i] = "current" => points[i] = "full"

\* A job and its generation tell the same story once the job is over.  A job
\* that was superseded or failed leaves no generation in staging, which
\* nothing would ever collect.
JobOutcome ==
  \A i \in Ids :
    /\ job[i] = "completed" => gen[i] \in {"current", "retired"}
    /\ job[i] \in {"failed", "cancelled"} => gen[i] = "failed"

\* The comment of the worker's catch block calls a failed generation a
\* durable backlog of the collector: of a note that is not archived, no
\* generation is marked deleted while Qdrant still holds points of it.
BacklogIsKept ==
  \A i \in deleted : about[i].note \notin archived => points[i] = "none"

\* A job whose generation failed without it: every attempt at it throws.
Stuck == \E i \in Made :
  job[i] \in {"pending", "running", "qdrant_written"} /\ gen[i] # "staging"

\* Nothing is under way and nothing is left to do.
Quiet ==
  /\ app = "up" /\ loop = "none" /\ ~Busy /\ todo = Nothing
  /\ \A n \in Notes : asking[n] = <<>>

\* As long as no call failed and the program ran on, the index shows the last
\* revision of every note once the worker has nothing left to do, in whatever
\* order edits, enqueues, superseded jobs and drains came.  (An archived note
\* whose job runs makes the loop throw; the jobs behind it are left.)
FreshWhenQuiet ==
  Quiet /\ faults = 0 /\ starts = 1 /\ ~Stuck =>
    \A n \in Notes \ archived :
      revision[n] > 0 => \E i \in Current(n) : about[i].rev = revision[n]

Shown ==
  [n \in Notes |-> IF Current(n) = {} THEN 0
                   ELSE about[CHOOSE i \in Current(n) : TRUE].rev]

Contract == INSTANCE IndexContract WITH shown <- Shown

\* What a search is shown changes only to the note's present revision, by a
\* commit or a recovery, or to nothing when the note is archived: a failed
\* rebuild, a crash, a restart or a collection never takes it away.
ContractSpec == Contract!Spec

\* A job that pends while the program is up is claimed or superseded, unless
\* a job that makes its loop throw is about: a drain that finds the worker
\* busy returns, and the loop that keeps it busy must come to the job.
PendingIsServed ==
  \A i \in Ids :
    job[i] = "pending" /\ app = "up" ~> job[i] # "pending" \/ app # "up" \/ Stuck

\* docs/architecture.md:265: "Startup recovery continues `qdrant_written`
\* jobs, removes incomplete staging/orphan data".  No stored state makes the
\* program refuse to start.
StartupNeverRefuses == app # "refused"

=============================================================================
