------------------------ MODULE KnowledgeIndexProofs ------------------------
(***************************************************************************)
(* Theorems about KnowledgeIndex, for any notes, any number of revisions,  *)
(* jobs, collections, failed calls and starts.                             *)
(***************************************************************************)
EXTENDS KnowledgeIndex, TLAPS

-----------------------------------------------------------------------------
(* The inductive invariant.  What a search relies on holds because a job   *)
(* and its generation move together, because only the worker or the        *)
(* recovery, never both, holds a job that is not pending, and because the  *)
(* collections hold only generations that will never be current again.     *)

\* The numbers given out are the rows there are, each of a written note.
Numbered ==
  \A i \in Ids :
    /\ i > made <=> job[i] = "none"
    /\ i > made <=> gen[i] = "none"
    /\ i \in Made => about[i].note \in Notes /\ about[i].rev > 0

\* The bound on revisions leaves room for the one an archive makes.
Bounded == \A n \in Notes \ archived : revision[n] <= MaxRevision[n]

\* Only written notes are asked for.
Requested ==
  /\ asking \in [Notes -> Seq(Nat \ {0})]
  /\ \A n \in todo.rebuild : revision[n] > 0

\* A job and its generation tell the same story.
Matched ==
  \A i \in Ids :
    /\ job[i] = "completed" <=> gen[i] \in {"current", "retired"}
    /\ job[i] \in {"failed", "cancelled"} => gen[i] = "failed"

\* The worker's job is its own, and what it verifies is written unless an
\* archive has failed its generation.
WorkerHolds ==
  Busy =>
    /\ app \in {"up", "stopping"}
    /\ job[worker.id] \in {"running", "qdrant_written"}
    /\ At("close") => gen[worker.id] = "failed"
    /\ worker.pc \in {"mark", "verify", "check", "commit"}
         /\ gen[worker.id] = "staging" => points[worker.id] = "full"

\* A collection deletes what will never be current.
Swept ==
  \A c \in Collectors : \A i \in collector[c].ids : gen[i] \in {"retired", "failed"}

\* The candidates of the recovery are as they were listed.
Listed ==
  \A i \in todo.jobs :
    app = "recovering" /\ job[i] = "qdrant_written" /\ gen[i] = "staging"

IInv ==
  /\ TypeOK /\ Numbered /\ Bounded /\ Requested
  /\ Matched /\ WorkerHolds /\ Swept /\ Listed
  /\ OneCurrent /\ CurrentIsComplete

-----------------------------------------------------------------------------
(* The steps, by what they do to the rows of the queue.                    *)

Rows == <<made, about, job, gen>>

\* The rows the steps read and write.
LEMMA RowTypes ==
  ASSUME IInv
  PROVE  /\ made \in Nat /\ Made \subseteq Ids
         /\ job \in [Ids -> JobStatus] /\ gen \in [Ids -> GenStatus]
         /\ about \in [Ids -> [note : Notes \cup {"none"}, rev : Nat, startup : BOOLEAN]]
BY IndexAssumption DEF IndexAssumption, IInv, TypeOK, Made, Ids

\* The job in the worker's hands, and its generation.
LEMMA Held ==
  ASSUME IInv, Busy
  PROVE  /\ worker.id \in Made /\ worker.id \in Ids
         /\ app \in {"up", "stopping"}
         /\ job[worker.id] \in {"running", "qdrant_written"}
         /\ gen[worker.id] \in {"staging", "failed"}
         /\ At("close") => gen[worker.id] = "failed"
<1>1. /\ worker.id \in Made /\ worker.id \in Ids
      /\ app \in {"up", "stopping"}
      /\ job[worker.id] \in {"running", "qdrant_written"}
      /\ At("close") => gen[worker.id] = "failed"
  BY RowTypes DEF IInv, TypeOK, WorkerHolds
<1>2. gen[worker.id] \in GenStatus /\ gen[worker.id] # "none"
  BY <1>1, RowTypes DEF IInv, Numbered, Made
<1> QED BY <1>1, <1>2 DEF IInv, Matched, GenStatus

LEMMA RowSteps ==
  ASSUME IInv, Next
  PROVE  \/ UNCHANGED Rows
         \/ \E n \in Notes, r \in Nat \ {0}, s \in BOOLEAN : Insert(n, r, s)
         \/ \E n \in Notes : Archive(n)
         \/ Claim \/ Mark \/ Interrupt \/ FailGeneration \/ CloseJob
         \/ Commit /\ Promotes(worker.id)
         \/ Start \/ \E i \in Ids : RecoverJob(i)
<1>1. CASE \E n \in Notes : Write(n) \/ Hide(n)
  BY <1>1 DEF Write, Hide, Rows, store
<1>2. ASSUME NEW n \in Notes, Enqueue(n)
      PROVE  /\ UNCHANGED Rows \/ Insert(n, Head(asking[n]), FALSE)
             /\ UNCHANGED Rows \/ Head(asking[n]) \in Nat \ {0}
  <2>1. asking[n] \in Seq(Nat \ {0}) /\ asking[n] # <<>>
    BY <1>2 DEF IInv, Requested, Enqueue
  <2>2. Head(asking[n]) \in Nat \ {0}
    BY <2>1
  <2>3. UNCHANGED Rows \/ Insert(n, Head(asking[n]), FALSE)
    BY <1>2 DEF Enqueue, EnqueueJob, Rows, store
  <2> QED BY <2>2, <2>3
<1>3. ASSUME NEW n \in Notes, Rebuild(n)
      PROVE  /\ UNCHANGED Rows \/ Insert(n, revision[n], TRUE)
             /\ UNCHANGED Rows \/ revision[n] \in Nat \ {0}
  <2>1. revision[n] \in Nat \ {0}
    BY <1>3 DEF IInv, TypeOK, Requested, Rebuild
  <2>2. UNCHANGED Rows \/ Insert(n, revision[n], TRUE)
    BY <1>3 DEF Rebuild, EnqueueJob, Rows, store
  <2> QED BY <2>1, <2>2
<1>4. CASE RunDry \/ Read \/ SaveManifest \/ Upsert \/ Verify \/ Check \/ Clean
  BY <1>4 DEF RunDry, Read, SaveManifest, Upsert, Verify, Check, Clean, Rows, store
<1>5. CASE Commit /\ ~Promotes(worker.id)
  BY <1>5 DEF Commit, Rows
<1>6. CASE Collect
  BY <1>6 DEF Collect, DeletePoints, MarkDeleted, Rows, store
<1>7. CASE ListWritten \/ RecoverGarbage \/ GoUp \/ RebuildDrain \/ BootDrain
  BY <1>7 DEF ListWritten, RecoverGarbage, GoUp, RebuildDrain, BootDrain, Rows, store
<1>8. CASE Shutdown \/ Exit \/ Crash
  BY <1>8 DEF Shutdown, Exit, Crash, Gone, Rows, store
<1> QED BY <1>1, <1>2, <1>3, <1>4, <1>5, <1>6, <1>7, <1>8 DEF Next, Work, Boot

\* A job and its generation change together, so that they match after any step
\* as before it.
LEMMA MatchedStep ==
  ASSUME IInv, Next
  PROVE  Matched'
<1>1. CASE UNCHANGED Rows
  BY <1>1 DEF Rows, IInv, Matched
<1>2. ASSUME NEW n \in Notes, NEW r \in Nat \ {0}, NEW s \in BOOLEAN, Insert(n, r, s)
      PROVE  Matched'
  BY <1>2, RowTypes DEF Insert, Pending, Superseded, JobsOf, JobStatus, GenStatus,
    IInv, Matched, Numbered
<1>3. ASSUME NEW n \in Notes, Archive(n)
      PROVE  Matched'
  BY <1>3, RowTypes DEF Archive, Pending, JobsOf, JobStatus, GenStatus,
    IInv, Matched, Numbered, Made
<1>4. CASE Claim
  BY <1>4, RowTypes DEF Claim, Claimable, InStatus, JobStatus, GenStatus,
    IInv, Matched, Numbered, Made
<1>5. CASE Mark \/ Interrupt
  <2>1. Busy /\ gen' = gen
    BY <1>5 DEF Mark, Interrupt, Busy, At
  <2>2. job' \in {[job EXCEPT ![worker.id] = "qdrant_written"],
                   [job EXCEPT ![worker.id] = "interrupted"]}
    BY <1>5 DEF Mark, Interrupt
  <2> QED BY <2>1, <2>2, Held, RowTypes DEF IInv, Matched
<1>6. CASE FailGeneration
  <2>1. Busy /\ job' = job /\ gen' \in {gen, [gen EXCEPT ![worker.id] = "failed"]}
    BY <1>6 DEF FailGeneration, Busy, At
  <2> QED BY <2>1, Held, RowTypes DEF IInv, Matched
<1>7. CASE CloseJob
  <2>1. /\ Busy /\ At("close")
        /\ gen' = gen /\ job' = [job EXCEPT ![worker.id] = "failed"]
    BY <1>7 DEF CloseJob, Busy, At
  <2> QED BY <2>1, Held, RowTypes DEF IInv, Matched
<1>8. CASE Commit /\ Promotes(worker.id)
  <2>1. /\ Busy /\ gen' = Promoted(worker.id)
        /\ job' = [job EXCEPT ![worker.id] = "completed"]
    BY <1>8 DEF Commit, Busy, At
  <2> QED BY <2>1, Held, RowTypes DEF IInv, Matched, Promoted, JobsOf
<1>9. CASE Start
  BY <1>9, RowTypes DEF Start, Overtaken, CutOff, InStatus, JobStatus, GenStatus,
    IInv, Matched, Numbered, Made
<1>10. ASSUME NEW i \in Ids, RecoverJob(i)
       PROVE  Matched'
  <2>1. \/ UNCHANGED <<job, gen>>
        \/ gen' = Promoted(i) /\ job' = [job EXCEPT ![i] = "completed"]
        \/ gen' = [gen EXCEPT ![i] = "failed"] /\ job' = [job EXCEPT ![i] = "failed"]
    BY <1>10 DEF RecoverJob
  <2> QED BY <2>1, RowTypes DEF IInv, Matched, Promoted, JobsOf
<1> QED BY <1>1, <1>2, <1>3, <1>4, <1>5, <1>6, <1>7, <1>8, <1>9, <1>10, RowSteps

LEMMA NumberedStep ==
  ASSUME IInv, Next
  PROVE  Numbered'
<1>1. CASE UNCHANGED Rows
  BY <1>1 DEF Rows, IInv, Numbered, Made
<1>2. ASSUME NEW n \in Notes, NEW r \in Nat \ {0}, NEW s \in BOOLEAN, Insert(n, r, s)
      PROVE  Numbered'
  <2> DEFINE new == made + 1
  <2>1. /\ new \in Ids /\ made' = new
        /\ about' = [about EXCEPT ![new] = [note |-> n, rev |-> r, startup |-> s]]
    BY <1>2, RowTypes, IndexAssumption DEF Insert, IndexAssumption, Ids
  <2>2. \A i \in Ids : i > made' <=> job'[i] = "none"
    BY <1>2, <2>1, RowTypes DEF Insert, Pending, JobsOf, IInv, Numbered, Ids
  <2>3. \A i \in Ids : i > made' <=> gen'[i] = "none"
    BY <1>2, <2>1, RowTypes DEF Insert, Superseded, Pending, JobsOf, Made, IInv, Numbered, Ids
  <2>4. ASSUME NEW i \in Ids, i \in 1..made'
        PROVE  about'[i].note \in Notes /\ about'[i].rev > 0
    <3>1. CASE i = new
      BY <3>1, <2>1, RowTypes
    <3>2. CASE i # new
      BY <3>2, <2>1, <2>4, RowTypes DEF IInv, Numbered, Made
    <3> QED BY <3>1, <3>2
  <2> QED BY <2>2, <2>3, <2>4 DEF Numbered, Made
<1>3. ASSUME NEW n \in Notes, Archive(n)
      PROVE  Numbered'
  BY <1>3, RowTypes DEF Archive, Pending, JobsOf, Made, IInv, Numbered, JobStatus, GenStatus
<1>4. CASE Claim
  BY <1>4, RowTypes DEF Claim, Claimable, InStatus, Made, IInv, Numbered
<1>5. CASE Mark \/ Interrupt \/ FailGeneration \/ CloseJob \/ (Commit /\ Promotes(worker.id))
  <2>1. Busy /\ UNCHANGED <<made, about>>
    BY <1>5 DEF Mark, Interrupt, FailGeneration, CloseJob, Commit, Busy, At
  <2>2. \E x \in {"qdrant_written", "interrupted", "completed", "failed"} :
          job' \in {job, [job EXCEPT ![worker.id] = x]}
    BY <1>5 DEF Mark, Interrupt, FailGeneration, CloseJob, Commit
  <2>3. gen' \in {gen, [gen EXCEPT ![worker.id] = "failed"], Promoted(worker.id)}
    BY <1>5 DEF Mark, Interrupt, FailGeneration, CloseJob, Commit
  <2>4. \A i \in Ids : job'[i] = "none" <=> job[i] = "none"
    BY <2>1, <2>2, Held, RowTypes
  <2>5. \A i \in Ids : gen'[i] = "none" <=> gen[i] = "none"
    BY <2>1, <2>3, Held, RowTypes DEF Promoted
  <2> QED BY <2>1, <2>4, <2>5 DEF IInv, Numbered, Made
<1>6. CASE Start
  <2>1. /\ UNCHANGED <<made, about>>
        /\ \A i \in Ids : job'[i] = "none" <=> job[i] = "none"
        /\ \A i \in Ids : gen'[i] = "none" <=> gen[i] = "none"
    BY <1>6, RowTypes DEF Start, Overtaken, CutOff, InStatus
  <2> QED BY <2>1 DEF IInv, Numbered, Made
<1>7. ASSUME NEW i \in Ids, RecoverJob(i)
      PROVE  Numbered'
  <2>1. /\ job[i] = "qdrant_written" /\ gen[i] = "staging" /\ UNCHANGED <<made, about>>
        /\ \/ UNCHANGED <<job, gen>>
           \/ gen' = Promoted(i) /\ job' = [job EXCEPT ![i] = "completed"]
           \/ gen' = [gen EXCEPT ![i] = "failed"] /\ job' = [job EXCEPT ![i] = "failed"]
    BY <1>7 DEF RecoverJob, IInv, Listed
  <2>2. \A k \in Ids : job'[k] = "none" <=> job[k] = "none"
    BY <2>1, RowTypes
  <2>3. \A k \in Ids : gen'[k] = "none" <=> gen[k] = "none"
    BY <2>1, RowTypes DEF Promoted
  <2> QED BY <2>1, <2>2, <2>3 DEF IInv, Numbered, Made
<1> QED BY <1>1, <1>2, <1>3, <1>4, <1>5, <1>6, <1>7, RowSteps

-----------------------------------------------------------------------------
(* Generations.                                                            *)

\* How a step moves one generation: what is retired or failed stays so, what
\* is current can only retire, and one becomes current only from staging.
LEMMA GenSteps ==
  ASSUME IInv, Next, NEW i \in Ids
  PROVE  /\ gen[i] \in {"retired", "failed"} => gen'[i] = gen[i]
         /\ gen[i] = "current" => gen'[i] \in {"current", "retired"}
         /\ gen[i] # "staging" /\ gen'[i] = "current" => gen[i] = "current"
<1>1. CASE UNCHANGED Rows
  BY <1>1 DEF Rows
<1>2. ASSUME NEW n \in Notes, NEW r \in Nat \ {0}, NEW s \in BOOLEAN, Insert(n, r, s)
      PROVE  /\ gen[i] \in {"retired", "failed"} => gen'[i] = gen[i]
             /\ gen[i] = "current" => gen'[i] \in {"current", "retired"}
             /\ gen[i] # "staging" /\ gen'[i] = "current" => gen[i] = "current"
  BY <1>2, RowTypes DEF Insert, Superseded, Pending, JobsOf, Made, IInv, Numbered, Matched
<1>3. ASSUME NEW n \in Notes, Archive(n)
      PROVE  /\ gen[i] \in {"retired", "failed"} => gen'[i] = gen[i]
             /\ gen[i] = "current" => gen'[i] \in {"current", "retired"}
             /\ gen[i] # "staging" /\ gen'[i] = "current" => gen[i] = "current"
  BY <1>3, RowTypes DEF Archive
<1>4. CASE Claim \/ Mark \/ Interrupt \/ CloseJob
  BY <1>4 DEF Claim, Mark, Interrupt, CloseJob
<1>5. CASE FailGeneration
  BY <1>5, RowTypes DEF FailGeneration
<1>6. CASE Commit /\ Promotes(worker.id)
  <2>1. gen[worker.id] = "staging" /\ gen' = Promoted(worker.id)
    BY <1>6 DEF Commit, Promotes
  <2> QED BY <2>1, RowTypes DEF Promoted
<1>7. CASE Start
  BY <1>7, RowTypes DEF Start
<1>8. ASSUME NEW k \in Ids, RecoverJob(k)
      PROVE  /\ gen[i] \in {"retired", "failed"} => gen'[i] = gen[i]
             /\ gen[i] = "current" => gen'[i] \in {"current", "retired"}
             /\ gen[i] # "staging" /\ gen'[i] = "current" => gen[i] = "current"
  <2>1. /\ gen[k] = "staging"
        /\ gen' \in {gen, Promoted(k), [gen EXCEPT ![k] = "failed"]}
    BY <1>8 DEF RecoverJob, IInv, Listed
  <2> QED BY <2>1, RowTypes DEF Promoted
<1> QED BY <1>1, <1>2, <1>3, <1>4, <1>5, <1>6, <1>7, <1>8, RowSteps

\* A job keeps what it is about.
LEMMA AboutStep ==
  ASSUME IInv, Next, NEW i \in Made
  PROVE  about'[i] = about[i] /\ i \in Made'
<1>1. ASSUME NEW n \in Notes, NEW r \in Nat \ {0}, NEW s \in BOOLEAN, Insert(n, r, s)
      PROVE  about'[i] = about[i] /\ i \in Made'
  BY <1>1, RowTypes DEF Insert, Made
<1>2. CASE UNCHANGED <<made, about>>
  BY <1>2 DEF Made
<1>3. (\E n \in Notes : Archive(n)) \/ Claim \/ Mark \/ Interrupt \/ FailGeneration
        \/ CloseJob \/ Commit \/ Start \/ (\E k \in Ids : RecoverJob(k)) \/ UNCHANGED Rows
        => UNCHANGED <<made, about>>
  BY DEF Archive, Claim, Mark, Interrupt, FailGeneration, CloseJob, Commit, Start, RecoverJob, Rows
<1> QED BY <1>1, <1>2, <1>3, RowSteps

LEMMA MadeStep ==
  ASSUME IInv, Next
  PROVE  made' \in 0..MaxJobs /\ Made' \subseteq Ids
<1>1. made \in 0..MaxJobs /\ MaxJobs \in Nat
  BY IndexAssumption DEF IndexAssumption, IInv, TypeOK
<1>2. ASSUME NEW n \in Notes, NEW r \in Nat \ {0}, NEW s \in BOOLEAN, Insert(n, r, s)
      PROVE  made' = made + 1 /\ made < MaxJobs
  BY <1>2 DEF Insert
<1>3. ASSUME ~\E n \in Notes, r \in Nat \ {0}, s \in BOOLEAN : Insert(n, r, s)
      PROVE  made' = made
  BY <1>3, RowSteps DEF Archive, Claim, Mark, Interrupt, FailGeneration, CloseJob, Commit,
    Start, RecoverJob, Rows
<1>4. made' \in 0..MaxJobs
  BY <1>1, <1>2, <1>3
<1> QED BY <1>1, <1>4 DEF Made, Ids

\* The generation a step promotes, if any.
LEMMA PromotionSteps ==
  ASSUME IInv, Next
  PROVE  \/ \A i \in Ids : gen'[i] = "current" => gen[i] = "current"
         \/ \E j \in Made :
              /\ Promotes(j) /\ gen' = Promoted(j) /\ points' = points
              /\ points[j] = "full"
              /\ UNCHANGED <<made, about, revision, archived>>
<1>1. ASSUME \A i \in Ids : gen[i] = "staging" => gen'[i] # "current"
      PROVE  \A i \in Ids : gen'[i] = "current" => gen[i] = "current"
  BY <1>1, GenSteps
<1>2. CASE UNCHANGED Rows
  BY <1>2 DEF Rows
<1>3. ASSUME NEW n \in Notes, NEW r \in Nat \ {0}, NEW s \in BOOLEAN, Insert(n, r, s)
      PROVE  \A i \in Ids : gen[i] = "staging" => gen'[i] # "current"
  BY <1>3, RowTypes DEF Insert
<1>4. ASSUME NEW n \in Notes, Archive(n)
      PROVE  \A i \in Ids : gen[i] = "staging" => gen'[i] # "current"
  BY <1>4, RowTypes DEF Archive
<1>5. CASE Claim \/ Mark \/ Interrupt \/ CloseJob
  BY <1>5 DEF Claim, Mark, Interrupt, CloseJob
<1>6. CASE FailGeneration
  BY <1>6, RowTypes DEF FailGeneration
<1>7. CASE Start
  BY <1>7, RowTypes DEF Start
<1>8. CASE Commit /\ Promotes(worker.id)
  <2>1. Busy /\ worker.pc = "commit" /\ gen' = Promoted(worker.id) /\ points' = points
    BY <1>8 DEF Commit, Busy, At
  <2>2. points[worker.id] = "full"
    BY <1>8, <2>1 DEF IInv, WorkerHolds, Promotes
  <2> QED BY <1>8, <2>1, <2>2, Held DEF Commit, notes
<1>9. ASSUME NEW j \in Ids, RecoverJob(j)
      PROVE  \/ \A i \in Ids : gen[i] = "staging" => gen'[i] # "current"
             \/ /\ j \in Made /\ Promotes(j) /\ gen' = Promoted(j) /\ points' = points
                /\ points[j] = "full"
                /\ UNCHANGED <<made, about, revision, archived>>
  <2>1. j \in Made
    BY <1>9 DEF RecoverJob, IInv, TypeOK
  <2>2. CASE UNCHANGED <<job, gen>>
    BY <2>2
  <2>3. CASE gen' = [gen EXCEPT ![j] = "failed"]
    BY <2>3, RowTypes
  <2>4. CASE IsComplete(j) /\ Promotes(j) /\ gen' = Promoted(j)
    BY <1>9, <2>1, <2>4 DEF RecoverJob, IsComplete, notes
  <2> QED BY <1>9, <2>2, <2>3, <2>4 DEF RecoverJob
<1> QED BY <1>1, <1>2, <1>3, <1>4, <1>5, <1>6, <1>7, <1>8, <1>9, RowSteps

LEMMA OneCurrentStep ==
  ASSUME IInv, Next
  PROVE  OneCurrent'
<1>1. CASE \A i \in Ids : gen'[i] = "current" => gen[i] = "current"
  <2>1. ASSUME NEW n \in Notes, NEW i \in Current(n)'
        PROVE  i \in Current(n)
    <3>1. i \in Ids /\ gen[i] = "current" /\ about'[i].note = n
      BY <1>1, <2>1, MadeStep DEF Current, JobsOf
    <3>2. i \in Made
      BY <3>1, RowTypes DEF IInv, Numbered, Made, Ids
    <3> QED BY <3>1, <3>2, AboutStep DEF Current, JobsOf
  <2> QED BY <2>1 DEF IInv, OneCurrent
<1>2. ASSUME NEW j \in Made, gen' = Promoted(j), UNCHANGED <<made, about>>,
             NEW n \in Notes, NEW i \in Current(n)', NEW k \in Current(n)'
      PROVE  i = k
  <2>1. /\ i \in Made /\ gen'[i] = "current" /\ about[i].note = n
        /\ k \in Made /\ gen'[k] = "current" /\ about[k].note = n
    BY <1>2 DEF Current, JobsOf, Made
  <2>2. CASE n = about[j].note
    BY <1>2, <2>1, <2>2, RowTypes DEF Promoted, JobsOf
  <2>3. CASE n # about[j].note
    <3>1. gen[i] = "current" /\ gen[k] = "current"
      BY <1>2, <2>1, <2>3, RowTypes DEF Promoted, JobsOf
    <3> QED BY <2>1, <3>1 DEF IInv, OneCurrent, Current, JobsOf
  <2> QED BY <2>2, <2>3
<1> QED BY <1>1, <1>2, PromotionSteps DEF OneCurrent

LEMMA SweptStep ==
  ASSUME IInv, Next
  PROVE  Swept'
<1>1. ASSUME NEW c \in Collectors, NEW i \in collector'[c].ids
      PROVE  i \in Made /\ gen[i] \in {"retired", "failed"}
  <2>1. collector \in [Collectors -> [phase : {"off", "delete", "mark"}, ids : SUBSET Made]]
    BY DEF IInv, TypeOK
  <2>2. CASE collector'[c].ids = collector[c].ids
    BY <1>1, <2>1, <2>2 DEF IInv, Swept
  <2>3. CASE collector'[c].ids = Garbage
    BY <1>1, <2>3 DEF Garbage
  <2>4. collector'[c].ids \in {collector[c].ids, Garbage, {}}
    <3>1. StartCollect => collector'[c].ids \in {collector[c].ids, Garbage}
      <4> DEFINE d == CHOOSE x \in Free : TRUE
      <4>1. StartCollect =>
              \/ collector' = collector
              \/ collector' = [collector EXCEPT ![d] = [phase |-> "delete", ids |-> Garbage]]
        BY DEF StartCollect
      <4> HIDE DEF d
      <4> QED BY <2>1, <4>1
    <3>2. ASSUME NEW d \in Collectors, DeletePoints(d) \/ MarkDeleted(d)
          PROVE  collector'[c].ids \in {collector[c].ids, {}}
      BY <2>1, <3>2 DEF DeletePoints, MarkDeleted, Abandoned, NoWork
    <3>3. CASE Exit \/ Crash
      BY <3>3 DEF Exit, Crash, Gone, NoWork
    <3>4. CASE Work
      BY <3>1, <3>4 DEF Work, Claim, RunDry, Read, SaveManifest, Upsert, Mark, Verify, Check,
        Commit, Clean, Interrupt, FailGeneration, CloseJob
    <3>5. CASE Boot \/ Shutdown
      BY <3>1, <3>5 DEF Boot, Start, ListWritten, RecoverGarbage, GoUp, RebuildDrain, BootDrain,
        RecoverJob, Rebuild, Shutdown
    <3>6. CASE \E n \in Notes : Write(n) \/ Enqueue(n) \/ Archive(n) \/ Hide(n)
      BY <3>1, <3>6 DEF Write, Enqueue, Archive, Hide
    <3> QED BY <3>2, <3>3, <3>4, <3>5, <3>6 DEF Next, Collect
  <2> QED BY <1>1, <2>2, <2>3, <2>4
<1> QED BY <1>1, GenSteps, RowTypes DEF Swept

-----------------------------------------------------------------------------
(* The worker and the recovery.                                            *)

\* A job and its generation that nothing but its holder moves.
LEMMA OthersJobs ==
  ASSUME IInv, Next, NEW i \in Made, job[i] \in {"running", "qdrant_written"}
  PROVE  \/ UNCHANGED <<job[i], gen[i]>>
         \/ job'[i] = job[i] /\ gen'[i] = "failed" /\ \E n \in Notes : Archive(n)
         \/ /\ Busy /\ worker.id = i
            /\ \/ Mark \/ Interrupt \/ FailGeneration \/ CloseJob
               \/ Commit /\ Promotes(worker.id)
         \/ Start \/ RecoverJob(i)
<1>1. CASE UNCHANGED Rows
  BY <1>1 DEF Rows
<1>2. ASSUME NEW n \in Notes, NEW r \in Nat \ {0}, NEW s \in BOOLEAN, Insert(n, r, s)
      PROVE  UNCHANGED <<job[i], gen[i]>>
  BY <1>2, RowTypes DEF Insert, Superseded, Pending, JobsOf, Made
<1>3. ASSUME NEW n \in Notes, Archive(n)
      PROVE  job'[i] = job[i] /\ gen'[i] \in {gen[i], "failed"}
  <2>1. gen[i] # "current"
    BY RowTypes DEF IInv, Matched
  <2> QED BY <1>3, <2>1, RowTypes DEF Archive, Pending
<1>4. CASE Claim
  BY <1>4, RowTypes DEF Claim, Claimable, InStatus
<1>5. CASE Mark \/ Interrupt \/ FailGeneration \/ CloseJob
  <2>1. /\ Busy
        /\ \E x \in {"qdrant_written", "interrupted", "failed"} :
             job' \in {job, [job EXCEPT ![worker.id] = x]}
        /\ gen' \in {gen, [gen EXCEPT ![worker.id] = "failed"]}
    BY <1>5 DEF Mark, Interrupt, FailGeneration, CloseJob, Busy, At
  <2> QED BY <1>5, <2>1, RowTypes
<1>6. ASSUME NEW j \in Ids, gen' = Promoted(j), job' = [job EXCEPT ![j] = "completed"], j # i
      PROVE  UNCHANGED <<job[i], gen[i]>>
  <2>1. gen[i] # "current"
    BY RowTypes DEF IInv, Matched
  <2> QED BY <1>6, <2>1, RowTypes DEF Promoted
<1>7. CASE Commit /\ Promotes(worker.id)
  <2>1. /\ Busy /\ gen' = Promoted(worker.id)
        /\ job' = [job EXCEPT ![worker.id] = "completed"]
    BY <1>7 DEF Commit, Busy, At
  <2> QED BY <1>6, <1>7, <2>1, Held
<1>8. ASSUME NEW j \in Ids, RecoverJob(j), j # i
      PROVE  UNCHANGED <<job[i], gen[i]>>
  <2>1. \/ UNCHANGED <<job, gen>>
        \/ gen' = Promoted(j) /\ job' = [job EXCEPT ![j] = "completed"]
        \/ gen' = [gen EXCEPT ![j] = "failed"] /\ job' = [job EXCEPT ![j] = "failed"]
    BY <1>8 DEF RecoverJob
  <2> QED BY <1>6, <1>8, <2>1, RowTypes
<1> QED BY <1>1, <1>2, <1>3, <1>4, <1>5, <1>7, <1>8, RowSteps

\* The program is recovering: nothing else is under way.
LEMMA ListedStep ==
  ASSUME IInv, Next
  PROVE  Listed'
<1>1. CASE Gone
  BY <1>1 DEF Gone, Nothing, Listed
<1>2. CASE ListWritten
  <2>1. UNCHANGED <<job, gen>> /\ todo.jobs = {}
    BY <1>2 DEF ListWritten, store, IInv, Listed
  <2>2. CASE todo' = todo
    BY <2>1, <2>2 DEF Listed
  <2>3. CASE todo' # todo
    <3>1. /\ app' = "recovering" /\ todo' = [Nothing EXCEPT !.jobs = InStatus("qdrant_written")]
          /\ \A i \in InStatus("qdrant_written") : gen[i] = "staging"
      BY <1>2, <2>3 DEF ListWritten
    <3>2. todo'.jobs = InStatus("qdrant_written")
      BY <3>1 DEF Nothing
    <3> QED BY <2>1, <3>1, <3>2 DEF Listed, InStatus
  <2> QED BY <2>2, <2>3
<1>3. CASE GoUp
  BY <1>3 DEF GoUp, Listed
<1>4. ASSUME NEW i \in Ids, RecoverJob(i), NEW k \in todo'.jobs
      PROVE  app' = "recovering" /\ job'[k] = "qdrant_written" /\ gen'[k] = "staging"
  <2>1. k \in todo.jobs /\ k # i /\ k \in Made /\ app' = "recovering"
    BY <1>4 DEF RecoverJob, IInv, TypeOK
  <2>2. job[k] = "qdrant_written" /\ gen[k] = "staging" /\ ~Busy
    BY <1>4, <2>1 DEF RecoverJob, IInv, Listed, WorkerHolds
  <2>3. ~Start /\ ~RecoverJob(k) /\ ~\E n \in Notes : Archive(n)
    <3>1. RecoverJob(k) => todo'.jobs = todo.jobs \ {k}
      BY DEF RecoverJob, IInv, TypeOK
    <3> QED BY <1>4, <2>1, <3>1 DEF Start, RecoverJob, Archive
  <2> QED BY <2>1, <2>2, <2>3, OthersJobs
<1>5. ASSUME ~Gone, ~ListWritten, ~GoUp, ~\E i \in Ids : RecoverJob(i), NEW k \in todo'.jobs
      PROVE  app' = "recovering" /\ job'[k] = "qdrant_written" /\ gen'[k] = "staging"
  <2>1. k \in todo.jobs
    <3>1. CASE Work \/ Collect
      BY <1>5, <3>1 DEF Work, Claim, RunDry, Read, SaveManifest, Upsert, Mark, Verify, Check,
        Commit, Clean, Interrupt, FailGeneration, CloseJob, Collect, DeletePoints, MarkDeleted
    <3>2. CASE Boot \/ Shutdown
      BY <1>5, <3>2 DEF IInv, TypeOK, Boot, Start, RecoverGarbage, RebuildDrain, BootDrain, Rebuild, Shutdown
    <3>3. CASE \E n \in Notes : Write(n) \/ Enqueue(n) \/ Archive(n) \/ Hide(n)
      BY <1>5, <3>3 DEF Write, Enqueue, Archive, Hide
    <3> QED BY <1>5, <3>1, <3>2, <3>3 DEF Next, Exit, Crash
  <2>2. /\ app = "recovering" /\ k \in Made /\ ~Busy
        /\ job[k] = "qdrant_written" /\ gen[k] = "staging"
    BY <2>1 DEF IInv, TypeOK, Listed, WorkerHolds
  <2>3. ~Start /\ ~RecoverJob(k) /\ ~\E n \in Notes : Archive(n)
    BY <1>5, <2>2, RowTypes DEF Start, Archive
  <2>4. job'[k] = "qdrant_written" /\ gen'[k] = "staging"
    BY <2>2, <2>3, OthersJobs
  <2>5. app' = app
    <3>1. ~RecoverGarbage
      BY <2>1 DEF RecoverGarbage
    <3>2. CASE Work \/ Collect
      BY <3>2 DEF Work, Claim, RunDry, Read, SaveManifest, Upsert, Mark, Verify, Check,
        Commit, Clean, Interrupt, FailGeneration, CloseJob, Collect, DeletePoints, MarkDeleted
    <3>3. CASE Boot \/ Shutdown
      BY <1>5, <2>2, <2>3, <3>1, <3>3 DEF Boot, RebuildDrain, BootDrain, Rebuild, Shutdown
    <3>4. CASE \E n \in Notes : Write(n) \/ Enqueue(n) \/ Archive(n) \/ Hide(n)
      BY <3>4 DEF Write, Enqueue, Archive, Hide
    <3> QED BY <1>5, <3>2, <3>3, <3>4 DEF Next, Exit, Crash
  <2> QED BY <2>2, <2>4, <2>5
<1> QED BY <1>1, <1>2, <1>3, <1>4, <1>5 DEF Listed

\* Points of a generation that is no garbage change in the worker's hands only.
LEMMA PointsStep ==
  ASSUME IInv, Next, NEW i \in Ids, gen[i] \in {"staging", "current"}
  PROVE  points'[i] = points[i] \/ (Busy /\ worker.id = i /\ (Upsert \/ Clean))
<1>1. points \in [Ids -> {"none", "part", "full"}]
  BY DEF IInv, TypeOK
<1>2. CASE Upsert \/ Clean
  BY <1>1, <1>2 DEF Upsert, Clean, Busy, At
<1>3. ASSUME NEW c \in Collectors, DeletePoints(c)
      PROVE  points'[i] = points[i]
  <2>1. i \notin collector[c].ids
    BY DEF IInv, Swept
  <2> QED BY <1>1, <1>3, <2>1 DEF DeletePoints
<1>4. CASE Work /\ ~(Upsert \/ Clean)
  BY <1>4 DEF Work, Claim, RunDry, Read, SaveManifest, Mark, Verify, Check,
    Commit, Interrupt, FailGeneration, CloseJob
<1>5. CASE Boot \/ Shutdown \/ Exit \/ Crash
  BY <1>5 DEF Boot, Start, ListWritten, RecoverGarbage, GoUp, RebuildDrain, BootDrain,
    RecoverJob, Rebuild, Shutdown, Exit, Crash, Gone
<1>6. CASE \E n \in Notes : Write(n) \/ Enqueue(n) \/ Archive(n) \/ Hide(n)
  BY <1>6 DEF Write, Enqueue, Archive, Hide
<1>7. CASE \E c \in Collectors : MarkDeleted(c)
  BY <1>7 DEF MarkDeleted
<1> QED BY <1>2, <1>3, <1>4, <1>5, <1>6, <1>7 DEF Next, Collect

LEMMA CompleteStep ==
  ASSUME IInv, Next
  PROVE  CurrentIsComplete'
<1>1. ASSUME NEW i \in Ids, gen[i] = "current"
      PROVE  points'[i] = "full"
  <2>1. ~(Busy /\ worker.id = i)
    BY <1>1, Held
  <2> QED BY <1>1, <2>1, PointsStep DEF IInv, CurrentIsComplete
<1>2. ASSUME NEW j \in Made, points[j] = "full", gen' = Promoted(j), points' = points,
             NEW i \in Ids, gen'[i] = "current"
      PROVE  points'[i] = "full"
  BY <1>2 DEF Promoted, IInv, CurrentIsComplete
<1> QED BY <1>1, <1>2, PromotionSteps DEF CurrentIsComplete

\* Who has the worker after a step.
LEMMA WorkerSteps ==
  ASSUME IInv, Next, Busy'
  PROVE  \/ Claim
         \/ Read \/ SaveManifest \/ Upsert \/ Mark \/ Verify \/ Check
         \/ Commit /\ ~Promotes(worker.id)
         \/ Clean \/ FailGeneration
         \/ /\ worker'.pc = worker.pc /\ worker'.id = worker.id
            /\ app' = app \/ app' = "stopping"
<1>1. worker \in [pc : Steps, id : 0..MaxJobs, started : BOOLEAN, aborted : BOOLEAN]
  BY DEF IInv, TypeOK
<1>2. CASE Work
  BY <1>2 DEF Work, RunDry, Commit, Interrupt, CloseJob, Busy, Idle
<1>3. CASE Collect
  BY <1>3 DEF Collect, DeletePoints, MarkDeleted
<1>4. CASE Shutdown
  BY <1>1, <1>4 DEF Shutdown
<1>5. CASE Exit \/ Crash
  BY <1>5 DEF Exit, Crash, Gone, Busy, Idle
<1>6. CASE \E n \in Notes : Write(n) \/ Enqueue(n) \/ Archive(n) \/ Hide(n)
  BY <1>6 DEF Write, Enqueue, Archive, Hide
<1>7. CASE Boot
  <2>1. worker' = worker
    BY <1>7 DEF Boot, Start, ListWritten, RecoverGarbage, GoUp, RebuildDrain, BootDrain,
      RecoverJob, Rebuild
  <2>2. app \in {"up", "stopping"}
    BY <2>1, Held DEF Busy
  <2> QED BY <1>7, <2>1, <2>2 DEF Boot, Start, ListWritten, RecoverGarbage, GoUp,
    RebuildDrain, BootDrain, RecoverJob, Rebuild
<1> QED BY <1>2, <1>3, <1>4, <1>5, <1>6, <1>7 DEF Next

LEMMA WorkerStep ==
  ASSUME IInv, Next
  PROVE  WorkerHolds'
<1> SUFFICES ASSUME Busy' PROVE WorkerHolds'
  BY DEF WorkerHolds
<1>1. /\ worker \in [pc : Steps, id : 0..MaxJobs, started : BOOLEAN, aborted : BOOLEAN]
      /\ points \in [Ids -> {"none", "part", "full"}]
  BY DEF IInv, TypeOK
<1>2. CASE Claim
  <2>1. PICK i \in Claimable : /\ job' = [job EXCEPT ![i] = "running"]
                               /\ worker' = [Idle EXCEPT !.pc = "read", !.id = i]
    BY <1>2 DEF Claim
  <2>2. worker'.pc = "read" /\ worker'.id = i /\ i \in Ids
    BY <2>1, RowTypes DEF Idle, Claimable, InStatus
  <2> QED BY <1>2, <2>1, <2>2, RowTypes DEF Claim, WorkerHolds, At
<1>3. CASE Read \/ SaveManifest \/ Verify \/ Check \/ Clean \/ (Commit /\ ~Promotes(worker.id))
  <2>1. /\ Busy /\ UNCHANGED <<job, gen, app>>
        /\ worker'.id = worker.id
        /\ worker'.pc \in {"save", "upsert", "check", "commit", "clean", "mend"}
    BY <1>1, <1>3 DEF Read, SaveManifest, Verify, Check, Clean, Commit, Busy, At, Go, Fail, store
  <2>2. worker'.pc \in {"check", "commit"} => worker.pc \in {"verify", "check"} /\ points' = points
    BY <1>1, <1>3 DEF Read, SaveManifest, Verify, Check, Clean, Commit, At, Go, Fail
  <2>3. gen[worker.id] = "staging" /\ worker'.pc \in {"check", "commit"}
          => points'[worker.id] = "full"
    BY <2>1, <2>2 DEF IInv, WorkerHolds
  <2> QED BY <2>1, <2>3, Held DEF WorkerHolds, At
<1>4. CASE Upsert
  <2>1. /\ Busy /\ UNCHANGED <<job, gen, app>>
        /\ worker'.id = worker.id
        /\ worker'.pc \in {"mark", "clean", "mend"}
    BY <1>1, <1>4 DEF Upsert, Busy, At, Go, Fail, store
  <2>2. worker'.pc = "mark" => points'[worker.id] = "full"
    <3>1. worker.id \in Ids
      BY <2>1, Held
    <3> QED BY <1>1, <1>4, <3>1 DEF Upsert, Go, Fail
  <2> QED BY <2>1, <2>2, Held DEF WorkerHolds, At
<1>5. CASE Mark
  <2>1. /\ Busy /\ UNCHANGED <<gen, app, points>> /\ worker.pc = "mark"
        /\ job' = [job EXCEPT ![worker.id] = "qdrant_written"]
        /\ worker'.id = worker.id /\ worker'.pc = "verify"
    BY <1>1, <1>5 DEF Mark, Busy, At, Go
  <2>2. gen[worker.id] = "staging" => points[worker.id] = "full"
    BY <2>1 DEF IInv, WorkerHolds
  <2> QED BY <2>1, <2>2, Held, RowTypes DEF WorkerHolds, At
<1>6. CASE FailGeneration
  <2>1. /\ Busy /\ UNCHANGED <<job, app>>
        /\ gen' = [gen EXCEPT ![worker.id] = "failed"]
        /\ worker'.id = worker.id /\ worker'.pc = "close"
    BY <1>1, <1>6 DEF FailGeneration, Busy, At, Go, Idle
  <2> QED BY <2>1, Held, RowTypes DEF WorkerHolds, At
<1>7. CASE /\ worker'.pc = worker.pc /\ worker'.id = worker.id
           /\ app' = app \/ app' = "stopping"
           /\ ~Read /\ ~SaveManifest /\ ~Upsert /\ ~Mark /\ ~Verify /\ ~Check /\ ~Clean
           /\ ~FailGeneration /\ ~(Commit /\ ~Promotes(worker.id))
  <2> DEFINE w == worker.id
  <2>1. /\ Busy /\ w \in Made /\ w \in Ids /\ app' \in {"up", "stopping"}
        /\ job[w] \in {"running", "qdrant_written"}
    BY <1>7, Held DEF Busy
  <2>2. ~Start /\ ~RecoverJob(w) /\ ~Mark /\ ~FailGeneration
    BY <1>7, <2>1, Held DEF Start, RecoverJob
  <2>3. ~Interrupt /\ ~CloseJob /\ ~(Commit /\ Promotes(w))
    BY DEF Interrupt, CloseJob, Commit, Busy, Idle
  <2>4. job'[w] = job[w] /\ gen'[w] \in {gen[w], "failed"}
    BY <2>1, <2>2, <2>3, OthersJobs
  <2>5. gen[w] = "staging" => points'[w] = points[w]
    BY <1>7, <2>1, PointsStep
  <2> QED BY <1>7, <2>1, <2>4, <2>5 DEF IInv, WorkerHolds, At
<1> QED BY <1>2, <1>3, <1>4, <1>5, <1>6, <1>7, WorkerSteps

-----------------------------------------------------------------------------
(* Types.                                                                  *)

LEMMA NotesStep ==
  ASSUME IInv, Next
  PROVE  /\ revision' \in [Notes -> Nat] /\ archived' \subseteq Archivable
         /\ \A n \in Notes : revision'[n] <= MaxRevision[n] + 1
         /\ \A n \in Notes : revision[n] <= revision'[n]
         /\ archived \subseteq archived'
         /\ Bounded'
<1>1. /\ revision \in [Notes -> Nat] /\ archived \subseteq Archivable
      /\ \A n \in Notes : revision[n] <= MaxRevision[n] + 1
      /\ MaxRevision \in [Notes -> Nat]
  BY IndexAssumption DEF IndexAssumption, IInv, TypeOK
<1>2. CASE UNCHANGED notes
  BY <1>1, <1>2 DEF notes, IInv, Bounded
<1>3. ASSUME NEW n \in Notes, Write(n)
      PROVE  /\ revision' = [revision EXCEPT ![n] = @ + 1] /\ archived' = archived
             /\ revision[n] < MaxRevision[n]
  BY <1>3 DEF Write
<1>4. ASSUME NEW n \in Notes, Archive(n)
      PROVE  /\ revision' = [revision EXCEPT ![n] = @ + 1] /\ archived' = archived \cup {n}
             /\ revision[n] <= MaxRevision[n] /\ n \in Archivable
  BY <1>4 DEF Archive, MayArchive, IInv, Bounded
<1>5. \/ UNCHANGED notes
      \/ \E n \in Notes : Write(n) \/ Archive(n)
  <2>1. CASE Work
    BY <2>1 DEF Work, Claim, RunDry, Read, SaveManifest, Upsert, Mark, Verify, Check,
      Commit, Clean, Interrupt, FailGeneration, CloseJob
  <2>2. CASE Collect
    BY <2>2 DEF Collect, DeletePoints, MarkDeleted
  <2>3. CASE Boot
    BY <2>3 DEF Boot, Start, ListWritten, RecoverGarbage, GoUp, RebuildDrain, BootDrain,
      RecoverJob, Rebuild
  <2>4. CASE Shutdown \/ Exit \/ Crash
    BY <2>4 DEF Shutdown, Exit, Crash, Gone
  <2>5. CASE \E n \in Notes : Write(n) \/ Enqueue(n) \/ Archive(n) \/ Hide(n)
    BY <2>5 DEF Write, Enqueue, Archive, Hide
  <2> QED BY <2>1, <2>2, <2>3, <2>4, <2>5 DEF Next
<1>6. CASE \E n \in Notes : Write(n)
  BY <1>1, <1>3, <1>6 DEF IInv, Bounded
<1>7. CASE \E n \in Notes : Archive(n)
  BY <1>1, <1>4, <1>7 DEF IInv, Bounded
<1> QED BY <1>2, <1>5, <1>6, <1>7

LEMMA RowTypesStep ==
  ASSUME IInv, Next
  PROVE  /\ about' \in [Ids -> [note : Notes \cup {"none"}, rev : Nat, startup : BOOLEAN]]
         /\ job' \in [Ids -> JobStatus] /\ gen' \in [Ids -> GenStatus]
<1> DEFINE Typed == /\ about' \in [Ids -> [note : Notes \cup {"none"}, rev : Nat, startup : BOOLEAN]]
                    /\ job' \in [Ids -> JobStatus] /\ gen' \in [Ids -> GenStatus]
<1>1. ASSUME NEW n \in Notes, NEW r \in Nat \ {0}, NEW s \in BOOLEAN, Insert(n, r, s)
      PROVE  Typed
  BY <1>1, RowTypes DEF Insert, Superseded, JobStatus, GenStatus
<1>2. ASSUME NEW n \in Notes, Archive(n)
      PROVE  Typed
  BY <1>2, RowTypes DEF Archive, JobStatus, GenStatus
<1>3. CASE Claim \/ Mark \/ Interrupt \/ FailGeneration \/ CloseJob
  BY <1>3, RowTypes DEF Claim, Mark, Interrupt, FailGeneration, CloseJob, JobStatus, GenStatus
<1>4. CASE Commit /\ Promotes(worker.id)
  BY <1>4, RowTypes DEF Commit, Promoted, JobStatus, GenStatus
<1>5. CASE Start
  BY <1>5, RowTypes DEF Start, JobStatus, GenStatus
<1>6. ASSUME NEW i \in Ids, RecoverJob(i)
      PROVE  Typed
  BY <1>6, RowTypes DEF RecoverJob, Promoted, JobStatus, GenStatus
<1> QED BY <1>1, <1>2, <1>3, <1>4, <1>5, <1>6, RowSteps, RowTypes DEF Rows

LEMMA MadeGrows ==
  ASSUME IInv, Next
  PROVE  Made \subseteq Made'
BY AboutStep

\* What is known of the generations in Qdrant.
LEMMA StoreStep ==
  ASSUME IInv, Next
  PROVE  /\ saved' \subseteq Made' /\ deleted' \subseteq Made'
         /\ points' \in [Ids -> {"none", "part", "full"}]
<1>1. /\ saved \subseteq Made /\ deleted \subseteq Made
      /\ points \in [Ids -> {"none", "part", "full"}]
  BY DEF IInv, TypeOK
<1>2. saved' \subseteq Made
  <2>1. CASE Work
    BY <2>1, <1>1, Held DEF Work, Claim, RunDry, Read, SaveManifest, Upsert, Mark, Verify, Check,
      Commit, Clean, Interrupt, FailGeneration, CloseJob, Busy, At, store
  <2>2. CASE Collect
    BY <2>2, <1>1, Held DEF Collect, DeletePoints, MarkDeleted, store
  <2>3. CASE Boot
    BY <2>3, <1>1, Held DEF Boot, Start, ListWritten, RecoverGarbage, GoUp, RebuildDrain, BootDrain,
      RecoverJob, Rebuild, store, EnqueueJob, Insert
  <2>4. CASE Shutdown \/ Exit \/ Crash
    BY <2>4, <1>1, Held DEF Shutdown, Exit, Crash, Gone, store
  <2>5. CASE \E n \in Notes : Write(n) \/ Enqueue(n) \/ Archive(n) \/ Hide(n)
    BY <2>5, <1>1, Held DEF Write, Enqueue, Archive, Hide, store, EnqueueJob, Insert
  <2> QED BY <2>1, <2>2, <2>3, <2>4, <2>5 DEF Next
<1>3. deleted' \subseteq Made
  <2>1. CASE Work
    BY <2>1, <1>1 DEF Work, Claim, RunDry, Read, SaveManifest, Upsert, Mark, Verify, Check,
      Commit, Clean, Interrupt, FailGeneration, CloseJob, store
  <2>2. CASE Collect
    BY <2>2, <1>1 DEF Collect, DeletePoints, MarkDeleted, Garbage, store
  <2>3. CASE Boot
    BY <2>3, <1>1 DEF Boot, Start, ListWritten, RecoverGarbage, GoUp, RebuildDrain, BootDrain,
      RecoverJob, Rebuild, store, EnqueueJob, Insert
  <2>4. CASE Shutdown \/ Exit \/ Crash
    BY <2>4, <1>1 DEF Shutdown, Exit, Crash, Gone, store
  <2>5. CASE \E n \in Notes : Write(n) \/ Enqueue(n) \/ Archive(n) \/ Hide(n)
    BY <2>5, <1>1 DEF Write, Enqueue, Archive, Hide, store, EnqueueJob, Insert
  <2> QED BY <2>1, <2>2, <2>3, <2>4, <2>5 DEF Next
<1>4. points' \in [Ids -> {"none", "part", "full"}]
  <2>1. CASE Work
    BY <2>1, <1>1 DEF Work, Claim, RunDry, Read, SaveManifest, Upsert, Mark, Verify, Check,
      Commit, Clean, Interrupt, FailGeneration, CloseJob
  <2>2. CASE Collect
    BY <2>2, <1>1 DEF Collect, DeletePoints, MarkDeleted
  <2>3. CASE Boot
    BY <2>3, <1>1 DEF Boot, Start, ListWritten, RecoverGarbage, GoUp, RebuildDrain, BootDrain,
      RecoverJob, Rebuild
  <2>4. CASE Shutdown \/ Exit \/ Crash
    BY <2>4, <1>1 DEF Shutdown, Exit, Crash, Gone
  <2>5. CASE \E n \in Notes : Write(n) \/ Enqueue(n) \/ Archive(n) \/ Hide(n)
    BY <2>5, <1>1 DEF Write, Enqueue, Archive, Hide
  <2> QED BY <2>1, <2>2, <2>3, <2>4, <2>5 DEF Next
<1> QED BY <1>2, <1>3, <1>4, MadeGrows

WorkerType == [pc : Steps, id : 0..MaxJobs, started : BOOLEAN, aborted : BOOLEAN]

LEMMA WorkerTypes ==
  ASSUME IInv, Next
  PROVE  /\ worker' \in WorkerType
         /\ Busy' => worker'.id \in Made'
         /\ loop' \in {"none", "drain", "rebuild"}
<1>1. /\ worker \in WorkerType
      /\ loop \in {"none", "drain", "rebuild"}
      /\ MaxJobs \in Nat
  BY IndexAssumption DEF IndexAssumption, IInv, TypeOK, WorkerType
<1>0. Idle \in WorkerType
  BY <1>1 DEF Idle, WorkerType, Steps
<1>2. worker' \in WorkerType
  <2>1. CASE Work
    <3>1. ASSUME NEW x \in Steps
          PROVE  /\ [worker EXCEPT !.pc = x] \in WorkerType
                 /\ [worker EXCEPT !.pc = x, !.started = TRUE] \in WorkerType
      BY <1>1 DEF WorkerType
    <3>2. CASE Claim
      <4>1. PICK i \in Claimable : worker' = [Idle EXCEPT !.pc = "read", !.id = i]
        BY <3>2 DEF Claim
      <4>2. i \in 0..MaxJobs
        BY <1>1, RowTypes DEF Claimable, InStatus, Ids
      <4>3. worker' = [pc |-> "read", id |-> i, started |-> FALSE, aborted |-> FALSE]
        BY <4>1 DEF Idle
      <4> QED BY <4>2, <4>3 DEF Steps, WorkerType
    <3>3. CASE ~Claim
      <4>1. \/ worker' \in {worker, Idle}
            \/ \E x \in Steps : worker' \in {[worker EXCEPT !.pc = x],
                                             [worker EXCEPT !.pc = x, !.started = TRUE]}
        BY <2>1, <3>3 DEF Work, RunDry, Read, SaveManifest, Upsert, Mark, Verify, Check,
          Commit, Clean, Interrupt, FailGeneration, CloseJob, Go, Fail, Steps
      <4> QED BY <1>1, <1>0, <3>1, <4>1
    <3> QED BY <3>2, <3>3
  <2>2. CASE Collect
    BY <2>2, <1>1, RowTypes DEF Collect, DeletePoints, MarkDeleted
  <2>3. CASE Boot
    BY <2>3, <1>1, RowTypes DEF Boot, Start, ListWritten, RecoverGarbage, GoUp, RebuildDrain, BootDrain,
      RecoverJob, Rebuild
  <2>4. CASE Shutdown \/ Exit \/ Crash
    BY <2>4, <1>0, <1>1 DEF Shutdown, Exit, Crash, Gone, WorkerType
  <2>5. CASE \E n \in Notes : Write(n) \/ Enqueue(n) \/ Archive(n) \/ Hide(n)
    BY <2>5, <1>1, RowTypes DEF Write, Enqueue, Archive, Hide
  <2> QED BY <2>1, <2>2, <2>3, <2>4, <2>5 DEF Next
<1>3. worker'.id \in Made \/ ~Busy'
  <2>1. Claim => worker'.id \in Made
    BY DEF Claim, Claimable, InStatus, Idle
  <2>2. ~Claim /\ Busy' => Busy /\ worker'.id = worker.id
    <3>1. CASE \/ Read \/ SaveManifest \/ Upsert \/ Mark \/ Verify \/ Check
               \/ Commit /\ ~Promotes(worker.id)
               \/ Clean \/ FailGeneration
      <4>1. Busy
        BY <3>1 DEF Read, SaveManifest, Upsert, Mark, Verify, Check, Commit, Clean,
          FailGeneration, Busy, At
      <4>2. Busy' => \E x \in Steps : worker' \in {[worker EXCEPT !.pc = x],
                                                 [worker EXCEPT !.pc = x, !.started = TRUE]}
        BY <3>1 DEF Read, SaveManifest, Upsert, Mark, Verify, Check, Commit, Clean,
          FailGeneration, Go, Fail, Steps, Busy, Idle
      <4> QED BY <1>1, <4>1, <4>2 DEF WorkerType
    <3>2. CASE worker'.pc = worker.pc /\ worker'.id = worker.id
      BY <3>2 DEF Busy
    <3> QED BY <3>1, <3>2, WorkerSteps
  <2> QED BY <2>1, <2>2, Held
<1>4. loop' \in {"none", "drain", "rebuild"}
  <2>1. CASE Work
    BY <2>1, <1>1 DEF Work, Claim, RunDry, Read, SaveManifest, Upsert, Mark, Verify, Check,
      Commit, Clean, Interrupt, FailGeneration, CloseJob, After
  <2>2. CASE Collect
    BY <2>2, <1>1 DEF Collect, DeletePoints, MarkDeleted
  <2>3. CASE Boot
    BY <2>3, <1>1 DEF Boot, Start, ListWritten, RecoverGarbage, GoUp, RebuildDrain, BootDrain,
      RecoverJob, Rebuild, Drained
  <2>4. CASE Shutdown \/ Exit \/ Crash
    BY <2>4, <1>1 DEF Shutdown, Exit, Crash, Gone
  <2>5. CASE \E n \in Notes : Write(n) \/ Enqueue(n) \/ Archive(n) \/ Hide(n)
    BY <2>5, <1>1 DEF Write, Enqueue, Archive, Hide, Drained
  <2> QED BY <2>1, <2>2, <2>3, <2>4, <2>5 DEF Next
<1> QED BY <1>2, <1>3, <1>4, MadeGrows DEF WorkerType

LEMMA CollectorTypes ==
  ASSUME IInv, Next
  PROVE  collector' \in [Collectors -> [phase : {"off", "delete", "mark"}, ids : SUBSET Made']]
<1>1. collector \in [Collectors -> [phase : {"off", "delete", "mark"}, ids : SUBSET Made]]
  BY DEF IInv, TypeOK
<1>2. StartCollect => collector' \in [Collectors -> [phase : {"off", "delete", "mark"}, ids : SUBSET Made]]
  <2> DEFINE d == CHOOSE x \in Free : TRUE
  <2>1. StartCollect =>
          \/ collector' = collector
          \/ collector' = [collector EXCEPT ![d] = [phase |-> "delete", ids |-> Garbage]]
    BY DEF StartCollect
  <2>2. [phase |-> "delete", ids |-> Garbage]
          \in [phase : {"off", "delete", "mark"}, ids : SUBSET Made]
    BY DEF Garbage
  <2> HIDE DEF d
  <2> QED BY <1>1, <2>1, <2>2
<1>3. collector' \in [Collectors -> [phase : {"off", "delete", "mark"}, ids : SUBSET Made]]
  <2>1. CASE Work
    BY <2>1, <1>1, <1>2 DEF Work, Claim, RunDry, Read, SaveManifest, Upsert, Mark, Verify, Check,
      Commit, Clean, Interrupt, FailGeneration, CloseJob
  <2>2. CASE Collect
    BY <2>2, <1>1, <1>2 DEF Collect, DeletePoints, MarkDeleted, Abandoned, NoWork
  <2>3. CASE Boot
    BY <2>3, <1>1, <1>2 DEF Boot, Start, ListWritten, RecoverGarbage, GoUp, RebuildDrain, BootDrain,
      RecoverJob, Rebuild
  <2>4. CASE Shutdown \/ Exit \/ Crash
    BY <2>4, <1>1, <1>2 DEF Shutdown, Exit, Crash, Gone, NoWork
  <2>5. CASE \E n \in Notes : Write(n) \/ Enqueue(n) \/ Archive(n) \/ Hide(n)
    BY <2>5, <1>1, <1>2 DEF Write, Enqueue, Archive, Hide
  <2> QED BY <2>1, <2>2, <2>3, <2>4, <2>5 DEF Next
<1> QED BY <1>3, MadeGrows

LEMMA AppTypes ==
  ASSUME IInv, Next
  PROVE  /\ app' \in {"down", "starting", "recovering", "collecting", "up", "stopping", "refused"}
         /\ todo' \in [jobs : SUBSET Made', rebuild : SUBSET Notes, drain : BOOLEAN,
                      boot : BOOLEAN]
         /\ faults' \in 0..MaxFaults /\ starts' \in 0..MaxStarts
<1>1. /\ app \in {"down", "starting", "recovering", "collecting", "up", "stopping", "refused"}
      /\ todo \in [jobs : SUBSET Made, rebuild : SUBSET Notes, drain : BOOLEAN, boot : BOOLEAN]
      /\ faults \in 0..MaxFaults /\ starts \in 0..MaxStarts
      /\ MaxFaults \in Nat /\ MaxStarts \in Nat
  BY IndexAssumption DEF IndexAssumption, IInv, TypeOK
<1>0. Nothing \in [jobs : SUBSET Made, rebuild : SUBSET Notes, drain : BOOLEAN, boot : BOOLEAN]
  BY DEF Nothing
<1>2. app' \in {"down", "starting", "recovering", "collecting", "up", "stopping", "refused"}
  <2>1. CASE Work
    BY <2>1, <1>1 DEF Work, Claim, RunDry, Read, SaveManifest, Upsert, Mark, Verify, Check,
      Commit, Clean, Interrupt, FailGeneration, CloseJob
  <2>2. CASE Collect
    BY <2>2, <1>1 DEF Collect, DeletePoints, MarkDeleted
  <2>3. CASE Boot
    BY <2>3, <1>1 DEF Boot, Start, ListWritten, RecoverGarbage, GoUp, RebuildDrain, BootDrain,
      RecoverJob, Rebuild
  <2>4. CASE Shutdown \/ Exit \/ Crash
    BY <2>4, <1>1 DEF Shutdown, Exit, Crash, Gone
  <2>5. CASE \E n \in Notes : Write(n) \/ Enqueue(n) \/ Archive(n) \/ Hide(n)
    BY <2>5, <1>1 DEF Write, Enqueue, Archive, Hide
  <2> QED BY <2>1, <2>2, <2>3, <2>4, <2>5 DEF Next
<1>3. todo' \in [jobs : SUBSET Made, rebuild : SUBSET Notes, drain : BOOLEAN, boot : BOOLEAN]
  <2>1. CASE Work
    BY <2>1, <1>1 DEF Work, Claim, RunDry, Read, SaveManifest, Upsert, Mark, Verify, Check,
      Commit, Clean, Interrupt, FailGeneration, CloseJob
  <2>2. CASE Collect
    BY <2>2, <1>1 DEF Collect, DeletePoints, MarkDeleted
  <2>3. CASE Boot
    <3>1. CASE Start \/ RecoverGarbage
      BY <3>1, <1>1 DEF Start, RecoverGarbage
    <3>2. CASE ListWritten
      <4>1. todo' \in {todo, [Nothing EXCEPT !.jobs = InStatus("qdrant_written")]}
        BY <3>2 DEF ListWritten
      <4>2. InStatus("qdrant_written") \subseteq Made
        BY DEF InStatus
      <4> QED BY <1>0, <1>1, <4>1, <4>2
    <3>3. CASE GoUp
      BY <3>3 DEF GoUp
    <3>4. ASSUME NEW i \in Ids, RecoverJob(i)
          PROVE  todo' \in [jobs : SUBSET Made, rebuild : SUBSET Notes, drain : BOOLEAN, boot : BOOLEAN]
      BY <3>4, <1>1 DEF RecoverJob
    <3>5. ASSUME NEW n \in Notes, Rebuild(n)
          PROVE  todo' \in [jobs : SUBSET Made, rebuild : SUBSET Notes, drain : BOOLEAN, boot : BOOLEAN]
      <4>1. todo' \in {[todo EXCEPT !.rebuild = @ \ {n}],
                       [todo EXCEPT !.rebuild = @ \ {n}, !.drain = TRUE]}
        BY <3>5 DEF Rebuild
      <4> QED BY <1>1, <4>1
    <3>6. CASE RebuildDrain \/ BootDrain
      BY <3>6, <1>1 DEF RebuildDrain, BootDrain
    <3> QED BY <2>3, <3>1, <3>2, <3>3, <3>4, <3>5, <3>6 DEF Boot
  <2>4. CASE Shutdown \/ Exit \/ Crash
    <3>1. todo' \in {todo, Nothing}
      BY <2>4 DEF Shutdown, Exit, Crash, Gone
    <3> QED BY <1>0, <1>1, <3>1
  <2>5. CASE \E n \in Notes : Write(n) \/ Enqueue(n) \/ Archive(n) \/ Hide(n)
    BY <2>5, <1>1 DEF Write, Enqueue, Archive, Hide
  <2> QED BY <2>1, <2>2, <2>3, <2>4, <2>5 DEF Next
<1>4. faults' \in 0..MaxFaults /\ starts' \in 0..MaxStarts
  <2>1. CASE Work
    <3>1. starts' = starts /\ (faults' = faults \/ (faults < MaxFaults /\ faults' = faults + 1))
      BY <2>1 DEF Work, Claim, RunDry, Read, SaveManifest, Upsert, Mark, Verify, Check,
        Commit, Clean, Interrupt, FailGeneration, CloseJob, Breaks
    <3> QED BY <1>1, <3>1
  <2>2. CASE Collect
    BY <2>2, <1>1 DEF Collect, DeletePoints, MarkDeleted
  <2>3. CASE Boot
    <3>1. /\ faults' = faults \/ (faults < MaxFaults /\ faults' = faults + 1)
          /\ starts' = starts \/ (starts < MaxStarts /\ starts' = starts + 1)
      BY <2>3 DEF Boot, Start, ListWritten, RecoverGarbage, GoUp, RebuildDrain, BootDrain,
        RecoverJob, Rebuild
    <3> QED BY <1>1, <3>1
  <2>4. CASE Shutdown \/ Exit \/ Crash
    BY <2>4, <1>1 DEF Shutdown, Exit, Crash, Gone
  <2>5. CASE \E n \in Notes : Write(n) \/ Enqueue(n) \/ Archive(n) \/ Hide(n)
    BY <2>5, <1>1 DEF Write, Enqueue, Archive, Hide
  <2> QED BY <2>1, <2>2, <2>3, <2>4, <2>5 DEF Next
<1> QED BY <1>2, <1>3, <1>4, MadeGrows

\* What is asked for, and what is to be hidden.
LEMMA CallersStep ==
  ASSUME IInv, Next
  PROVE  Requested' /\ hiding' \subseteq archived'
<1>1. /\ asking \in [Notes -> Seq(Nat \ {0})] /\ hiding \subseteq archived
      /\ revision \in [Notes -> Nat]
      /\ todo \in [jobs : SUBSET Made, rebuild : SUBSET Notes, drain : BOOLEAN, boot : BOOLEAN]
  BY DEF IInv, TypeOK, Requested
<1>2. asking' \in [Notes -> Seq(Nat \ {0})]
  <2>1. ASSUME NEW n \in Notes, Write(n)
        PROVE  asking' \in [Notes -> Seq(Nat \ {0})]
    <3>1. revision[n] + 1 \in Nat \ {0}
      BY <1>1
    <3>2. Append(asking[n], revision[n] + 1) \in Seq(Nat \ {0})
      BY <1>1, <3>1
    <3> QED BY <1>1, <2>1, <3>2 DEF Write
  <2>2. ASSUME NEW n \in Notes, Enqueue(n)
        PROVE  asking' \in [Notes -> Seq(Nat \ {0})]
    <3>1. Tail(asking[n]) \in Seq(Nat \ {0})
      BY <1>1, <2>2 DEF Enqueue
    <3> QED BY <1>1, <2>2, <3>1 DEF Enqueue
  <2>3. <<>> \in Seq(Nat \ {0})
    OBVIOUS
  <2>4. CASE Exit \/ Crash
    BY <2>3, <2>4 DEF Exit, Crash, Gone
  <2>5. CASE ~(Exit \/ Crash) /\ ~\E n \in Notes : Write(n) \/ Enqueue(n)
    <3>1. CASE Work
      BY <3>1, <1>1, <2>5 DEF Work, Claim, RunDry, Read, SaveManifest, Upsert, Mark, Verify, Check,
        Commit, Clean, Interrupt, FailGeneration, CloseJob, callers
    <3>2. CASE Collect
      BY <3>2, <1>1, <2>5 DEF Collect, DeletePoints, MarkDeleted, callers
    <3>3. CASE Boot
      BY <3>3, <1>1, <2>5 DEF Boot, Start, ListWritten, RecoverGarbage, GoUp, RebuildDrain, BootDrain,
        RecoverJob, Rebuild, callers
    <3>4. CASE Shutdown \/ Exit \/ Crash
      BY <3>4, <1>1, <2>5 DEF Shutdown, Exit, Crash, Gone, callers
    <3>5. CASE \E n \in Notes : Write(n) \/ Enqueue(n) \/ Archive(n) \/ Hide(n)
      BY <3>5, <1>1, <2>5 DEF Write, Enqueue, Archive, Hide, callers
    <3> QED BY <3>1, <3>2, <3>3, <3>4, <3>5 DEF Next
  <2> QED BY <2>1, <2>2, <2>4, <2>5
<1>3. \A n \in todo'.rebuild : revision[n] > 0
  <2> USE DEF IInv, Requested
  <2>1. CASE Work
    BY <2>1, <1>1 DEF Work, Claim, RunDry, Read, SaveManifest, Upsert, Mark, Verify, Check,
      Commit, Clean, Interrupt, FailGeneration, CloseJob
  <2>2. CASE Collect
    BY <2>2, <1>1 DEF Collect, DeletePoints, MarkDeleted
  <2>3. CASE Boot
    <3>1. CASE Start \/ RecoverGarbage \/ RebuildDrain \/ BootDrain
      BY <3>1, <1>1 DEF Start, RecoverGarbage, RebuildDrain, BootDrain
    <3>2. CASE ListWritten
      <4>1. todo' = todo \/ todo'.rebuild = {}
        BY <3>2 DEF ListWritten, Nothing
      <4> QED BY <4>1
    <3>3. CASE GoUp
      BY <3>3 DEF GoUp
    <3>4. ASSUME NEW i \in Ids, RecoverJob(i)
          PROVE  todo'.rebuild = todo.rebuild
      BY <3>4, <1>1 DEF RecoverJob
    <3>5. ASSUME NEW m \in Notes, Rebuild(m)
          PROVE  todo'.rebuild \subseteq todo.rebuild
      <4>1. todo' \in {[todo EXCEPT !.rebuild = @ \ {m}],
                       [todo EXCEPT !.rebuild = @ \ {m}, !.drain = TRUE]}
        BY <3>5 DEF Rebuild
      <4> QED BY <1>1, <4>1
    <3> QED BY <2>3, <3>1, <3>2, <3>3, <3>4, <3>5 DEF Boot
  <2>4. CASE Shutdown \/ Exit \/ Crash
    BY <2>4, <1>1 DEF Shutdown, Exit, Crash, Gone, Nothing
  <2>5. CASE \E n \in Notes : Write(n) \/ Enqueue(n) \/ Archive(n) \/ Hide(n)
    BY <2>5, <1>1 DEF Write, Enqueue, Archive, Hide
  <2> QED BY <2>1, <2>2, <2>3, <2>4, <2>5 DEF Next
<1>4. \A n \in todo'.rebuild : revision'[n] > 0
  BY <1>1, <1>3, NotesStep, AppTypes
<1>5. hiding' \subseteq archived'
  <2>1. CASE Work
    BY <2>1, <1>1 DEF Work, Claim, RunDry, Read, SaveManifest, Upsert, Mark, Verify, Check,
      Commit, Clean, Interrupt, FailGeneration, CloseJob, callers, notes
  <2>2. CASE Collect
    BY <2>2, <1>1 DEF Collect, DeletePoints, MarkDeleted, callers, notes
  <2>3. CASE Boot
    BY <2>3, <1>1 DEF Boot, Start, ListWritten, RecoverGarbage, GoUp, RebuildDrain, BootDrain,
      RecoverJob, Rebuild, callers, notes
  <2>4. CASE Shutdown \/ Exit \/ Crash
    BY <2>4, <1>1 DEF Shutdown, Exit, Crash, Gone, callers, notes
  <2>5. CASE \E n \in Notes : Write(n) \/ Enqueue(n) \/ Archive(n) \/ Hide(n)
    BY <2>5, <1>1 DEF Write, Enqueue, Archive, Hide, callers, notes
  <2> QED BY <2>1, <2>2, <2>3, <2>4, <2>5 DEF Next
<1> QED BY <1>2, <1>4, <1>5 DEF Requested

LEMMA TypeStep ==
  ASSUME IInv, Next
  PROVE  TypeOK'
<1>1. asking' \in [Notes -> Seq(Nat)]
  <2>1. Seq(Nat \ {0}) \subseteq Seq(Nat)
    OBVIOUS
  <2> QED BY <2>1, CallersStep DEF Requested
<1>2. \A i \in Ids : i > made' <=> job'[i] = "none" /\ gen'[i] = "none"
  BY NumberedStep DEF Numbered
<1> QED BY <1>1, <1>2, NotesStep, RowTypesStep, MadeStep, StoreStep, WorkerTypes, CollectorTypes,
  AppTypes, CallersStep DEF TypeOK, WorkerType

-----------------------------------------------------------------------------
(* The invariant is inductive.                                             *)

LEMMA StartsSound == Init => IInv
<1> SUFFICES ASSUME Init PROVE IInv
  OBVIOUS
<1>1. TypeOK
  BY IndexAssumption DEF IndexAssumption, Init, TypeOK, Ids, Made, NoJob, JobStatus, GenStatus,
    Steps, Busy, Idle, NoWork, Nothing
<1>2. Numbered
  BY IndexAssumption DEF IndexAssumption, Init, Numbered, Ids, Made
<1>3. Bounded /\ Requested
  BY IndexAssumption DEF IndexAssumption, Init, Bounded, Requested, Nothing
<1>4. Matched /\ WorkerHolds /\ Swept /\ Listed
  BY DEF Init, Matched, WorkerHolds, Swept, Listed, Busy, Idle, NoWork, Nothing
<1>5. OneCurrent /\ CurrentIsComplete
  BY DEF Init, OneCurrent, Current, JobsOf, Made, CurrentIsComplete
<1> QED BY <1>1, <1>2, <1>3, <1>4, <1>5 DEF IInv

LEMMA StaysSound == IInv /\ [Next]_vars => IInv'
<1>1. CASE IInv /\ Next
  BY <1>1, TypeStep, NumberedStep, NotesStep, CallersStep, MatchedStep, WorkerStep, SweptStep,
    ListedStep, OneCurrentStep, CompleteStep DEF IInv
<1>2. CASE IInv /\ UNCHANGED vars
  BY <1>2 DEF vars, notes, store, callers, IInv, TypeOK, Numbered, Bounded, Requested, Matched,
    WorkerHolds, Swept, Listed, OneCurrent, CurrentIsComplete, Made, Busy, At, Current, JobsOf
<1> QED BY <1>1, <1>2

LEMMA Sound == Spec => []IInv
BY StartsSound, StaysSound, PTL DEF Spec

(* Every variable keeps its type, and the rows of the queue are those      *)
(* numbered up to made.                                                    *)
THEOREM IndexTypeCorrect == Spec => []TypeOK
<1>1. IInv => TypeOK
  BY DEF IInv
<1> QED BY <1>1, Sound, PTL

(* No order of commits, recoveries, archives and restarts leaves two       *)
(* generations of a note current (vector-index-repository.ts:945-1016).    *)
THEOREM AtMostOneCurrent == Spec => []OneCurrent
<1>1. IInv => OneCurrent
  BY DEF IInv
<1> QED BY <1>1, Sound, PTL

(* The generation a search is sent to has all its points in Qdrant, with   *)
(* any number of collections at once.                                      *)
THEOREM CurrentStaysComplete == Spec => []CurrentIsComplete
<1>1. IInv => CurrentIsComplete
  BY DEF IInv
<1> QED BY <1>1, Sound, PTL

(* A finished job and its generation agree: no job that is over leaves a   *)
(* generation in staging.                                                  *)
THEOREM JobsAndGenerationsAgree == Spec => []JobOutcome
<1>1. IInv => JobOutcome
  BY DEF IInv, Matched, JobOutcome
<1> QED BY <1>1, Sound, PTL

-----------------------------------------------------------------------------
(* The contract.                                                           *)

LEMMA ChosenOne ==
  ASSUME NEW S, NEW i \in S, \A a, b \in S : a = b
  PROVE  (CHOOSE x \in S : TRUE) = i
<1>1. (CHOOSE x \in S : TRUE) \in S
  OBVIOUS
<1> QED BY <1>1

\* A note whose current generations are the same is shown as before.
LEMMA ShownSame ==
  ASSUME IInv, Next, NEW n \in Notes,
         \A i \in Ids : gen'[i] = "current" => gen[i] = "current",
         \A i \in JobsOf(n) : gen[i] = "current" => gen'[i] = "current"
  PROVE  Shown'[n] = Shown[n]
<1>1. Current(n)' = Current(n)
  <2>1. ASSUME NEW i \in Current(n)'
        PROVE  i \in Current(n)
    <3>1. i \in Ids /\ gen[i] = "current" /\ about'[i].note = n
      BY <2>1, MadeStep DEF Current, JobsOf
    <3>2. i \in Made
      BY <3>1, RowTypes DEF IInv, Numbered, Made, Ids
    <3> QED BY <3>1, <3>2, AboutStep DEF Current, JobsOf
  <2>2. ASSUME NEW i \in Current(n)
        PROVE  i \in Current(n)'
    BY <2>2, AboutStep DEF Current, JobsOf
  <2> QED BY <2>1, <2>2
<1>2. CASE Current(n) = {}
  BY <1>1, <1>2 DEF Shown
<1>3. CASE Current(n) # {}
  <2> DEFINE x == CHOOSE i \in Current(n) : TRUE
  <2>1. x \in Current(n)
    BY <1>3
  <2>2. about'[x] = about[x]
    BY <2>1, AboutStep DEF Current, JobsOf
  <2>3. Shown[n] = about[x].rev /\ Shown'[n] = about'[x].rev
    BY <1>1, <1>3 DEF Shown
  <2> QED BY <2>2, <2>3
<1> QED BY <1>2, <1>3

\* What is shown of a note changes when one of its generations is promoted or
\* the note is archived.
LEMMA ShownSteps ==
  ASSUME IInv, Next
  PROVE  \/ \E n \in Notes : Archive(n)
         \/ Shown' = Shown
         \/ /\ UNCHANGED <<revision, archived>>
            /\ \E j \in Made : /\ TargetCurrent(j)
                               /\ Shown' = [Shown EXCEPT ![about[j].note] = about[j].rev]
<1>1. Shown = [n \in Notes |-> Shown[n]] /\ Shown' = [n \in Notes |-> Shown'[n]]
  BY DEF Shown
<1>2. ASSUME NEW j \in Made, Promotes(j), gen' = Promoted(j), UNCHANGED <<made, about>>
      PROVE  Shown' = [Shown EXCEPT ![about[j].note] = about[j].rev]
  <2>1. PICK m \in Notes : m = about[j].note
    BY RowTypes DEF IInv, Numbered
  <2>2. ASSUME NEW n \in Notes, n # m
        PROVE  Shown'[n] = Shown[n]
    <3>1. Current(n)' = Current(n)
      BY <1>2, <2>1, <2>2, RowTypes DEF Current, JobsOf, Made, Promoted
    <3> QED BY <1>2, <3>1 DEF Shown
  <2>3. Shown'[m] = about[j].rev
    <3>1. j \in Current(m)'
      BY <1>2, <2>1, RowTypes DEF Current, JobsOf, Made, Promoted
    <3>2. \A a, b \in Current(m)' : a = b
      BY <2>1, OneCurrentStep DEF OneCurrent
    <3>3. (CHOOSE x \in Current(m)' : TRUE) = j
      BY <3>1, <3>2, ChosenOne
    <3>4. Shown'[m] = about'[CHOOSE x \in Current(m)' : TRUE].rev
      BY <2>1, <3>1 DEF Shown
    <3> QED BY <1>2, <3>3, <3>4
  <2> QED BY <1>1, <2>1, <2>2, <2>3
<1>3. ASSUME \A i \in Ids : gen'[i] = "current" => gen[i] = "current",
             \A i \in Ids : gen[i] = "current" => gen'[i] = "current"
      PROVE  Shown' = Shown
  <2>1. \A n \in Notes : JobsOf(n) \subseteq Ids
    BY RowTypes DEF JobsOf
  <2>2. \A n \in Notes : Shown'[n] = Shown[n]
    BY <1>3, <2>1, ShownSame
  <2> QED BY <1>1, <2>2
<1>4. CASE \A i \in Ids : gen'[i] = "current" => gen[i] = "current"
  <2>1. \/ \E n \in Notes : Archive(n)
        \/ \A i \in Ids : gen[i] = "current" => gen'[i] = "current"
    <3>1. CASE UNCHANGED Rows \/ Claim \/ Mark \/ Interrupt \/ CloseJob
      BY <3>1 DEF Rows, Claim, Mark, Interrupt, CloseJob
    <3>2. ASSUME NEW n \in Notes, NEW r \in Nat \ {0}, NEW s \in BOOLEAN, Insert(n, r, s)
          PROVE  \A i \in Ids : gen[i] = "current" => gen'[i] = "current"
      BY <3>2, RowTypes DEF Insert, Superseded, Pending, JobsOf, Made, IInv, Numbered, Matched
    <3>3. CASE FailGeneration \/ Start
      BY <3>3, RowTypes DEF FailGeneration, Start
    <3>4. ASSUME NEW j \in Ids, gen' = Promoted(j), gen[j] = "staging"
          PROVE  FALSE
      BY <1>4, <3>4, RowTypes DEF Promoted
    <3>5. ~(Commit /\ Promotes(worker.id))
      <4>1. SUFFICES ASSUME Commit, Promotes(worker.id) PROVE FALSE
        OBVIOUS
      <4>2. worker.id \in Ids
        BY <4>1, Held DEF Commit, Busy, At
      <4> QED BY <3>4, <4>1, <4>2 DEF Commit, Promotes
    <3>6. ASSUME NEW j \in Ids, RecoverJob(j)
          PROVE  \A i \in Ids : gen[i] = "current" => gen'[i] = "current"
      <4>1. gen[j] = "staging"
        BY <3>6 DEF RecoverJob, IInv, Listed
      <4>2. gen' = gen \/ gen' = [gen EXCEPT ![j] = "failed"]
        BY <3>4, <3>6, <4>1 DEF RecoverJob
      <4> QED BY <4>1, <4>2, RowTypes
    <3> QED BY <3>1, <3>2, <3>3, <3>5, <3>6, RowSteps
  <2> QED BY <1>3, <1>4, <2>1
<1> QED BY <1>2, <1>4, PromotionSteps DEF Promotes

LEMMA ContractStep ==
  ASSUME IInv, Next
  PROVE  [Contract!Next]_(Contract!vars)
<1>0. /\ revision \in [Notes -> Nat]
      /\ Shown = [n \in Notes |-> Shown[n]] /\ Shown' = [n \in Notes |-> Shown'[n]]
  BY DEF IInv, TypeOK, Shown
<1>1. ASSUME NEW n \in Notes, Archive(n)
      PROVE  Contract!Archive(n)
  <2>1. /\ n \notin archived /\ revision[n] > 0
        /\ revision' = [revision EXCEPT ![n] = @ + 1] /\ archived' = archived \cup {n}
        /\ UNCHANGED <<made, about>>
    BY <1>1 DEF Archive, MayArchive
  <2>2. Shown'[n] = 0
    <3>1. Current(n)' = {}
      BY <1>1, RowTypes DEF Archive, Current, JobsOf, Made
    <3> QED BY <3>1 DEF Shown
  <2>3. ASSUME NEW k \in Notes, k # n
        PROVE  Shown'[k] = Shown[k]
    <3>1. \A i \in Ids : gen'[i] = "current" => gen[i] = "current"
      BY <1>1, RowTypes DEF Archive
    <3>2. \A i \in JobsOf(k) : gen[i] = "current" => gen'[i] = "current"
      BY <1>1, <2>3, RowTypes DEF Archive, JobsOf
    <3> QED BY <3>1, <3>2, ShownSame
  <2>4. Shown' = [Shown EXCEPT ![n] = 0]
    BY <1>0, <2>2, <2>3
  <2> QED BY <2>1, <2>4 DEF Contract!Archive
<1>2. ASSUME NEW j \in Made, TargetCurrent(j), UNCHANGED <<revision, archived>>,
             Shown' = [Shown EXCEPT ![about[j].note] = about[j].rev]
      PROVE  \E n \in Notes : Contract!Publish(n)
  <2>1. about[j].note \in Notes /\ about[j].rev > 0
    BY RowTypes DEF IInv, Numbered
  <2> QED BY <1>2, <2>1 DEF TargetCurrent, Contract!Publish
<1>3. ASSUME Shown' = Shown, ~\E n \in Notes : Archive(n)
      PROVE  (\E n \in Notes : Contract!Write(n)) \/ UNCHANGED Contract!vars
  <2>1. UNCHANGED notes \/ \E n \in Notes : Write(n)
    <3>1. CASE Work
      BY <3>1 DEF Work, Claim, RunDry, Read, SaveManifest, Upsert, Mark, Verify, Check,
        Commit, Clean, Interrupt, FailGeneration, CloseJob, notes
    <3>2. CASE Collect
      BY <3>2 DEF Collect, DeletePoints, MarkDeleted, notes
    <3>3. CASE Boot
      BY <3>3 DEF Boot, Start, ListWritten, RecoverGarbage, GoUp, RebuildDrain, BootDrain,
        RecoverJob, Rebuild, notes
    <3>4. CASE Shutdown \/ Exit \/ Crash
      BY <3>4 DEF Shutdown, Exit, Crash, Gone, notes
    <3>5. CASE \E n \in Notes : Enqueue(n) \/ Hide(n)
      BY <3>5 DEF Enqueue, Hide, notes
    <3> QED BY <1>3, <3>1, <3>2, <3>3, <3>4, <3>5 DEF Next
  <2>2. CASE UNCHANGED notes
    BY <1>3, <2>2 DEF notes, Contract!vars
  <2>3. ASSUME NEW n \in Notes, Write(n)
        PROVE  Contract!Write(n)
    BY <1>3, <2>3 DEF Write, Contract!Write
  <2> QED BY <2>1, <2>2, <2>3
<1> QED BY <1>1, <1>2, <1>3, ShownSteps DEF Contract!Next

(* The index implements IndexContract: what a search is shown of a note    *)
(* changes only to the note's present revision, or to nothing when it is   *)
(* archived.                                                               *)
THEOREM IndexContractIsKept == Spec => ContractSpec
<1>1. Init => Contract!Init
  BY DEF Init, Contract!Init, Shown, Current, JobsOf, Made
<1>2. IInv /\ [Next]_vars => [Contract!Next]_(Contract!vars)
  <2>1. CASE IInv /\ Next
    BY <2>1, ContractStep
  <2>2. CASE UNCHANGED vars
    BY <2>2 DEF vars, notes, store, Contract!vars, Shown, Current, JobsOf, Made
  <2> QED BY <2>1, <2>2
<1> QED BY <1>1, <1>2, Sound, PTL DEF Spec, ContractSpec, Contract!Spec

-----------------------------------------------------------------------------
(* The backlog of the garbage collector.                                   *)

Live(i) == about[i].note \notin archived

\* What is marked deleted is garbage without points; a collection that is
\* about to mark has deleted the points; the worker never writes points of
\* garbage.  An archive may come in between, hence the live notes.
Backlog ==
  /\ \A i \in deleted : gen[i] \in {"retired", "failed"}
  /\ \A i \in deleted : Live(i) => points[i] = "none"
  /\ \A c \in Collectors : collector[c].phase = "mark" =>
       \A i \in collector[c].ids : Live(i) => points[i] = "none"
  /\ At("upsert") /\ Live(worker.id) => gen[worker.id] = "staging"

\* A step that gives Qdrant points of a generation is the worker's.
LEMMA WrittenByWorker ==
  ASSUME IInv, Next, NEW i \in Ids
  PROVE  points'[i] \in {points[i], "none"} \/ (worker.id = i /\ Upsert)
<1>1. points \in [Ids -> {"none", "part", "full"}]
  BY DEF IInv, TypeOK
<1>2. CASE Upsert \/ Clean
  BY <1>1, <1>2 DEF Upsert, Clean, Busy, At
<1>3. CASE Collect
  BY <1>1, <1>3 DEF Collect, DeletePoints, MarkDeleted
<1>4. CASE Work /\ ~(Upsert \/ Clean)
  BY <1>4 DEF Work, Claim, RunDry, Read, SaveManifest, Mark, Verify, Check,
    Commit, Interrupt, FailGeneration, CloseJob
<1>5. CASE Boot \/ Shutdown \/ Exit \/ Crash
  BY <1>5 DEF Boot, Start, ListWritten, RecoverGarbage, GoUp, RebuildDrain, BootDrain,
    RecoverJob, Rebuild, Shutdown, Exit, Crash, Gone
<1>6. CASE \E n \in Notes : Write(n) \/ Enqueue(n) \/ Archive(n) \/ Hide(n)
  BY <1>6 DEF Write, Enqueue, Archive, Hide
<1> QED BY <1>2, <1>3, <1>4, <1>5, <1>6 DEF Next

\* Nor does a live one become live again.
LEMMA LiveStep ==
  ASSUME IInv, Next, NEW i \in Made, Live(i)'
  PROVE  Live(i)
BY AboutStep, NotesStep DEF Live

\* Garbage without points stays without.
LEMMA GarbageStaysEmpty ==
  ASSUME IInv, Backlog, Next, NEW i \in Made, Live(i), points[i] = "none",
         gen[i] \in {"retired", "failed"}
  PROVE  points'[i] = "none"
<1>1. i \in Ids
  BY RowTypes
<1>2. ~(worker.id = i /\ Upsert)
  BY DEF Backlog, Upsert
<1> QED BY <1>1, <1>2, WrittenByWorker

\* What a collection holds when it has deleted.
LEMMA MarkingSteps ==
  ASSUME IInv, Next, NEW c \in Collectors, collector'[c].phase = "mark"
  PROVE  \/ collector'[c] = collector[c]
         \/ /\ collector'[c].ids = collector[c].ids
            /\ \A i \in collector[c].ids : points'[i] = "none"
<1>1. collector \in [Collectors -> [phase : {"off", "delete", "mark"}, ids : SUBSET Made]]
  BY DEF IInv, TypeOK
<1>2. ASSUME StartCollect
      PROVE  collector'[c] = collector[c]
  <2> DEFINE d == CHOOSE x \in Free : TRUE
  <2>1. \/ collector' = collector
        \/ collector' = [collector EXCEPT ![d] = [phase |-> "delete", ids |-> Garbage]]
    BY <1>2 DEF StartCollect
  <2> HIDE DEF d
  <2> QED BY <1>1, <2>1
<1>3. ASSUME NEW d \in Collectors, DeletePoints(d)
      PROVE  \/ collector'[c] = collector[c]
             \/ /\ collector'[c].ids = collector[c].ids
                /\ \A i \in collector[c].ids : points'[i] = "none"
  <2>1. CASE c # d
    BY <1>1, <1>3, <2>1 DEF DeletePoints, Abandoned
  <2>2. CASE c = d
    <3>1. collector' # [collector EXCEPT ![c] = NoWork]
      BY <1>1 DEF NoWork
    <3>2. /\ points' = [i \in Ids |-> IF i \in collector[c].ids THEN "none" ELSE points[i]]
          /\ collector' = [collector EXCEPT ![c].phase = "mark"]
      BY <1>3, <2>2, <3>1 DEF DeletePoints, Abandoned
    <3>3. collector[c].ids \subseteq Ids
      BY <1>1, RowTypes
    <3> QED BY <1>1, <3>2, <3>3
  <2> QED BY <2>1, <2>2
<1>4. ASSUME NEW d \in Collectors, MarkDeleted(d)
      PROVE  collector'[c] = collector[c]
  BY <1>1, <1>4 DEF MarkDeleted, NoWork
<1>5. CASE Exit \/ Crash
  BY <1>5 DEF Exit, Crash, Gone, NoWork
<1>6. CASE Work
  BY <1>2, <1>6 DEF Work, Claim, RunDry, Read, SaveManifest, Upsert, Mark, Verify, Check,
    Commit, Clean, Interrupt, FailGeneration, CloseJob
<1>7. CASE Boot \/ Shutdown
  BY <1>2, <1>7 DEF Boot, Start, ListWritten, RecoverGarbage, GoUp, RebuildDrain, BootDrain,
    RecoverJob, Rebuild, Shutdown
<1>8. CASE \E n \in Notes : Write(n) \/ Enqueue(n) \/ Archive(n) \/ Hide(n)
  BY <1>2, <1>8 DEF Write, Enqueue, Archive, Hide
<1> QED BY <1>3, <1>4, <1>5, <1>6, <1>7, <1>8 DEF Next, Collect

\* What a step marks deleted.
LEMMA DeletedSteps ==
  ASSUME IInv, Next, NEW i \in deleted', i \notin deleted
  PROVE  /\ i \in Garbage /\ points' = points
         /\ \E c \in Collectors : collector[c].phase = "mark" /\ i \in collector[c].ids
<1>1. CASE Work
  BY <1>1 DEF Work, Claim, RunDry, Read, SaveManifest, Upsert, Mark, Verify, Check,
    Commit, Clean, Interrupt, FailGeneration, CloseJob, store
<1>2. CASE Collect
  BY <1>2 DEF Collect, DeletePoints, MarkDeleted, store
<1>3. CASE Boot
  BY <1>3 DEF Boot, Start, ListWritten, RecoverGarbage, GoUp, RebuildDrain, BootDrain,
    RecoverJob, Rebuild, store, EnqueueJob, Insert
<1>4. CASE Shutdown \/ Exit \/ Crash
  BY <1>4 DEF Shutdown, Exit, Crash, Gone, store
<1>5. CASE \E n \in Notes : Write(n) \/ Enqueue(n) \/ Archive(n) \/ Hide(n)
  BY <1>5 DEF Write, Enqueue, Archive, Hide, store, EnqueueJob, Insert
<1> QED BY <1>1, <1>2, <1>3, <1>4, <1>5 DEF Next

\* When the worker is about to write points.
LEMMA UpsertSteps ==
  ASSUME IInv, Backlog, Next, At("upsert")', Live(worker.id)'
  PROVE  gen'[worker'.id] = "staging"
<1>1. worker \in [pc : Steps, id : 0..MaxJobs, started : BOOLEAN, aborted : BOOLEAN]
  BY DEF IInv, TypeOK
<1>2. CASE Claim
  <2>1. PICK i \in Claimable : worker' = [Idle EXCEPT !.pc = "read", !.id = i]
    BY <1>2 DEF Claim
  <2> QED BY <2>1 DEF At, Idle
<1>3. CASE Read \/ Upsert \/ Mark \/ Verify \/ Check \/ (Commit /\ ~Promotes(worker.id))
             \/ Clean \/ FailGeneration
  BY <1>1, <1>3 DEF Read, Upsert, Mark, Verify, Check, Commit, Clean, FailGeneration,
    At, Go, Fail, Idle
<1>4. CASE SaveManifest
  <2>1. gen[worker.id] = "staging" /\ gen' = gen /\ worker'.id = worker.id
    BY <1>1, <1>4 DEF SaveManifest, At, Go, Fail
  <2> QED BY <2>1
<1>5. CASE worker'.pc = worker.pc /\ worker'.id = worker.id
  <2> DEFINE w == worker.id
  <2>1. Busy /\ At("upsert") /\ w \in Made /\ w \in Ids
    BY <1>5, Held DEF At, Busy
  <2>2. Live(w)
    BY <1>5, <2>1, LiveStep DEF Live
  <2>3. gen[w] = "staging"
    BY <2>1, <2>2 DEF Backlog
  <2>4. app \in {"up", "stopping"} /\ job[w] \in {"running", "qdrant_written"}
    BY <2>1, Held
  <2>5. ~Start /\ ~RecoverJob(w)
    BY <2>4 DEF Start, RecoverJob
  <2>6. ~Mark /\ ~Interrupt /\ ~FailGeneration /\ ~CloseJob /\ ~Commit
    BY <2>1 DEF Mark, Interrupt, FailGeneration, CloseJob, Commit, At
  <2>7. CASE UNCHANGED <<job[w], gen[w]>>
    BY <1>5, <2>3, <2>7
  <2>8. ASSUME NEW n \in Notes, Archive(n)
        PROVE  gen'[w] = gen[w]
    <3>1. about[w].note # n
      BY <1>5, <2>8 DEF Archive, Live
    <3> QED BY <2>1, <2>8, <3>1, RowTypes DEF Archive, JobsOf
  <2> QED BY <1>5, <2>1, <2>3, <2>4, <2>5, <2>6, <2>7, <2>8, OthersJobs
<1>6. Busy'
  BY DEF At, Busy
<1> QED BY <1>2, <1>3, <1>4, <1>5, <1>6, WorkerSteps

LEMMA BacklogStep ==
  ASSUME IInv, Backlog, Next
  PROVE  Backlog'
<1>1. /\ deleted \subseteq Made
      /\ collector \in [Collectors -> [phase : {"off", "delete", "mark"}, ids : SUBSET Made]]
  BY DEF IInv, TypeOK
<1>2. ASSUME NEW i \in deleted'
      PROVE  /\ i \in Made /\ gen[i] \in {"retired", "failed"}
             /\ Live(i) => points[i] = "none"
  <2>1. CASE i \in deleted
    BY <1>1, <2>1 DEF Backlog
  <2>2. CASE i \notin deleted
    BY <1>2, <2>2, DeletedSteps DEF Garbage, Backlog
  <2> QED BY <2>1, <2>2
<1>3. ASSUME NEW i \in deleted'
      PROVE  /\ gen'[i] \in {"retired", "failed"}
             /\ Live(i)' => points'[i] = "none"
  <2>1. i \in Made /\ i \in Ids
    BY <1>2, RowTypes
  <2> QED BY <1>2, <2>1, GenSteps, LiveStep, GarbageStaysEmpty
<1>4. ASSUME NEW c \in Collectors, collector'[c].phase = "mark",
             NEW i \in collector'[c].ids, Live(i)'
      PROVE  points'[i] = "none"
  <2>1. CASE collector'[c] = collector[c]
    <3>1. i \in Made /\ gen[i] \in {"retired", "failed"}
      BY <1>1, <1>4, <2>1 DEF IInv, Swept
    <3>2. Live(i) /\ points[i] = "none"
      BY <1>4, <2>1, <3>1, LiveStep DEF Backlog
    <3> QED BY <3>1, <3>2, GarbageStaysEmpty
  <2>2. CASE /\ collector'[c].ids = collector[c].ids
             /\ \A k \in collector[c].ids : points'[k] = "none"
    BY <1>4, <2>2
  <2> QED BY <1>4, <2>1, <2>2, MarkingSteps
<1> QED BY <1>3, <1>4, UpsertSteps DEF Backlog

(* A generation of a note that is not archived is marked deleted only when *)
(* Qdrant holds nothing of it, with any number of collections, commits and *)
(* restarts between a deletion and its mark                                *)
(* (knowledge-index-worker.ts, the durable backlog).                       *)
THEOREM BacklogStays == Spec => []BacklogIsKept
<1>1. Init => Backlog
  BY DEF Init, Backlog, NoWork, Idle, At
<1>2. IInv /\ Backlog /\ [Next]_vars => Backlog'
  <2>1. CASE UNCHANGED vars
    BY <2>1 DEF vars, notes, store, Backlog, Live, At
  <2> QED BY <2>1, BacklogStep
<1>3. Backlog => BacklogIsKept
  BY DEF Backlog, BacklogIsKept, Live
<1> QED BY <1>1, <1>2, <1>3, Sound, PTL DEF Spec

-----------------------------------------------------------------------------
(* Freshness.  In a first run without failed calls, the index is fresh     *)
(* when the worker has nothing left to do, for any notes and any number of *)
(* edits, archives and collections.                                        *)

First == starts = 1 /\ app = "up"

Handled(i) == Busy /\ worker.id = i

\* A job that nobody holds and whose generation failed without it.
Wedged == \E i \in Made :
  job[i] \in {"running", "qdrant_written"} /\ gen[i] # "staging" /\ ~Handled(i)

-----------------------------------------------------------------------------
(* The loops.  Whoever makes a job pend sees to a loop: the caller of an   *)
(* enqueue schedules a drain, the rebuild drains by itself and the startup *)
(* schedules one.  A loop returns when nothing pends, or because a job     *)
(* made it throw.                                                          *)

Served ==
  /\ Busy => loop # "none"
  /\ Busy /\ app = "up" => ~worker.aborted
  /\ app = "up" /\ loop = "none" /\ ~todo.drain /\ ~todo.boot /\ InStatus("pending") # {}
       => Wedged

\* A loop ends for a reason.
LEMMA LoopSteps ==
  ASSUME IInv, Next, loop # "none", loop' = "none"
  PROVE  \/ RunDry
         \/ Interrupt
         \/ FailGeneration /\ gen[worker.id] # "staging" /\ UNCHANGED <<job, gen>>
         \/ (Commit \/ CloseJob) /\ app = "stopping" /\ UNCHANGED app /\ worker' = Idle
         \/ Gone
<1>1. CASE Work
  <2>1. CASE FailGeneration
    BY <2>1 DEF FailGeneration
  <2>2. CASE Commit \/ CloseJob
    BY <2>2 DEF Commit, CloseJob, After
  <2>3. CASE Claim \/ Read \/ SaveManifest \/ Upsert \/ Mark \/ Verify \/ Check \/ Clean
    BY <2>3 DEF Claim, Read, SaveManifest, Upsert, Mark, Verify, Check, Clean
  <2> QED BY <1>1, <2>1, <2>2, <2>3 DEF Work
<1>2. CASE Collect \/ Shutdown
  BY <1>2 DEF Collect, DeletePoints, MarkDeleted, Shutdown
<1>3. CASE Boot
  BY <1>3 DEF Boot, Start, ListWritten, RecoverGarbage, GoUp, RebuildDrain, BootDrain,
    RecoverJob, Rebuild, Drained
<1>4. CASE \E n \in Notes : Write(n) \/ Enqueue(n) \/ Archive(n) \/ Hide(n)
  BY <1>4 DEF Write, Enqueue, Archive, Hide, Drained
<1> QED BY <1>1, <1>2, <1>3, <1>4 DEF Next, Exit, Crash

\* The worker does not change hands, and only a shutdown aborts it.
LEMMA HandSteps ==
  ASSUME IInv, Next, Busy'
  PROVE  \/ Claim /\ worker'.aborted = FALSE
         \/ /\ Busy /\ worker'.id = worker.id
            /\ worker'.aborted = worker.aborted \/ app' = "stopping"
<1>1. worker \in [pc : Steps, id : 0..MaxJobs, started : BOOLEAN, aborted : BOOLEAN]
  BY DEF IInv, TypeOK
<1>2. CASE Claim
  <2>1. PICK i \in Claimable : worker' = [Idle EXCEPT !.pc = "read", !.id = i]
    BY <1>2 DEF Claim
  <2> QED BY <1>2, <2>1 DEF Idle
<1>3. CASE Work /\ ~Claim
  <2>1. Busy \/ RunDry
    BY <1>3 DEF Work, Read, SaveManifest, Upsert, Mark, Verify, Check,
      Commit, Clean, Interrupt, FailGeneration, CloseJob, Busy, At
  <2>2. \/ worker' = worker
        \/ \E x \in Steps : worker' \in {[worker EXCEPT !.pc = x],
                                         [worker EXCEPT !.pc = x, !.started = TRUE]}
    BY <1>3 DEF Work, RunDry, Read, SaveManifest, Upsert, Mark, Verify, Check,
      Commit, Clean, Interrupt, FailGeneration, CloseJob, Go, Fail, Busy, Idle, Steps
  <2>3. RunDry => ~Busy'
    BY DEF RunDry, Busy
  <2> QED BY <1>1, <2>1, <2>2, <2>3
<1>4. CASE Collect
  BY <1>4 DEF Collect, DeletePoints, MarkDeleted, Busy
<1>5. CASE Boot
  BY <1>5 DEF Boot, Start, ListWritten, RecoverGarbage, GoUp, RebuildDrain, BootDrain,
    RecoverJob, Rebuild, Busy
<1>6. CASE Shutdown
  BY <1>1, <1>6 DEF Shutdown, Busy
<1>7. CASE Exit \/ Crash
  BY <1>7 DEF Exit, Crash, Gone, Busy, Idle
<1>8. CASE \E n \in Notes : Write(n) \/ Enqueue(n) \/ Archive(n) \/ Hide(n)
  BY <1>8 DEF Write, Enqueue, Archive, Hide, Busy
<1> QED BY <1>2, <1>3, <1>4, <1>5, <1>6, <1>7, <1>8 DEF Next

\* How the program comes up.
LEMMA UpSteps ==
  ASSUME IInv, Next, app' = "up"
  PROVE  app = "up" \/ GoUp
<1>1. CASE Work \/ Collect \/ Shutdown \/ Exit \/ Crash
  BY <1>1 DEF Work, Claim, RunDry, Read, SaveManifest, Upsert, Mark, Verify, Check,
    Commit, Clean, Interrupt, FailGeneration, CloseJob, Collect, DeletePoints, MarkDeleted,
    Shutdown, Exit, Crash, Gone
<1>2. CASE Boot
  BY <1>2 DEF Boot, Start, ListWritten, RecoverGarbage, RebuildDrain, BootDrain,
    RecoverJob, Rebuild
<1>3. CASE \E n \in Notes : Write(n) \/ Enqueue(n) \/ Archive(n) \/ Hide(n)
  BY <1>3 DEF Write, Enqueue, Archive, Hide
<1> QED BY <1>1, <1>2, <1>3 DEF Next

\* While the program is up, nobody touches a job that is wedged.
LEMMA WedgedStep ==
  ASSUME IInv, Next, Wedged, app = "up"
  PROVE  Wedged'
<1>1. PICK i \in Made : /\ job[i] \in {"running", "qdrant_written"}
                        /\ gen[i] # "staging" /\ ~Handled(i)
  BY DEF Wedged
<1>2. ~Start /\ ~RecoverJob(i)
  BY DEF Start, RecoverJob
<1>3. job'[i] = job[i] /\ gen'[i] # "staging"
  BY <1>1, <1>2, OthersJobs DEF Handled
<1>4. ~Handled(i)'
  <2>1. ASSUME Handled(i)', Claim
        PROVE  FALSE
    <3>1. PICK k \in Claimable : worker' = [Idle EXCEPT !.pc = "read", !.id = k]
      BY <2>1 DEF Claim
    <3>2. k = i /\ job[k] = "pending"
      BY <2>1, <3>1 DEF Handled, Idle, Claimable, InStatus
    <3> QED BY <1>1, <3>2
  <2> QED BY <1>1, <2>1, HandSteps DEF Handled
<1>5. i \in Made'
  BY MadeGrows
<1> QED BY <1>1, <1>3, <1>4, <1>5 DEF Wedged

\* Where a pending job comes from while the program is up.
LEMMA PendingSteps ==
  ASSUME IInv, Next, app = "up", app' = "up", InStatus("pending") = {}, InStatus("pending")' # {}
  PROVE  (\E n \in Notes : Enqueue(n)) \/ todo'.drain
<1>1. PICK i \in Made' : job'[i] = "pending"
  BY DEF InStatus
<1>2. i \in Ids
  BY <1>1, MadeStep
<1>3. job[i] # "pending"
  BY <1>2, RowTypes DEF InStatus, IInv, Numbered, Made, Ids
<1>4. CASE UNCHANGED Rows
  BY <1>1, <1>3, <1>4 DEF Rows
<1>5. CASE (\E n \in Notes : Archive(n)) \/ Claim \/ Mark \/ Interrupt \/ FailGeneration
             \/ CloseJob \/ (Commit /\ Promotes(worker.id)) \/ (\E k \in Ids : RecoverJob(k))
  BY <1>1, <1>2, <1>3, <1>5, RowTypes DEF Archive, Claim, Mark, Interrupt, FailGeneration,
    CloseJob, Commit, RecoverJob
<1>6. CASE made' # made
  <2>1. CASE Boot
    <3>1. PICK n \in Notes : Rebuild(n)
      BY <1>6, <2>1 DEF Boot, Start, ListWritten, RecoverGarbage, GoUp, RebuildDrain, BootDrain,
        RecoverJob, Rebuild, store
    <3>2. todo' = [todo EXCEPT !.rebuild = @ \ {n}, !.drain = TRUE]
      BY <1>6, <3>1 DEF Rebuild, store
    <3>3. todo \in [jobs : SUBSET Made, rebuild : SUBSET Notes, drain : BOOLEAN, boot : BOOLEAN]
      BY DEF IInv, TypeOK
    <3> QED BY <3>2, <3>3
  <2>2. CASE Work
    BY <1>6, <2>2 DEF Work, Claim, RunDry, Read, SaveManifest, Upsert, Mark, Verify, Check,
      Commit, Clean, Interrupt, FailGeneration, CloseJob, store
  <2>3. CASE Collect \/ Shutdown \/ Exit \/ Crash
    BY <1>6, <2>3 DEF Collect, DeletePoints, MarkDeleted, Shutdown, Exit, Crash, Gone, store
  <2>4. CASE \E n \in Notes : Write(n) \/ Enqueue(n) \/ Archive(n) \/ Hide(n)
    BY <1>6, <2>4 DEF Write, Archive, Hide, store
  <2> QED BY <2>1, <2>2, <2>3, <2>4 DEF Next
<1>7. ~Start
  BY DEF Start
<1>8. ASSUME NEW n \in Notes, NEW r \in Nat \ {0}, NEW s \in BOOLEAN, Insert(n, r, s)
      PROVE  made' # made
  BY <1>8, RowTypes DEF Insert
<1> QED BY <1>4, <1>5, <1>6, <1>7, <1>8, RowSteps

LEMMA ServedStep ==
  ASSUME IInv, Served, Next
  PROVE  Served'
<1>0. todo \in [jobs : SUBSET Made, rebuild : SUBSET Notes, drain : BOOLEAN, boot : BOOLEAN]
  BY DEF IInv, TypeOK
<1>1. Busy' => loop' # "none"
  <2> SUFFICES ASSUME Busy', loop' = "none" PROVE FALSE
    OBVIOUS
  <2>1. loop # "none"
    BY HandSteps DEF Served, Claim
  <2> QED BY <2>1, LoopSteps DEF RunDry, Interrupt, FailGeneration, Gone, Busy, Idle
<1>2. Busy' /\ app' = "up" => ~worker'.aborted
  <2> SUFFICES ASSUME Busy', app' = "up" PROVE ~worker'.aborted
    OBVIOUS
  <2>1. Busy => app = "up"
    BY UpSteps, Held DEF GoUp
  <2> QED BY <2>1, HandSteps DEF Served
<1>3. ASSUME app' = "up", loop' = "none", ~todo'.drain, ~todo'.boot, InStatus("pending")' # {}
      PROVE  Wedged'
  <2>1. app = "up"
    <3>1. GoUp => todo'.boot
      BY DEF GoUp
    <3> QED BY <1>3, <3>1, UpSteps
  <2>2. CASE loop # "none"
    <3>1. ~RunDry
      BY <1>3 DEF RunDry, InStatus, store, Made
    <3>2. ~Gone
      BY <1>3 DEF Gone
    <3>3. ~Interrupt
      BY <2>1 DEF Interrupt, Served, At, Busy
    <3>4. CASE FailGeneration /\ gen[worker.id] # "staging" /\ UNCHANGED <<job, gen>>
      <4>1. Busy /\ worker' = Idle
        BY <3>4 DEF FailGeneration, At, Busy
      <4>2. worker.id \in Made' /\ job[worker.id] \in {"running", "qdrant_written"}
        BY <4>1, Held, MadeGrows
      <4> QED BY <3>4, <4>1, <4>2 DEF Wedged, Handled, Busy, Idle
    <3> QED BY <1>3, <2>1, <2>2, <3>1, <3>2, <3>3, <3>4, LoopSteps
  <2>3. CASE loop = "none"
    <3>1. ~\E n \in Notes : Enqueue(n)
      BY <1>3, <2>1, <2>3 DEF Enqueue, Drained
    <3>2. InStatus("pending") # {}
      BY <1>3, <2>1, <3>1, PendingSteps
    <3>3. ~RebuildDrain /\ ~BootDrain
      BY <1>3, <2>1, <2>3 DEF RebuildDrain, BootDrain, Drained
    <3>4. ~todo.drain /\ ~todo.boot
      <4>1. CASE Work
        BY <1>3, <4>1 DEF Work, Claim, RunDry, Read, SaveManifest, Upsert, Mark, Verify, Check,
          Commit, Clean, Interrupt, FailGeneration, CloseJob
      <4>2. CASE Collect \/ Shutdown
        BY <1>3, <4>2 DEF Collect, DeletePoints, MarkDeleted, Shutdown
      <4>3. CASE Exit \/ Crash
        BY <1>3, <4>3 DEF Exit, Crash, Gone
      <4>4. CASE Boot
        <5>1. ~Start /\ ~ListWritten /\ ~RecoverGarbage /\ ~GoUp /\ ~\E i \in Ids : RecoverJob(i)
          BY <2>1 DEF Start, ListWritten, RecoverGarbage, GoUp, RecoverJob
        <5>2. PICK n \in Notes : Rebuild(n)
          BY <3>3, <4>4, <5>1 DEF Boot
        <5>3. todo' \in {[todo EXCEPT !.rebuild = @ \ {n}],
                         [todo EXCEPT !.rebuild = @ \ {n}, !.drain = TRUE]}
          BY <5>2 DEF Rebuild
        <5> QED BY <1>0, <1>3, <5>3
      <4>5. CASE \E n \in Notes : Write(n) \/ Enqueue(n) \/ Archive(n) \/ Hide(n)
        BY <1>3, <4>5 DEF Write, Enqueue, Archive, Hide
      <4> QED BY <4>1, <4>2, <4>3, <4>4, <4>5 DEF Next
    <3> QED BY <2>1, <2>3, <3>2, <3>4, WedgedStep DEF Served
  <2> QED BY <2>2, <2>3
<1> QED BY <1>1, <1>2, <1>3 DEF Served

-----------------------------------------------------------------------------
(* The first run.  It starts from nothing, so that its startup rebuilds    *)
(* nothing, and a note's requests come in the order of its revisions.      *)

Blank ==
  /\ made = 0
  /\ \A n \in Notes : revision[n] = 0 /\ asking[n] = <<>>

Booting == starts = 1 /\ app \in {"starting", "recovering", "collecting"}

Opening ==
  /\ starts = 0 => app = "down"
  /\ starts = 0 \/ Booting => Blank

NoRebuild == First => todo.rebuild = {} /\ ~todo.drain

\* The requests of a note rise to its present revision, and no job was made
\* for any of them yet.
Asked ==
  First => \A n \in Notes :
    /\ \A k \in 1..Len(asking[n]) : asking[n][k] <= revision[n]
    /\ \A k, m \in 1..Len(asking[n]) : k < m => asking[n][k] < asking[n][m]
    /\ n \notin archived /\ asking[n] # <<>> => asking[n][Len(asking[n])] = revision[n]
    /\ \A i \in JobsOf(n) : \A k \in 1..Len(asking[n]) : about[i].rev < asking[n][k]
    /\ \A i \in JobsOf(n) : about[i].rev <= revision[n]

\* A pending job was never begun.
PendingIsNew ==
  First => \A i \in InStatus("pending") : gen[i] = "staging" /\ i \notin saved

\* A job that was begun is in the worker's hands.
Unheld ==
  First => \A i \in Made :
    job[i] \in {"running", "qdrant_written"} /\ gen[i] = "staging" => Handled(i)

\* The worker does not fail a job that is up to date.
Working ==
  First /\ faults = 0 /\ Busy /\ TargetCurrent(worker.id) =>
    /\ worker.pc \in {"read", "save", "upsert", "mark", "verify", "check", "commit"}
    /\ gen[worker.id] = "staging"
    /\ At("read") \/ At("save") => worker.id \notin saved
    /\ At("verify") \/ At("check") \/ At("commit") => job[worker.id] = "qdrant_written"

\* The present revision of a note is shown or on its way.
Coming(i) ==
  /\ TargetCurrent(i)
  /\ \/ gen[i] = "current"
     \/ gen[i] = "staging" /\ job[i] \in {"pending", "running", "qdrant_written"}

OnItsWay ==
  First /\ faults = 0 =>
    \A n \in Notes \ archived :
      revision[n] > 0 /\ asking[n] = <<>> => \E i \in JobsOf(n) : Coming(i)

FreshInv ==
  /\ Served /\ Opening /\ NoRebuild /\ Asked
  /\ PendingIsNew /\ Unheld /\ Working /\ OnItsWay

-----------------------------------------------------------------------------
(* The startup of the first run.                                           *)

\* A program that is not up yet changes nothing the first run begins with.
LEMMA BlankStep ==
  ASSUME IInv, Next, Blank, app \notin {"up", "stopping"}
  PROVE  Blank'
<1>1. asking \in [Notes -> Seq(Nat \ {0})]
  BY DEF IInv, Requested
<1>2. CASE Work
  BY <1>2, Held DEF Work, Claim, RunDry, Read, SaveManifest, Upsert, Mark, Verify, Check,
    Commit, Clean, Interrupt, FailGeneration, CloseJob, Blank, notes, store, callers, Busy, At
<1>3. CASE Collect \/ Shutdown
  BY <1>3 DEF Collect, DeletePoints, MarkDeleted, Shutdown, Blank, notes, store, callers
<1>4. CASE Exit \/ Crash
  BY <1>4 DEF Exit, Crash, Gone, Blank, notes, store
<1>5. CASE Boot
  BY <1>5 DEF Boot, Start, ListWritten, RecoverGarbage, GoUp, RebuildDrain, BootDrain,
    RecoverJob, Rebuild, Blank, notes, store, callers
<1>6. CASE \E n \in Notes : Write(n) \/ Enqueue(n) \/ Archive(n) \/ Hide(n)
  BY <1>6 DEF Write, Enqueue, Archive, Hide, Blank, notes, store
<1> QED BY <1>2, <1>3, <1>4, <1>5, <1>6 DEF Next

\* How the program and the count of its starts move.
LEMMA StartSteps ==
  ASSUME IInv, Next
  PROVE  \/ starts' = starts + 1 /\ app = "down" /\ app' = "starting"
         \/ /\ starts' = starts
            /\ \/ app' = app
               \/ app # "down" /\ app' = "down"
               \/ app = "starting" /\ app' \in {"recovering", "refused"}
               \/ app = "recovering" /\ app' = "collecting"
               \/ GoUp
               \/ app = "up" /\ app' = "stopping"
<1>1. CASE Work
  BY <1>1 DEF Work, Claim, RunDry, Read, SaveManifest, Upsert, Mark, Verify, Check,
    Commit, Clean, Interrupt, FailGeneration, CloseJob
<1>2. CASE Collect \/ Shutdown \/ Exit \/ Crash
  BY <1>2 DEF Collect, DeletePoints, MarkDeleted, Shutdown, Exit, Crash, Gone
<1>3. CASE Boot
  BY <1>3 DEF Boot, Start, ListWritten, RecoverGarbage, GoUp, RebuildDrain, BootDrain,
    RecoverJob, Rebuild
<1>4. CASE \E n \in Notes : Write(n) \/ Enqueue(n) \/ Archive(n) \/ Hide(n)
  BY <1>4 DEF Write, Enqueue, Archive, Hide
<1> QED BY <1>1, <1>2, <1>3, <1>4 DEF Next

LEMMA OpeningStep ==
  ASSUME IInv, Opening, Next
  PROVE  Opening'
<1>1. starts \in Nat
  BY IndexAssumption DEF IndexAssumption, IInv, TypeOK
<1>2. starts' = 0 => starts = 0 /\ app' = "down"
  BY <1>1, StartSteps DEF Opening, GoUp
<1>3. Booting' => starts = 0 \/ Booting
  BY <1>1, StartSteps DEF Booting, GoUp
<1>4. starts = 0 \/ Booting => app \notin {"up", "stopping"}
  BY DEF Opening, Booting
<1> QED BY <1>2, <1>3, <1>4, BlankStep DEF Opening

\* The first run is under way, or it begins with nothing.
LEMMA FirstSteps ==
  ASSUME IInv, Opening, Next, First'
  PROVE  First \/ (GoUp /\ Blank)
<1>1. starts \in Nat
  BY IndexAssumption DEF IndexAssumption, IInv, TypeOK
<1> QED BY <1>1, StartSteps DEF First, Opening, Booting, GoUp

\* What holds of the first run when it begins.
LEMMA FirstBegins ==
  ASSUME IInv, GoUp, Blank
  PROVE  NoRebuild' /\ Asked' /\ PendingIsNew' /\ Unheld' /\ Working' /\ OnItsWay'
<1>1. /\ UNCHANGED <<revision, archived, made, about, job, gen, saved, asking, worker>>
      /\ todo' = [jobs |-> {}, rebuild |-> {n \in Notes \ archived : revision[n] > 0},
                  drain |-> FALSE, boot |-> TRUE]
  BY DEF GoUp, notes, store, callers
<1>2. Made = {} /\ ~Busy
  BY Held DEF Blank, Made, GoUp
<1>3. Made' = {} /\ ~Busy'
  BY <1>1, <1>2 DEF Made, Busy
<1>4. NoRebuild'
  <2>1. {n \in Notes \ archived : revision[n] > 0} = {}
    BY DEF Blank
  <2> QED BY <1>1, <2>1 DEF NoRebuild
<1>5. Asked'
  <2>1. \A n \in Notes : asking'[n] = <<>> /\ JobsOf(n)' = {}
    BY <1>1, <1>3 DEF Blank, JobsOf
  <2> QED BY <2>1 DEF Asked
<1>6. PendingIsNew' /\ Unheld' /\ Working'
  BY <1>3 DEF PendingIsNew, Unheld, Working, InStatus
<1>7. OnItsWay'
  BY <1>1 DEF Blank, OnItsWay
<1> QED BY <1>4, <1>5, <1>6, <1>7

-----------------------------------------------------------------------------
(* The steps of the first run.                                             *)

LEMMA NoRebuildStep ==
  ASSUME IInv, Next, First, First', NoRebuild
  PROVE  NoRebuild' /\ ~\E n \in Notes : Rebuild(n)
<1>1. todo \in [jobs : SUBSET Made, rebuild : SUBSET Notes, drain : BOOLEAN, boot : BOOLEAN]
  BY DEF IInv, TypeOK
<1>2. todo.rebuild = {} /\ ~todo.drain /\ app = "up" /\ app' = "up"
  BY DEF First, NoRebuild
<1>3. ~\E n \in Notes : Rebuild(n)
  BY <1>2 DEF Rebuild
<1>4. todo' \in {todo, [todo EXCEPT !.boot = FALSE]}
  <2>1. CASE Work
    BY <2>1 DEF Work, Claim, RunDry, Read, SaveManifest, Upsert, Mark, Verify, Check,
      Commit, Clean, Interrupt, FailGeneration, CloseJob
  <2>2. CASE Collect \/ Shutdown \/ Exit \/ Crash
    BY <1>2, <2>2 DEF Collect, DeletePoints, MarkDeleted, Shutdown, Exit, Crash, Gone
  <2>3. CASE Boot
    BY <1>2, <1>3, <2>3 DEF Boot, Start, ListWritten, RecoverGarbage, GoUp, RebuildDrain,
      BootDrain, RecoverJob
  <2>4. CASE \E n \in Notes : Write(n) \/ Enqueue(n) \/ Archive(n) \/ Hide(n)
    BY <2>4 DEF Write, Enqueue, Archive, Hide
  <2> QED BY <2>1, <2>2, <2>3, <2>4 DEF Next
<1>5. todo'.rebuild = todo.rebuild /\ todo'.drain = todo.drain
  BY <1>1, <1>4
<1> QED BY <1>2, <1>3, <1>5 DEF NoRebuild

\* An enqueue of the first run makes a job: there is none of its revision.
LEMMA EnqueueInserts ==
  ASSUME IInv, First, Asked, NEW n \in Notes, Enqueue(n)
  PROVE  /\ Insert(n, Head(asking[n]), FALSE) /\ Head(asking[n]) \in Nat
         /\ asking[n] \in Seq(Nat \ {0}) /\ asking[n] # <<>>
         /\ asking' = [asking EXCEPT ![n] = Tail(@)]
         /\ UNCHANGED <<revision, archived, worker>>
<1>1. asking[n] \in Seq(Nat \ {0}) /\ asking[n] # <<>>
  BY DEF Enqueue, IInv, Requested
<1>2. 1 \in 1..Len(asking[n]) /\ Head(asking[n]) = asking[n][1] /\ Head(asking[n]) \in Nat
  BY <1>1
<1>3. ASSUME NEW i \in JobsOf(n)
      PROVE  about[i].rev # Head(asking[n])
  <2>1. about[i].rev < Head(asking[n])
    BY <1>2, <1>3 DEF Asked
  <2>2. about[i].rev \in Nat
    BY <1>3, RowTypes DEF JobsOf
  <2> QED BY <1>2, <2>1, <2>2
<1>4. ~Replayed(n, Head(asking[n]), FALSE)
  BY <1>3 DEF Replayed
<1> QED BY <1>1, <1>2, <1>4 DEF Enqueue, EnqueueJob, notes

\* What a step of the first run does to the notes, the requests and the rows.
LEMMA FirstRows ==
  ASSUME IInv, Served, NoRebuild, Asked, Next, First, First'
  PROVE  \/ \E n \in Notes : Enqueue(n)
         \/ \E n \in Notes : Write(n)
         \/ \E n \in Notes : Archive(n)
         \/ /\ UNCHANGED <<revision, archived, asking, made, about>>
            /\ \/ Claim \/ Mark \/ FailGeneration \/ CloseJob
               \/ Commit /\ Promotes(worker.id)
               \/ UNCHANGED <<job, gen>>
<1>1. app = "up" /\ app' = "up"
  BY DEF First
<1>2. CASE Work
  <2>1. ~Interrupt
    BY <1>1 DEF Interrupt, Served, At, Busy
  <2> QED BY <1>2, <2>1 DEF Work, Claim, RunDry, Read, SaveManifest, Upsert, Mark, Verify, Check,
    Commit, Clean, FailGeneration, CloseJob, notes, store, callers
<1>3. CASE Collect \/ Shutdown \/ Exit \/ Crash
  BY <1>1, <1>3 DEF Collect, DeletePoints, MarkDeleted, Shutdown, Exit, Crash, Gone,
    notes, store, callers
<1>4. CASE Boot
  BY <1>1, <1>4, NoRebuildStep DEF Boot, Start, ListWritten, RecoverGarbage, GoUp, RebuildDrain,
    BootDrain, RecoverJob, notes, store, callers
<1>5. CASE \E n \in Notes : Hide(n)
  BY <1>5 DEF Hide, notes, store
<1> QED BY <1>2, <1>3, <1>4, <1>5 DEF Next

LEMMA AskedStep ==
  ASSUME IInv, Served, NoRebuild, Asked, Next, First, First'
  PROVE  Asked'
<1>0. /\ asking \in [Notes -> Seq(Nat \ {0})]
      /\ revision \in [Notes -> Nat]
      /\ archived \subseteq archived'
  BY NotesStep DEF IInv, TypeOK, Requested
<1> DEFINE Right(n) ==
      /\ \A k \in 1..Len(asking[n]) : asking[n][k] <= revision[n]
      /\ \A k, m \in 1..Len(asking[n]) : k < m => asking[n][k] < asking[n][m]
      /\ n \notin archived /\ asking[n] # <<>> => asking[n][Len(asking[n])] = revision[n]
      /\ \A i \in JobsOf(n) : \A k \in 1..Len(asking[n]) : about[i].rev < asking[n][k]
      /\ \A i \in JobsOf(n) : about[i].rev <= revision[n]
<1>1. \A n \in Notes : Right(n)
  BY DEF Asked
<1>2. SUFFICES ASSUME NEW n \in Notes PROVE Right(n)'
  BY DEF Asked
<1>3. \A i \in JobsOf(n) : i \in Ids /\ about[i].rev \in Nat
  BY RowTypes DEF JobsOf
<1>4. CASE UNCHANGED <<revision, asking, made, about>>
  BY <1>0, <1>1, <1>4 DEF JobsOf, Made
<1>5. ASSUME NEW m \in Notes, Write(m)
      PROVE  Right(n)'
  <2>1. /\ revision' = [revision EXCEPT ![m] = @ + 1] /\ archived' = archived
        /\ asking' = [asking EXCEPT ![m] = Append(@, revision[m] + 1)]
        /\ JobsOf(n)' = JobsOf(n) /\ about' = about
    BY <1>5 DEF Write, store, JobsOf, Made
  <2>2. CASE m # n
    BY <1>0, <1>1, <2>1, <2>2
  <2>3. CASE m = n
    <3> DEFINE s == asking[n]
               t == Append(s, revision[n] + 1)
    <3>1. /\ s \in Seq(Nat) /\ revision[n] \in Nat
          /\ asking'[n] = t /\ revision'[n] = revision[n] + 1
      BY <1>0, <2>1, <2>3
    <3>2. /\ Len(t) = Len(s) + 1 /\ Len(s) \in Nat
          /\ t[Len(s) + 1] = revision[n] + 1
          /\ \A k \in 1..Len(s) : t[k] = s[k] /\ s[k] \in Nat
      BY <3>1
    <3>3. \A k \in 1..Len(t) : k \in 1..Len(s) \/ k = Len(s) + 1
      BY <3>2
    <3>4. \A k \in 1..Len(s) : s[k] <= revision[n]
      BY <1>1
    <3>5. \A k \in 1..Len(t) : t[k] <= revision[n] + 1
      BY <3>1, <3>2, <3>3, <3>4
    <3>6. ASSUME NEW k \in 1..Len(t), NEW l \in 1..Len(t), k < l
          PROVE  t[k] < t[l]
      <4>1. k \in 1..Len(s)
        BY <3>2, <3>6
      <4>2. CASE l \in 1..Len(s)
        BY <1>1, <3>2, <3>6, <4>1, <4>2
      <4>3. CASE l = Len(s) + 1
        BY <3>1, <3>2, <3>4, <4>1, <4>3
      <4> QED BY <3>3, <4>2, <4>3
    <3>7. ASSUME NEW i \in JobsOf(n), NEW k \in 1..Len(t)
          PROVE  about[i].rev < t[k]
      <4>1. about[i].rev \in Nat /\ about[i].rev <= revision[n]
        BY <1>1, <1>3
      <4>2. CASE k \in 1..Len(s)
        BY <1>1, <3>2, <4>2
      <4>3. CASE k = Len(s) + 1
        BY <3>1, <3>2, <4>1, <4>3
      <4> QED BY <3>3, <4>2, <4>3
    <3>8. \A i \in JobsOf(n) : about[i].rev <= revision[n] + 1
      BY <1>1, <1>3, <3>1
    <3> HIDE DEF t
    <3> QED BY <2>1, <3>1, <3>2, <3>5, <3>6, <3>7, <3>8
  <2> QED BY <2>2, <2>3
<1>6. ASSUME NEW m \in Notes, Archive(m)
      PROVE  Right(n)'
  <2>1. /\ revision' = [revision EXCEPT ![m] = @ + 1] /\ archived' = archived \cup {m}
        /\ asking' = asking /\ JobsOf(n)' = JobsOf(n) /\ about' = about
    BY <1>6 DEF Archive, JobsOf, Made
  <2>2. CASE m # n
    BY <1>0, <1>1, <2>1, <2>2
  <2>3. CASE m = n
    <3>1. revision'[n] = revision[n] + 1 /\ revision[n] \in Nat /\ n \in archived'
      BY <1>0, <2>1, <2>3
    <3>2. \A k \in 1..Len(asking[n]) : asking[n][k] \in Nat
      BY <1>0
    <3> QED BY <1>1, <1>3, <2>1, <3>1, <3>2
  <2> QED BY <2>2, <2>3
<1>7. ASSUME NEW m \in Notes, Enqueue(m)
      PROVE  Right(n)'
  <2> DEFINE new == made + 1
             r == Head(asking[m])
  <2>1. /\ Insert(m, r, FALSE) /\ asking[m] \in Seq(Nat \ {0}) /\ asking[m] # <<>>
        /\ asking' = [asking EXCEPT ![m] = Tail(@)]
        /\ UNCHANGED <<revision, archived>>
    BY <1>7, EnqueueInserts
  <2>2. /\ new \in Ids /\ new \notin Made /\ made' = new
        /\ about' = [about EXCEPT ![new] = [note |-> m, rev |-> r, startup |-> FALSE]]
    BY <2>1, RowTypes, IndexAssumption DEF Insert, IndexAssumption, Ids, Made
  <2>3. r = asking[m][1] /\ r \in Nat
    BY <2>1
  <2>4. ASSUME NEW i \in JobsOf(n)'
        PROVE  \/ i \in JobsOf(n) /\ about'[i].rev = about[i].rev
               \/ i = new /\ n = m /\ about'[i].rev = r
    <3>1. i \in 1..(made + 1) /\ about'[i].note = n
      BY <2>2, <2>4 DEF JobsOf, Made
    <3>2. CASE i = new
      BY <2>2, <3>1, <3>2, RowTypes
    <3>3. CASE i # new
      <4>1. i \in Made
        BY <3>1, <3>3, RowTypes DEF Made
      <4> QED BY <2>2, <3>1, <3>3, <4>1, RowTypes DEF JobsOf
    <3> QED BY <3>2, <3>3
  <2>5. CASE m # n
    <3>1. asking'[n] = asking[n] /\ revision'[n] = revision[n]
      BY <1>0, <2>1, <2>5
    <3> QED BY <1>1, <2>1, <2>4, <2>5, <3>1
  <2>6. CASE m = n
    <3> DEFINE s == asking[n]
               t == Tail(s)
    <3>1. /\ asking'[n] = t /\ revision'[n] = revision[n]
          /\ s \in Seq(Nat) /\ s # <<>>
      BY <1>0, <2>1, <2>6
    <3>2. /\ Len(s) \in Nat /\ Len(s) > 0 /\ Len(t) = Len(s) - 1
          /\ \A k \in 1..Len(t) : t[k] = s[k + 1] /\ k + 1 \in 1..Len(s) /\ s[k + 1] \in Nat
      BY <3>1
    <3>3. \A k \in 1..Len(t) : t[k] <= revision[n]
      BY <1>1, <3>2
    <3>4. \A k, l \in 1..Len(t) : k < l => t[k] < t[l]
      BY <1>1, <3>2
    <3>5. n \notin archived /\ t # <<>> => t[Len(t)] = revision[n]
      <4>1. t # <<>> => Len(t) \in 1..Len(t)
        BY <3>1, <3>2
      <4>2. t # <<>> => t[Len(t)] = s[Len(s)]
        BY <3>2, <4>1
      <4> QED BY <1>1, <3>1, <4>2
    <3>6. \A k \in 1..Len(t) : r < t[k]
      BY <1>1, <2>3, <2>6, <3>2
    <3>7. r <= revision[n]
      BY <1>1, <2>3, <2>6, <3>2
    <3>8. \A i \in JobsOf(n) : \A k \in 1..Len(t) : about[i].rev < t[k]
      BY <1>1, <3>2
    <3> HIDE DEF t, r
    <3> QED BY <1>1, <2>1, <2>4, <3>1, <3>3, <3>4, <3>5, <3>6, <3>7, <3>8
  <2> QED BY <2>5, <2>6
<1> QED BY <1>4, <1>5, <1>6, <1>7, FirstRows

\* What an insert does to the rows that were there.
LEMMA InsertedRows ==
  ASSUME IInv, NEW m \in Notes, NEW r \in Nat, NEW s \in BOOLEAN, Insert(m, r, s)
  PROVE  LET new == made + 1
         IN  /\ new \in Ids /\ new \notin Made /\ Made' = Made \cup {new}
             /\ about'[new] = [note |-> m, rev |-> r, startup |-> s]
             /\ job'[new] = "pending" /\ gen'[new] = "staging"
             /\ \A i \in Made :
                  /\ about'[i] = about[i]
                  /\ UNCHANGED <<job[i], gen[i]>> \/ (i \in Pending(m) /\ job'[i] = "cancelled")
             /\ UNCHANGED saved
<1> DEFINE new == made + 1
<1>1. /\ new \in Ids /\ made' = new /\ UNCHANGED saved
      /\ about' = [about EXCEPT ![new] = [note |-> m, rev |-> r, startup |-> s]]
      /\ job' = [i \in Ids |-> IF i = new THEN "pending"
                               ELSE IF i \in Pending(m) THEN "cancelled" ELSE job[i]]
      /\ gen' = [i \in Ids |-> IF i = new THEN "staging"
                               ELSE IF i \in Pending(m) THEN "failed" ELSE gen[i]]
  BY RowTypes, IndexAssumption DEF Insert, Superseded, IndexAssumption, Ids
<1>2. new \notin Made /\ Made' = Made \cup {new}
  <2>1. made \in Nat /\ made' = made + 1
    BY <1>1, RowTypes
  <2>2. 1..(made + 1) = (1..made) \cup {made + 1}
    BY <2>1
  <2> QED BY <2>1, <2>2 DEF Made
<1>3. \A i \in Made : i \in Ids /\ i # new
  BY <1>2, RowTypes
<1> QED BY <1>1, <1>2, <1>3, RowTypes

\* What an archive does to the rows of the notes.
LEMMA ArchivedRows ==
  ASSUME IInv, NEW m \in Notes, Archive(m)
  PROVE  /\ UNCHANGED <<made, about, saved, asking>>
         /\ \A i \in Made : \/ UNCHANGED <<job[i], gen[i]>>
                            \/ about[i].note = m /\ job'[i] # "pending"
                            \/ about[i].note = m /\ job'[i] = job[i] /\ job[i] # "pending"
         /\ m \in archived' /\ revision' = [revision EXCEPT ![m] = @ + 1]
BY RowTypes DEF Archive, Pending, JobsOf

\* The manifest of a generation is saved by the worker.
LEMMA SavedSteps ==
  ASSUME IInv, Next
  PROVE  saved' = saved \/ (SaveManifest /\ saved' = saved \cup {worker.id})
<1>1. CASE Work
  BY <1>1 DEF Work, Claim, RunDry, Read, SaveManifest, Upsert, Mark, Verify, Check,
    Commit, Clean, Interrupt, FailGeneration, CloseJob, store
<1>2. CASE Collect \/ Shutdown \/ Exit \/ Crash
  BY <1>2 DEF Collect, DeletePoints, MarkDeleted, Shutdown, Exit, Crash, Gone, store
<1>3. CASE Boot
  BY <1>3 DEF Boot, Start, ListWritten, RecoverGarbage, GoUp, RebuildDrain, BootDrain,
    RecoverJob, Rebuild, EnqueueJob, Insert, store
<1>4. CASE \E n \in Notes : Write(n) \/ Enqueue(n) \/ Archive(n) \/ Hide(n)
  BY <1>4 DEF Write, Enqueue, Archive, Hide, EnqueueJob, Insert, store
<1> QED BY <1>1, <1>2, <1>3, <1>4 DEF Next

\* The rows when the worker moves its own.
LEMMA WorkedRows ==
  ASSUME IInv, \/ Mark \/ FailGeneration \/ CloseJob
               \/ Commit /\ Promotes(worker.id)
  PROVE  /\ Busy /\ worker.id \in Made
         /\ job'[worker.id] \in {"running", "qdrant_written", "failed", "completed"}
         /\ \A i \in Made \ {worker.id} :
              /\ job'[i] = job[i]
              /\ gen'[i] = gen[i] \/ (gen[i] = "current" /\ gen'[i] = "retired")
<1>1. /\ Busy
      /\ \E x \in {"qdrant_written", "failed", "completed"} :
           job' \in {job, [job EXCEPT ![worker.id] = x]}
      /\ gen' \in {gen, [gen EXCEPT ![worker.id] = "failed"], Promoted(worker.id)}
  BY DEF Mark, FailGeneration, CloseJob, Commit, Busy, At
<1> QED BY <1>1, Held, RowTypes DEF Promoted

LEMMA PendingStep ==
  ASSUME IInv, Served, NoRebuild, Asked, PendingIsNew, Next, First, First'
  PROVE  PendingIsNew'
<1>1. SUFFICES ASSUME NEW i \in Made', job'[i] = "pending"
               PROVE  gen'[i] = "staging" /\ i \notin saved'
  BY DEF PendingIsNew, InStatus
<1>2. \A k \in Made : job[k] = "pending" => gen[k] = "staging" /\ k \notin saved
  BY DEF PendingIsNew, InStatus
<1>3. ASSUME i \in Made, job[i] = "pending"
      PROVE  i \notin saved'
  <2>1. SaveManifest => job[worker.id] # "pending"
    BY Held DEF SaveManifest, At, Busy
  <2> QED BY <1>2, <1>3, <2>1, SavedSteps
<1>4. ASSUME NEW m \in Notes, Enqueue(m)
      PROVE  gen'[i] = "staging" /\ i \notin saved'
  <2>1. Insert(m, Head(asking[m]), FALSE) /\ Head(asking[m]) \in Nat
    BY <1>4, EnqueueInserts
  <2>2. CASE i = made + 1
    <3>1. gen'[i] = "staging" /\ i \notin Made /\ saved' = saved
      BY <2>1, <2>2, InsertedRows
    <3> QED BY <3>1 DEF IInv, TypeOK
  <2>3. CASE i # made + 1
    <3>1. i \in Made /\ UNCHANGED <<job[i], gen[i]>>
      BY <1>1, <2>1, <2>3, InsertedRows
    <3> QED BY <1>1, <1>2, <1>3, <3>1
  <2> QED BY <2>2, <2>3
<1>5. ASSUME NEW m \in Notes, Write(m)
      PROVE  gen'[i] = "staging" /\ i \notin saved'
  BY <1>1, <1>2, <1>5 DEF Write, store, Made
<1>6. ASSUME NEW m \in Notes, Archive(m)
      PROVE  gen'[i] = "staging" /\ i \notin saved'
  <2>1. i \in Made /\ UNCHANGED <<job[i], gen[i]>>
    BY <1>1, <1>6, ArchivedRows DEF Made
  <2> QED BY <1>1, <1>2, <1>3, <2>1
<1>7. CASE UNCHANGED <<made, job, gen>>
  BY <1>1, <1>2, <1>3, <1>7 DEF Made
<1>8. CASE Claim
  <2>1. i \in Made /\ gen' = gen /\ job[i] = "pending"
    BY <1>1, <1>8, RowTypes DEF Claim, Made
  <2> QED BY <1>2, <1>3, <2>1
<1>9. CASE made' = made /\ \/ Mark \/ FailGeneration \/ CloseJob
                           \/ Commit /\ Promotes(worker.id)
  <2>1. i \in Made /\ i # worker.id /\ job[i] = "pending"
    BY <1>1, <1>9, WorkedRows DEF Made
  <2>2. gen'[i] = gen[i]
    BY <1>2, <1>9, <2>1, WorkedRows
  <2> QED BY <1>2, <1>3, <2>1, <2>2
<1> QED BY <1>4, <1>5, <1>6, <1>7, <1>8, <1>9, FirstRows

\* The worker gives up a job it has ended, or that made it throw.
LEMMA ReleaseSteps ==
  ASSUME IInv, Served, Next, First, First', NEW i \in Made, Handled(i)
  PROVE  \/ Handled(i)'
         \/ job'[i] \in {"completed", "failed"}
         \/ gen'[i] # "staging"
<1>1. Busy /\ worker.id = i /\ app = "up" /\ app' = "up" /\ i \in Ids
  BY Held DEF Handled, First
<1>2. worker \in [pc : Steps, id : 0..MaxJobs, started : BOOLEAN, aborted : BOOLEAN]
  BY DEF IInv, TypeOK
<1>3. CASE Work
  <2>1. ~Interrupt /\ ~Claim /\ ~RunDry
    BY <1>1 DEF Interrupt, Claim, RunDry, Served
  <2>2. CASE Read \/ SaveManifest \/ Upsert \/ Mark \/ Verify \/ Check \/ Clean
    <3>1. worker'.id = i /\ worker'.pc # "idle"
      BY <1>1, <1>2, <2>2 DEF Read, SaveManifest, Upsert, Mark, Verify, Check, Clean, Go, Fail
    <3> QED BY <3>1 DEF Handled, Busy
  <2>3. CASE Commit
    <3>1. CASE Promotes(worker.id)
      BY <1>1, <2>3, <3>1, RowTypes DEF Commit
    <3>2. CASE ~Promotes(worker.id)
      <4>1. worker'.id = i /\ worker'.pc # "idle"
        BY <1>1, <1>2, <2>3, <3>2 DEF Commit, Go, Fail
      <4> QED BY <4>1 DEF Handled, Busy
    <3> QED BY <3>1, <3>2
  <2>4. CASE FailGeneration
    BY <1>1, <2>4, RowTypes DEF FailGeneration
  <2>5. CASE CloseJob
    BY <1>1, <2>5, RowTypes DEF CloseJob
  <2> QED BY <1>3, <2>1, <2>2, <2>3, <2>4, <2>5 DEF Work
<1>4. CASE worker' = worker
  BY <1>1, <1>4 DEF Handled, Busy
<1>5. CASE Collect \/ Boot \/ \E n \in Notes : Write(n) \/ Enqueue(n) \/ Archive(n) \/ Hide(n)
  <2>1. worker' = worker
    BY <1>5 DEF Collect, DeletePoints, MarkDeleted, Boot, Start, ListWritten, RecoverGarbage,
      GoUp, RebuildDrain, BootDrain, RecoverJob, Rebuild, Write, Enqueue, Archive, Hide
  <2> QED BY <1>4, <2>1
<1>6. ~Shutdown /\ ~Exit /\ ~Crash
  BY <1>1 DEF Shutdown, Exit, Crash, Gone
<1> QED BY <1>3, <1>5, <1>6 DEF Next

LEMMA UnheldStep ==
  ASSUME IInv, Served, NoRebuild, Asked, Unheld, Next, First, First'
  PROVE  Unheld'
<1>1. SUFFICES ASSUME NEW i \in Made', job'[i] \in {"running", "qdrant_written"},
                      gen'[i] = "staging"
               PROVE  Handled(i)'
  BY DEF Unheld
<1>2. ASSUME i \in Made, job[i] \in {"running", "qdrant_written"}, gen[i] = "staging"
      PROVE  Handled(i)'
  <2>1. Handled(i)
    BY <1>2 DEF Unheld
  <2> QED BY <1>1, <1>2, <2>1, ReleaseSteps
<1>3. ASSUME NEW m \in Notes, Enqueue(m)
      PROVE  Handled(i)'
  <2>1. Insert(m, Head(asking[m]), FALSE) /\ Head(asking[m]) \in Nat
    BY <1>3, EnqueueInserts
  <2>2. i \in Made /\ UNCHANGED <<job[i], gen[i]>>
    BY <1>1, <2>1, InsertedRows
  <2> QED BY <1>1, <1>2, <2>2
<1>4. ASSUME NEW m \in Notes, Write(m)
      PROVE  Handled(i)'
  BY <1>1, <1>2, <1>4 DEF Write, store, Made
<1>5. ASSUME NEW m \in Notes, Archive(m)
      PROVE  Handled(i)'
  <2>1. i \in Made /\ i \in Ids /\ job[i] = job'[i] /\ gen[i] = "staging"
    BY <1>1, <1>5, RowTypes DEF Archive, Made
  <2> QED BY <1>1, <1>2, <2>1
<1>6. CASE UNCHANGED <<made, job, gen>>
  BY <1>1, <1>2, <1>6 DEF Made
<1>7. CASE Claim
  <2>1. PICK k \in Claimable : /\ job' = [job EXCEPT ![k] = "running"]
                               /\ worker' = [Idle EXCEPT !.pc = "read", !.id = k]
    BY <1>7 DEF Claim
  <2>2. UNCHANGED <<made, gen>>
    BY <1>7 DEF Claim
  <2>3. CASE i = k
    BY <2>1, <2>3 DEF Handled, Busy, Idle
  <2>4. CASE i # k
    BY <1>1, <1>2, <2>1, <2>2, <2>4, RowTypes DEF Made
  <2> QED BY <2>3, <2>4
<1>8. CASE made' = made /\ \/ Mark \/ FailGeneration \/ CloseJob
                           \/ Commit /\ Promotes(worker.id)
  <2>1. i \in Made /\ worker.id \in Made /\ Busy
    BY <1>1, <1>8, WorkedRows DEF Made
  <2>2. CASE i = worker.id
    BY <1>1, <2>1, <2>2, ReleaseSteps DEF Handled
  <2>3. CASE i # worker.id
    BY <1>1, <1>2, <1>8, <2>1, <2>3, WorkedRows
  <2> QED BY <2>2, <2>3
<1> QED BY <1>3, <1>4, <1>5, <1>6, <1>7, <1>8, FirstRows

\* A job that is up to date after a step was so before it.
LEMMA TargetSteps ==
  ASSUME IInv, Next, First, Asked, NEW i \in Made, TargetCurrent(i)'
  PROVE  TargetCurrent(i) /\ about[i].note \notin archived'
<1>1. about'[i] = about[i]
  BY AboutStep
<1>2. /\ about[i].note \in Notes /\ about[i].rev \in Nat
      /\ i \in Ids /\ i \in JobsOf(about[i].note)
  BY RowTypes DEF IInv, Numbered, JobsOf
<1>3. /\ about[i].rev <= revision[about[i].note]
      /\ revision[about[i].note] <= revision'[about[i].note]
      /\ revision[about[i].note] \in Nat /\ revision'[about[i].note] \in Nat
      /\ archived \subseteq archived'
  BY <1>2, NotesStep DEF Asked, IInv, TypeOK
<1>4. about[i].rev = revision'[about[i].note] /\ about[i].note \notin archived'
  BY <1>1 DEF TargetCurrent
<1> QED BY <1>2, <1>3, <1>4 DEF TargetCurrent

\* Failed calls are counted.
LEMMA FaultSteps ==
  ASSUME IInv, Next, faults' = 0
  PROVE  faults = 0
<1>1. faults \in Nat
  BY IndexAssumption DEF IndexAssumption, IInv, TypeOK
<1>2. faults' = faults \/ faults' = faults + 1
  <2>1. CASE Work
    BY <2>1 DEF Work, Claim, RunDry, Read, SaveManifest, Upsert, Mark, Verify, Check,
      Commit, Clean, Interrupt, FailGeneration, CloseJob, Breaks
  <2>2. CASE Collect \/ Shutdown \/ Exit \/ Crash
    BY <2>2 DEF Collect, DeletePoints, MarkDeleted, Shutdown, Exit, Crash, Gone
  <2>3. CASE Boot
    BY <2>3 DEF Boot, Start, ListWritten, RecoverGarbage, GoUp, RebuildDrain, BootDrain,
      RecoverJob, Rebuild
  <2>4. CASE \E n \in Notes : Write(n) \/ Enqueue(n) \/ Archive(n) \/ Hide(n)
    BY <2>4 DEF Write, Enqueue, Archive, Hide
  <2> QED BY <2>1, <2>2, <2>3, <2>4 DEF Next
<1> QED BY <1>1, <1>2

\* What the worker may be at with a job that is up to date.
Sane(w) ==
  /\ worker.pc \in {"read", "save", "upsert", "mark", "verify", "check", "commit"}
  /\ gen[w] = "staging"
  /\ At("read") \/ At("save") => w \notin saved
  /\ At("verify") \/ At("check") \/ At("commit") => job[w] = "qdrant_written"

LEMMA WorkingStep ==
  ASSUME IInv, FreshInv, Next, First, First'
  PROVE  Working'
<1> SUFFICES ASSUME faults' = 0, Busy', TargetCurrent(worker.id)'
             PROVE  Sane(worker.id)'
  BY DEF Working, Sane, At
<1>0. PICK w : w = worker.id
  OBVIOUS
<1>1. worker \in [pc : Steps, id : 0..MaxJobs, started : BOOLEAN, aborted : BOOLEAN]
  BY DEF IInv, TypeOK
<1>2. faults = 0 /\ app = "up"
  BY FaultSteps DEF First
<1>3. CASE Claim
  <2>1. PICK i \in Claimable : worker' = [Idle EXCEPT !.pc = "read", !.id = i]
    BY <1>3 DEF Claim
  <2>2. worker'.pc = "read" /\ worker'.id = i /\ UNCHANGED <<gen, saved>>
    BY <1>3, <2>1 DEF Claim, Idle
  <2>3. gen[i] = "staging" /\ i \notin saved
    BY <2>1 DEF FreshInv, PendingIsNew, Claimable
  <2> QED BY <2>2, <2>3 DEF Sane, At
<1>4. CASE ~Claim
  <2>1. Busy /\ worker'.id = w /\ ~worker.aborted
    BY <1>0, <1>2, <1>4, HandSteps DEF FreshInv, Served
  <2>2. w \in Made /\ w \in Ids /\ job[w] \in {"running", "qdrant_written"}
    BY <1>0, <2>1, Held
  <2>3. TargetCurrent(w)'
    BY <2>1 DEF TargetCurrent
  <2>4. TargetCurrent(w) /\ about[w].note \notin archived'
    BY <2>2, <2>3, TargetSteps DEF FreshInv
  <2>5. Sane(w)
    BY <1>0, <1>2, <2>1, <2>4 DEF FreshInv, Working, Sane
  <2>6. ~Breaks
    <3>1. faults' # faults + 1
      BY <1>2
    <3> QED BY <2>1, <3>1 DEF Breaks
  <2>7. CASE Read \/ SaveManifest \/ Upsert \/ Verify \/ Check
    <3>1. UNCHANGED <<job, gen>>
      BY <2>7 DEF Read, SaveManifest, Upsert, Verify, Check, store
    <3>2. At("verify") => points[w] = "full"
      BY <1>0, <2>1, <2>5 DEF IInv, WorkerHolds, Sane, At
    <3>3. \/ At("read") /\ worker'.pc = "save" /\ saved' = saved
          \/ At("save") /\ worker'.pc = "upsert"
          \/ At("upsert") /\ worker'.pc = "mark"
          \/ At("verify") /\ worker'.pc = "check"
          \/ At("check") /\ worker'.pc = "commit"
      BY <1>0, <1>1, <2>4, <2>5, <2>6, <2>7, <3>2 DEF Read, SaveManifest, Upsert, Verify, Check, Sane,
        At, Go, store
    <3> QED BY <2>1, <2>5, <3>1, <3>3 DEF Sane, At
  <2>8. CASE Mark
    <3>1. /\ worker'.pc = "verify" /\ gen' = gen
          /\ job'[w] = "qdrant_written"
      BY <1>0, <1>1, <2>2, <2>8, RowTypes DEF Mark, Go
    <3> QED BY <2>1, <2>5, <3>1 DEF Sane, At
  <2>9. ~(Commit /\ ~Promotes(w)) /\ ~Clean /\ ~FailGeneration
    BY <1>0, <2>4, <2>5 DEF Commit, Promotes, Clean, FailGeneration, Sane, At
  <2>10. CASE /\ worker'.pc = worker.pc /\ worker'.id = worker.id
              /\ ~(Read \/ SaveManifest \/ Upsert \/ Verify \/ Check \/ Mark)
    <3>1. saved' = saved
      BY <2>10, SavedSteps
    <3>2. ~Start /\ ~RecoverJob(w)
      BY <1>2 DEF Start, RecoverJob
    <3>3. ~Interrupt /\ ~CloseJob /\ ~(Commit /\ Promotes(w))
      BY <1>0, <2>1, <2>10 DEF Interrupt, CloseJob, Commit, Idle, Busy
    <3>4. UNCHANGED <<job[w], gen[w]>>
      <4>1. ASSUME NEW m \in Notes, Archive(m)
            PROVE  UNCHANGED <<job[w], gen[w]>>
        <5>1. about[w].note # m
          BY <2>4, <4>1 DEF Archive
        <5> QED BY <2>2, <4>1, <5>1, ArchivedRows
      <4> QED BY <1>0, <2>2, <2>9, <2>10, <3>2, <3>3, <4>1, OthersJobs
    <3> QED BY <1>0, <2>5, <2>10, <3>1, <3>4 DEF Sane, At
  <2> QED BY <1>0, <1>4, <2>7, <2>8, <2>9, <2>10, WorkerSteps
<1> QED BY <1>3, <1>4

LEMMA OnItsWayStep ==
  ASSUME IInv, FreshInv, Next, First, First'
  PROVE  OnItsWay'
<1> SUFFICES ASSUME faults' = 0, NEW n \in Notes \ archived',
                    revision'[n] > 0, asking'[n] = <<>>
             PROVE  \E i \in JobsOf(n)' : Coming(i)'
  BY DEF OnItsWay
<1>0. /\ faults = 0 /\ n \notin archived
      /\ asking \in [Notes -> Seq(Nat \ {0})] /\ revision \in [Notes -> Nat]
  BY FaultSteps, NotesStep DEF IInv, TypeOK, Requested
<1>1. ASSUME revision'[n] = revision[n], asking'[n] = asking[n]
      PROVE  \E i \in JobsOf(n) : Coming(i)
  BY <1>0, <1>1 DEF FreshInv, OnItsWay
<1>2. ASSUME NEW i \in JobsOf(n), Coming(i), revision'[n] = revision[n],
             gen'[i] = gen[i],
             job'[i] = job[i] \/ job'[i] \in {"running", "qdrant_written"}
      PROVE  \E k \in JobsOf(n)' : Coming(k)'
  <2>1. i \in Made /\ about[i].note = n
    BY <1>2 DEF JobsOf
  <2>2. about'[i] = about[i] /\ i \in Made'
    BY <2>1, AboutStep
  <2>3. TargetCurrent(i)' /\ i \in JobsOf(n)'
    BY <1>2, <2>1, <2>2 DEF TargetCurrent, Coming, JobsOf
  <2> QED BY <1>2, <2>3 DEF Coming
<1>3. ASSUME NEW m \in Notes, Write(m)
      PROVE  \E i \in JobsOf(n)' : Coming(i)'
  <2>1. m # n
    <3>1. SUFFICES ASSUME m = n PROVE FALSE
      OBVIOUS
    <3>2. asking'[n] = Append(asking[n], revision[n] + 1)
      BY <1>0, <1>3, <3>1 DEF Write
    <3> QED BY <1>0, <3>2
  <2>2. revision'[n] = revision[n] /\ asking'[n] = asking[n] /\ UNCHANGED <<job, gen>>
    BY <1>0, <1>3, <2>1 DEF Write, store
  <2> QED BY <1>1, <1>2, <2>2
<1>4. ASSUME NEW m \in Notes, Archive(m)
      PROVE  \E i \in JobsOf(n)' : Coming(i)'
  <2>1. m # n /\ revision'[n] = revision[n] /\ asking'[n] = asking[n]
    BY <1>0, <1>4, ArchivedRows
  <2>2. \A i \in JobsOf(n) : UNCHANGED <<job[i], gen[i]>>
    BY <1>4, <2>1, ArchivedRows DEF JobsOf
  <2> QED BY <1>1, <1>2, <2>1, <2>2
<1>5. ASSUME NEW m \in Notes, Enqueue(m)
      PROVE  \E i \in JobsOf(n)' : Coming(i)'
  <2> DEFINE r == Head(asking[m])
  <2>0. PICK new : new = made + 1
    OBVIOUS
  <2>1. /\ Insert(m, r, FALSE) /\ r \in Nat
        /\ asking[m] \in Seq(Nat \ {0}) /\ asking[m] # <<>>
        /\ asking' = [asking EXCEPT ![m] = Tail(@)] /\ UNCHANGED <<revision, archived>>
    BY <1>5, EnqueueInserts DEF FreshInv
  <2>2. CASE m # n
    <3>1. revision'[n] = revision[n] /\ asking'[n] = asking[n]
      BY <1>0, <2>1, <2>2
    <3>2. \A i \in JobsOf(n) : UNCHANGED <<job[i], gen[i]>>
      <4>1. \A i \in Made : UNCHANGED <<job[i], gen[i]>> \/ i \in Pending(m)
        BY <2>1, FALSE \in BOOLEAN, InsertedRows
      <4>2. \A i \in JobsOf(n) : i \in Made /\ i \notin Pending(m)
        BY <2>2 DEF JobsOf, Pending
      <4> QED BY <4>1, <4>2
    <3> QED BY <1>1, <1>2, <3>1, <3>2
  <2>3. CASE m = n
    <3>1. Len(asking[n]) = 1
      <4>1. Tail(asking[n]) = <<>>
        BY <1>0, <2>1, <2>3
      <4>2. Len(Tail(asking[n])) = Len(asking[n]) - 1 /\ Len(asking[n]) \in Nat
        BY <2>1, <2>3
      <4>3. Len(Tail(asking[n])) = 0
        <5>1. \A t : t = <<>> => Len(t) = 0
          OBVIOUS
        <5> QED BY <4>1, <5>1
      <4> QED BY <4>2, <4>3
    <3>2. r = revision[n]
      <4>1. asking[n][Len(asking[n])] = revision[n]
        BY <1>0, <2>1, <2>3 DEF FreshInv, Asked
      <4>2. r = asking[n][1]
        BY <2>1, <2>3
      <4> QED BY <3>1, <4>1, <4>2
    <3>3. /\ new \in Made' /\ about'[new] = [note |-> n, rev |-> r, startup |-> FALSE]
          /\ job'[new] = "pending" /\ gen'[new] = "staging"
      BY <2>0, <2>1, <2>3, InsertedRows
    <3>4. TargetCurrent(new)' /\ new \in JobsOf(n)'
      BY <1>0, <2>1, <3>2, <3>3 DEF TargetCurrent, JobsOf
    <3> QED BY <3>3, <3>4 DEF Coming
  <2> QED BY <2>2, <2>3
<1>6. CASE UNCHANGED <<revision, asking, job, gen>>
  BY <1>1, <1>2, <1>6
<1>7. CASE UNCHANGED <<revision, asking>> /\ Claim
  <2>1. \A i \in JobsOf(n) : gen'[i] = gen[i] /\ (job'[i] = job[i] \/ job'[i] = "running")
    BY <1>7, RowTypes DEF Claim, JobsOf
  <2> QED BY <1>1, <1>2, <1>7, <2>1
<1>8. CASE /\ UNCHANGED <<revision, archived, asking, made, about>>
           /\ \/ Mark \/ FailGeneration \/ CloseJob
              \/ Commit /\ Promotes(worker.id)
  <2>1. PICK i \in JobsOf(n) : Coming(i)
    BY <1>1, <1>8
  <2>2. i \in Made /\ i \in Ids /\ about[i].note = n
    BY <2>1, RowTypes DEF JobsOf
  <2>3. Busy /\ worker.id \in Made /\ worker.id \in Ids
    BY <1>8, WorkedRows, RowTypes
  <2>4. CASE Commit /\ Promotes(worker.id) /\ about[worker.id].note = n
    <3>0. PICK w \in Made : w = worker.id
      BY <2>3
    <3>1. gen'[w] = "current"
      BY <2>3, <2>4, <3>0 DEF Commit, Promoted
    <3>2. TargetCurrent(w)' /\ w \in JobsOf(n)'
      BY <1>8, <2>4, <3>0 DEF Promotes, TargetCurrent, JobsOf, Made
    <3> QED BY <3>1, <3>2 DEF Coming
  <2>5. CASE Commit /\ Promotes(worker.id) /\ about[worker.id].note # n
    <3>1. i # worker.id
      BY <2>2, <2>5
    <3>2. job'[i] = job[i] /\ gen'[i] = gen[i]
      BY <2>2, <2>3, <2>5, <3>1, RowTypes DEF Commit, Promoted, JobsOf
    <3> QED BY <1>2, <1>8, <2>1, <3>2
  <2>6. CASE Mark \/ FailGeneration \/ CloseJob
    <3>1. CASE i # worker.id
      <4>1. job'[i] = job[i] /\ gen'[i] = gen[i]
        BY <2>2, <2>3, <2>6, <3>1, RowTypes DEF Mark, FailGeneration, CloseJob
      <4> QED BY <1>2, <1>8, <2>1, <4>1
    <3>2. CASE i = worker.id
      <4>1. At("mend") \/ At("close") => FALSE
        BY <1>0, <2>1, <2>3, <3>2 DEF FreshInv, Working, Coming, At
      <4>2. Mark
        BY <2>6, <4>1 DEF FailGeneration, CloseJob
      <4>3. gen'[i] = gen[i] /\ job'[i] = "qdrant_written"
        BY <2>2, <3>2, <4>2, RowTypes DEF Mark
      <4> QED BY <1>2, <1>8, <2>1, <4>3
    <3> QED BY <3>1, <3>2
  <2> QED BY <1>8, <2>4, <2>5, <2>6
<1> QED BY <1>3, <1>4, <1>5, <1>6, <1>7, <1>8, FirstRows DEF FreshInv

-----------------------------------------------------------------------------
(* Together.                                                               *)

LEMMA FreshStep ==
  ASSUME IInv, FreshInv, Next
  PROVE  FreshInv'
<1>1. Served' /\ Opening'
  BY ServedStep, OpeningStep DEF FreshInv
<1>2. CASE ~First'
  BY <1>1, <1>2 DEF FreshInv, NoRebuild, Asked, PendingIsNew, Unheld, Working, OnItsWay
<1>3. CASE GoUp /\ Blank
  BY <1>1, <1>3, FirstBegins DEF FreshInv
<1>4. CASE First /\ First'
  BY <1>1, <1>4, NoRebuildStep, AskedStep, PendingStep, UnheldStep, WorkingStep, OnItsWayStep
    DEF FreshInv
<1> QED BY <1>2, <1>3, <1>4, FirstSteps DEF FreshInv

LEMMA FreshBegins == Init => FreshInv
BY DEF Init, FreshInv, Served, Opening, Blank, Booting, NoRebuild, Asked, PendingIsNew,
  Unheld, Working, OnItsWay, First, Busy, Idle

LEMMA FreshStays == Spec => []FreshInv
<1>1. IInv /\ FreshInv /\ [Next]_vars => FreshInv'
  <2>1. CASE UNCHANGED vars
    BY <2>1 DEF vars, notes, store, callers, FreshInv, Served, Opening, Blank, Booting, NoRebuild,
      Asked, PendingIsNew, Unheld, Working, OnItsWay, First, Busy, At, Wedged, Handled, Made,
      InStatus, JobsOf, TargetCurrent, Coming
  <2> QED BY <2>1, FreshStep
<1> QED BY <1>1, FreshBegins, Sound, PTL DEF Spec

(* In a first run without failed calls, whatever edits, enqueues, archives *)
(* and collections came in between, the index shows the present revision   *)
(* of every note once the loops have returned, unless a job whose note was *)
(* archived made one throw.                                                *)
THEOREM FirstRunEndsFresh == Spec => []FreshWhenQuiet
<1>1. ASSUME IInv, FreshInv
      PROVE  FreshWhenQuiet
  <2> SUFFICES ASSUME Quiet, faults = 0, starts = 1, ~Stuck,
                      NEW n \in Notes \ archived, revision[n] > 0
               PROVE  \E i \in Current(n) : about[i].rev = revision[n]
    BY DEF FreshWhenQuiet
  <2>1. First /\ asking[n] = <<>> /\ ~Busy /\ loop = "none" /\ ~todo.drain /\ ~todo.boot
    BY DEF Quiet, First, Nothing
  <2>2. PICK i \in JobsOf(n) : Coming(i)
    BY <1>1, <2>1 DEF FreshInv, OnItsWay
  <2>3. i \in Made /\ about[i].note = n /\ about[i].rev = revision[n]
    BY <2>2 DEF JobsOf, Coming, TargetCurrent
  <2>4. job[i] # "pending"
    <3>1. ~Wedged
      BY DEF Wedged, Stuck
    <3> QED BY <1>1, <2>1, <2>3, <3>1 DEF FreshInv, Served, First, InStatus
  <2>5. ~(job[i] \in {"running", "qdrant_written"} /\ gen[i] = "staging")
    BY <1>1, <2>1, <2>3 DEF FreshInv, Unheld, Handled
  <2>6. gen[i] = "current"
    BY <2>2, <2>4, <2>5 DEF Coming
  <2> QED BY <2>2, <2>3, <2>6 DEF Current
<1>2. IInv /\ FreshInv => FreshWhenQuiet
  BY <1>1
<1> QED BY <1>2, Sound, FreshStays, PTL

=============================================================================
