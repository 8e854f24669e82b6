-------------------------- MODULE ExportJobsProofs --------------------------
(***************************************************************************)
(* Proofs about the data exports: what became of a job is decided by its   *)
(* last claim, once, and is never taken back.                              *)
(*                                                                         *)
(* The rows alone are not inductive.  Their ends depend on the workers     *)
(* (what a worker says to a listener was once the status of the row), and  *)
(* the archive's name on Cleanup (what it is about to forget is the name   *)
(* of a job that has ended and is not READY).  Lasting adds both.          *)
(* That a READY job keeps its archive needs the ages of files as well, and *)
(* who may still publish under a name: ArchivesSafe, at the end.           *)
(***************************************************************************)
EXTENDS MCExportJobs, Counting

Settled == Ended \union {"DELETED"}

\* A row: only a RUNNING one is leased, under the token of its last attempt,
\* and a READY one has the archive of its last attempt.
GoodRow(j, row) ==
    /\ row \in Job
    /\ (row.status = "RUNNING") = (row.token # 0)
    /\ row.status = "RUNNING" => row.token = row.attempt
    /\ row.status = "READY" => row.artifact = ArtifactName(j, row.attempt)

\* What may become of a row whose job has ended.
Follows(row, next) ==
    row.status \in Settled =>
        \/ next.status \in {row.status, "DELETED"}
        \/ row.status = "READY" /\ next.status \in {"EXPIRED", "CANCELLED"}

Working == {"claimed", "generating", "published", "failing"}
Telling == {"notify", "acknowledge"}

GoodWorker(r) ==
    /\ r \in Worker
    /\ r.pc \in Working => r.job \in Jobs /\ r.token \in Attempts
    /\ r.pc \in Telling => r.job \in Jobs /\ r.status \in Completed

Cleaner ==
    [pc : {"idle", "sweep", "commit", "remove", "forget", "reconcile"}, todo : SUBSET (Jobs \X Names),
     expired : SUBSET Jobs, job : 0 .. MaxJobs, name : Names \union {NoName},
     status : {"NONE", "EXPIRED", "CANCELLED"}, stale : SUBSET Names, retained : SUBSET Names]

\* Cleanup deals with jobs that were READY when it began.
GoodCleaner ==
    /\ cleaner \in Cleaner
    /\ \A j \in Jobs, n \in Names : <<j, n>> \in cleaner.todo => jobs[j].status \in Settled
    /\ cleaner.pc \in {"commit", "remove", "forget"} =>
           cleaner.job \in Jobs /\ cleaner.name \in Names /\ jobs[cleaner.job].status \in Settled
    /\ cleaner.pc = "commit" => cleaner.status # "NONE"
    /\ cleaner.pc \in {"remove", "forget"} => jobs[cleaner.job].status # "READY"

\* The outcome s of job j has been told, or a worker is about to tell it.
Says(r, j, s) == r.pc \in Telling /\ r.job = j /\ r.status = s
Told(j, s)    == <<j, s>> \in notices \/ \E w \in Workers : Says(workers[w], j, s)

\* What is told of a job was once its status.
ToldTruly(j) ==
    /\ Told(j, "READY") => jobs[j].status \in Settled \ {"FAILED"}
    /\ Told(j, "FAILED") => jobs[j].status \in {"FAILED", "DELETED"}
    /\ ~(Told(j, "READY") /\ Told(j, "FAILED"))

Rows  == jobs \in [Jobs -> Job] /\ \A j \in Jobs : GoodRow(j, jobs[j])
Crew  == workers \in [Workers -> Worker] /\ \A w \in Workers : GoodWorker(workers[w])
Files ==
    /\ access \in [Owners -> {"granted", "revoked", "purged"}]
    /\ zips \in [Names -> Age] /\ temps \in [Names -> Age]
    /\ notices \subseteq Jobs \X Completed

Lasting == Rows /\ Crew /\ Files /\ GoodCleaner /\ \A j \in Jobs : ToldTruly(j)
-----------------------------------------------------------------------------
(***************************************************************************)
(* Rows and workers, one at a time.                                        *)
(***************************************************************************)

LEMMA Numbers == Jobs \subseteq Nat \ {0} /\ Attempts \subseteq Nat \ {0} /\ NoName \notin Names
BY ExportAssumption DEF Jobs, Attempts, NoName, Names

\* A row that gives up its lease, keeping everything else.
LEMMA EndingRow ==
  ASSUME NEW j \in Jobs, NEW row, GoodRow(j, row), row.status \in {"QUEUED", "RUNNING"},
         NEW s \in {"FAILED", "CANCELLED"}
  PROVE  GoodRow(j, Ending(row, s)) /\ Follows(row, Ending(row, s)) /\ Ending(row, s).status = s
<1>1. row \in Job
  BY DEF GoodRow
<1>2. 0 \in 0 .. MaxAttempts /\ 0 \in 0 .. Lease
  BY ExportAssumption
<1>3. s \in Statuses \union {"NONE", "DELETED"} /\ s # "RUNNING" /\ s # "READY"
  BY DEF Statuses, Ended, Completed
<1>4. Ending(row, s) \in Job
  BY <1>1, <1>2, <1>3 DEF Job, Ending
<1>5. Ending(row, s).status = s /\ Ending(row, s).token = 0
  BY <1>1 DEF Job, Ending
<1>6. Follows(row, Ending(row, s))
  BY DEF Follows, Settled, Ended, Completed
<1> QED BY <1>3, <1>4, <1>5, <1>6 DEF GoodRow

\* A deleted row.
LEMMA GoneRow ==
  ASSUME NEW j \in Jobs, NEW row, GoodRow(j, row)
  PROVE  GoodRow(j, Gone(row)) /\ Follows(row, Gone(row))
<1>1. row \in Job
  BY DEF GoodRow
<1>2. 0 \in 0 .. MaxAttempts /\ 0 \in 0 .. Lease /\ 0 \in 0 .. Retention
  BY ExportAssumption
<1>3. Gone(row) \in Job
  BY <1>1, <1>2 DEF Job, Gone
<1>4. Gone(row).status = "DELETED" /\ Gone(row).token = 0
  BY <1>1 DEF Job, Gone
<1>5. Follows(row, Gone(row))
  BY <1>4 DEF Follows
<1> QED BY <1>3, <1>4, <1>5 DEF GoodRow

\* What follows from one changed row for all of them.
LEMMA OneRow ==
  ASSUME Rows, NEW j \in Jobs, NEW row, GoodRow(j, row), Follows(jobs[j], row),
         jobs' = [jobs EXCEPT ![j] = row]
  PROVE  Rows' /\ \A i \in Jobs : Follows(jobs[i], jobs'[i])
<1>1. row \in Job
  BY DEF GoodRow
<1>2. jobs' \in [Jobs -> Job]
  BY <1>1 DEF Rows
<1>3. jobs'[j] = row /\ \A i \in Jobs : i # j => jobs'[i] = jobs[i]
  BY DEF Rows
<1>4. \A i \in Jobs : GoodRow(i, jobs'[i])
  BY <1>3, Zenon DEF Rows
<1>5. \A i \in Jobs : Follows(jobs[i], jobs[i])
  BY DEF Follows
<1>6. \A i \in Jobs : Follows(jobs[i], jobs'[i])
  BY <1>3, <1>5, Zenon
<1> QED BY <1>2, <1>4, <1>6, Zenon DEF Rows

LEMMA SameRows ==
  ASSUME Rows, UNCHANGED jobs
  PROVE  Rows' /\ \A i \in Jobs : Follows(jobs[i], jobs'[i])
BY DEF Rows, Follows

LEMMA OneWorker ==
  ASSUME Crew, NEW w \in Workers, NEW r, GoodWorker(r), Step(w, r)
  PROVE  Crew' /\ workers'[w] = r /\ \A v \in Workers : v # w => workers'[v] = workers[v]
<1>1. r \in Worker
  BY DEF GoodWorker
<1>2. workers' \in [Workers -> Worker]
  BY <1>1 DEF Crew, Step
<1>3. workers'[w] = r /\ \A v \in Workers : v # w => workers'[v] = workers[v]
  BY DEF Crew, Step
<1>4. \A v \in Workers : GoodWorker(workers'[v])
  BY <1>3, Zenon DEF Crew
<1> QED BY <1>2, <1>3, <1>4, Zenon DEF Crew

LEMMA RestingWorkers ==
  /\ GoodWorker(Idle) /\ GoodWorker(At("down", 0, 0, 0)) /\ GoodWorker(At("exited", 0, 0, 0))
  /\ \A j \in Jobs, s \in Completed : GoodWorker(Notifying(j, s))
<1>1. 0 \in 0 .. MaxJobs /\ 0 \in 0 .. MaxAttempts /\ Jobs \subseteq 0 .. MaxJobs
  BY ExportAssumption DEF Jobs
<1> QED BY <1>1 DEF GoodWorker, Idle, At, Notifying, Worker, Working, Telling, Ended, Completed


LEMMA FirstJob ==
  ASSUME NEW T, T \subseteq Jobs, T # {}
  PROVE  FirstOf(T) \in T
BY LeastNumber, Numbers DEF FirstOf

-----------------------------------------------------------------------------
(***************************************************************************)
(* Every step keeps the rows good, and an ended one ended.                 *)
(***************************************************************************)

LEMMA RequesterKeepsRows ==
  ASSUME Lasting,
         \/ \E j \in Jobs : Create(j) \/ CancelActive(j)
         \/ \E j \in Jobs, committed \in BOOLEAN : RemoveEnded(j, committed)
         \/ \E o \in Owners : SetAccess(o, "granted") \/ SetAccess(o, "revoked") \/ PurgeGroup(o)
  PROVE  Rows' /\ \A i \in Jobs : Follows(jobs[i], jobs'[i])
<1>1. Rows /\ \A j \in Jobs : GoodRow(j, jobs[j])
  BY DEF Lasting, Rows
<1>2. ASSUME NEW j \in Jobs, Create(j) PROVE Rows' /\ \A i \in Jobs : Follows(jobs[i], jobs'[i])
  <2> DEFINE row == [jobs[j] EXCEPT !.status = "QUEUED"]
  <2>1. jobs[j] \in Job /\ jobs[j].status = "NONE"
    BY <1>1, <1>2 DEF GoodRow, Create
  <2>2. row \in Job /\ row.status = "QUEUED" /\ row.token = jobs[j].token
    BY <2>1 DEF Job, Statuses
  <2>3. jobs[j].token = 0
    BY <1>1, <2>1 DEF GoodRow
  <2>4. GoodRow(j, row)
    BY <2>2, <2>3 DEF GoodRow
  <2>5. Follows(jobs[j], row)
    BY <2>1 DEF Follows, Settled, Ended, Completed
  <2>6. jobs' = [jobs EXCEPT ![j] = row]
    BY <1>2 DEF Create
  <2> QED BY <1>1, <2>4, <2>5, <2>6, OneRow
<1>3. ASSUME NEW j \in Jobs, CancelActive(j) PROVE Rows' /\ \A i \in Jobs : Follows(jobs[i], jobs'[i])
  <2>1. jobs[j].status \in {"QUEUED", "RUNNING"} /\ jobs' = [jobs EXCEPT ![j] = Ending(jobs[j], "CANCELLED")]
    BY <1>3 DEF CancelActive, Active
  <2>2. GoodRow(j, Ending(jobs[j], "CANCELLED")) /\ Follows(jobs[j], Ending(jobs[j], "CANCELLED"))
    BY <1>1, <2>1, EndingRow
  <2> QED BY <1>1, <2>1, <2>2, OneRow
<1>4. ASSUME NEW j \in Jobs, NEW committed \in BOOLEAN, RemoveEnded(j, committed)
      PROVE  Rows' /\ \A i \in Jobs : Follows(jobs[i], jobs'[i])
  <2>1. CASE UNCHANGED jobs
    BY <1>1, <2>1, SameRows
  <2>2. CASE jobs' = [jobs EXCEPT ![j] = Gone(jobs[j])]
    <3>1. GoodRow(j, Gone(jobs[j])) /\ Follows(jobs[j], Gone(jobs[j]))
      BY <1>1, GoneRow
    <3> QED BY <1>1, <2>2, <3>1, OneRow
  <2> QED BY <1>4, <2>1, <2>2 DEF RemoveEnded
<1>5. ASSUME NEW o \in Owners, PurgeGroup(o) PROVE Rows' /\ \A i \in Jobs : Follows(jobs[i], jobs'[i])
  <2>1. jobs' = [j \in Jobs |-> IF jobs[j].owner = o /\ Exists(j) THEN Gone(jobs[j]) ELSE jobs[j]]
    BY <1>5 DEF PurgeGroup
  <2>2. \A j \in Jobs : jobs'[j] = Gone(jobs[j]) \/ jobs'[j] = jobs[j]
    BY <2>1
  <2>3. \A j \in Jobs : GoodRow(j, Gone(jobs[j])) /\ Follows(jobs[j], Gone(jobs[j]))
    BY <1>1, GoneRow
  <2>4. \A j \in Jobs : GoodRow(j, jobs[j]) /\ Follows(jobs[j], jobs[j])
    BY <1>1 DEF Follows
  <2>5. \A j \in Jobs : GoodRow(j, jobs'[j]) /\ Follows(jobs[j], jobs'[j])
    BY <2>2, <2>3, <2>4, Zenon
  <2>6. \A j \in Jobs : jobs'[j] \in Job
    BY <2>5 DEF GoodRow
  <2>7. jobs' \in [Jobs -> Job]
    BY <2>1, <2>6
  <2> QED BY <2>5, <2>7, Zenon DEF Rows
<1>6. ASSUME NEW o \in Owners, SetAccess(o, "granted") \/ SetAccess(o, "revoked")
      PROVE  Rows' /\ \A i \in Jobs : Follows(jobs[i], jobs'[i])
  BY <1>1, <1>6, SameRows DEF SetAccess
<1> QED BY <1>2, <1>3, <1>4, <1>5, <1>6, Zenon

LEMMA ClaimKeepsRows ==
  ASSUME Lasting, NEW w \in Workers, FailExhaustedAttempt(w) \/ ClaimNext(w)
  PROVE  Rows' /\ \A i \in Jobs : Follows(jobs[i], jobs'[i])
<1>1. Rows /\ \A j \in Jobs : GoodRow(j, jobs[j])
  BY DEF Lasting, Rows
<1>2. CASE FailExhaustedAttempt(w)
  <2> DEFINE exhausted == {j \in Jobs : Exhausted(j)}
             j         == FirstOf(exhausted)
  <2>1. j \in Jobs /\ Exhausted(j)
    BY <1>2, FirstJob DEF FailExhaustedAttempt
  <2> HIDE DEF j
  <2>2. jobs[j].status = "RUNNING"
    BY <2>1 DEF Exhausted
  <2>3. GoodRow(j, Ending(jobs[j], "FAILED")) /\ Follows(jobs[j], Ending(jobs[j], "FAILED"))
    BY <1>1, <2>1, <2>2, EndingRow
  <2>4. jobs' = [jobs EXCEPT ![j] = Ending(jobs[j], "FAILED")]
    BY <1>2 DEF FailExhaustedAttempt, j
  <2> QED BY <1>1, <2>1, <2>3, <2>4, OneRow
<1>3. CASE ClaimNext(w)
  <2> DEFINE claimable == {j \in Jobs : Claimable(j)}
             j         == FirstOf(claimable)
             token     == jobs[j].attempt + 1
             row       == [jobs[j] EXCEPT !.status = "RUNNING", !.attempt = token, !.token = token,
                                          !.lease = Lease]
  <2>1. j \in Jobs /\ Claimable(j)
    BY <1>3, FirstJob DEF ClaimNext
  <2>2. \/ jobs' = [jobs EXCEPT ![j].status = "RUNNING", ![j].attempt = token, ![j].token = token,
                                ![j].lease = Lease]
        \/ jobs' = [jobs EXCEPT ![j] = Ending(jobs[j], "CANCELLED")]
    BY <1>3 DEF ClaimNext
  <2> HIDE DEF j
  <2>3. jobs[j].status \in {"QUEUED", "RUNNING"} /\ jobs[j].attempt < MaxAttempts /\ jobs[j] \in Job
    BY <1>1, <2>1 DEF Claimable, GoodRow
  <2>4. CASE jobs' = [jobs EXCEPT ![j] = Ending(jobs[j], "CANCELLED")]
    <3>1. GoodRow(j, Ending(jobs[j], "CANCELLED")) /\ Follows(jobs[j], Ending(jobs[j], "CANCELLED"))
      BY <1>1, <2>1, <2>3, EndingRow
    <3> QED BY <1>1, <2>1, <2>4, <3>1, OneRow
  <2>5. CASE jobs' = [jobs EXCEPT ![j].status = "RUNNING", ![j].attempt = token, ![j].token = token,
                                  ![j].lease = Lease]
    <3>1. jobs[j].attempt \in 0 .. MaxAttempts
      BY <2>3 DEF Job
    <3>2. token \in 0 .. MaxAttempts /\ token # 0 /\ Lease \in 0 .. Lease
      BY <2>3, <3>1, ExportAssumption
    <3> HIDE DEF token
    <3>3. row \in Job
      BY <2>3, <3>2 DEF Job, Statuses
    <3>4. row.status = "RUNNING" /\ row.token = token /\ row.attempt = token
      BY <2>3 DEF Job
    <3>5. jobs' = [jobs EXCEPT ![j] = row]
      BY <2>5
    <3> HIDE DEF row
    <3>6. GoodRow(j, row)
      BY <3>2, <3>3, <3>4 DEF GoodRow
    <3>7. Follows(jobs[j], row)
      BY <2>3 DEF Follows, Settled, Ended, Completed
    <3> QED BY <1>1, <2>1, <3>5, <3>6, <3>7, OneRow
  <2> QED BY <2>2, <2>4, <2>5
<1> QED BY <1>2, <1>3

LEMMA WorkKeepsRows ==
  ASSUME Lasting, NEW w \in Workers,
         UpdateProgress(w) \/ CompleteOwned(w) \/ FailClaim(w) \/ Acknowledge(w)
  PROVE  Rows' /\ \A i \in Jobs : Follows(jobs[i], jobs'[i])
<1> DEFINE j == workers[w].job
<1>1. Rows /\ \A i \in Jobs : GoodRow(i, jobs[i])
  BY DEF Lasting, Rows
<1>2. j \in Jobs
  BY DEF Lasting, Crew, GoodWorker, Working, Telling, UpdateProgress, CompleteOwned, FailClaim, Acknowledge
<1>3. jobs[j] \in Job
  BY <1>1, <1>2 DEF GoodRow
<1>4. CASE UNCHANGED jobs
  BY <1>1, <1>4, SameRows
<1>5. CASE UpdateProgress(w)
  <2>1. CASE jobs' = [jobs EXCEPT ![j].lease = Lease]
    <3> DEFINE row == [jobs[j] EXCEPT !.lease = Lease]
    <3>1. Lease \in 0 .. Lease
      BY ExportAssumption
    <3>2. row \in Job /\ row.status = jobs[j].status /\ row.token = jobs[j].token
          /\ row.attempt = jobs[j].attempt /\ row.artifact = jobs[j].artifact
      BY <1>3, <3>1 DEF Job
    <3>3. jobs' = [jobs EXCEPT ![j] = row]
      BY <2>1
    <3> HIDE DEF row, j
    <3>4. GoodRow(j, row) /\ Follows(jobs[j], row)
      BY <1>1, <1>2, <3>2 DEF GoodRow, Follows
    <3> QED BY <1>1, <1>2, <3>3, <3>4, OneRow
  <2> QED BY <1>4, <1>5, <2>1 DEF UpdateProgress
<1>6. CASE CompleteOwned(w)
  <2>1. jobs[j].status = "RUNNING" /\ jobs[j].token = workers[w].token
    BY <1>6 DEF CompleteOwned, Owns
  <2>2. jobs[j].token = jobs[j].attempt
    BY <1>1, <1>2, <2>1 DEF GoodRow
  <2>3. CASE jobs' = [jobs EXCEPT ![j] = Ending(jobs[j], "CANCELLED")]
    <3>1. GoodRow(j, Ending(jobs[j], "CANCELLED")) /\ Follows(jobs[j], Ending(jobs[j], "CANCELLED"))
      BY <1>1, <1>2, <2>1, EndingRow
    <3> QED BY <1>1, <1>2, <2>3, <3>1, OneRow
  <2>4. CASE jobs' = [jobs EXCEPT ![j] = [Ending(jobs[j], "READY") EXCEPT
                          !.artifact = ArtifactName(j, workers[w].token), !.expiry = Retention]]
    <3> DEFINE row == [Ending(jobs[j], "READY") EXCEPT
                          !.artifact = ArtifactName(j, workers[w].token), !.expiry = Retention]
    <3>1. workers[w].token \in Attempts
      BY <1>6 DEF Lasting, Crew, GoodWorker, Working, CompleteOwned
    <3>2. ArtifactName(j, workers[w].token) \in Names
      BY <1>2, <3>1 DEF ArtifactName, Names
    <3>3. 0 \in 0 .. MaxAttempts /\ 0 \in 0 .. Lease /\ Retention \in 0 .. Retention
      BY ExportAssumption
    <3>4. Ending(jobs[j], "READY") \in Job /\ Ending(jobs[j], "READY").attempt = jobs[j].attempt
          /\ Ending(jobs[j], "READY").status = "READY" /\ Ending(jobs[j], "READY").token = 0
      BY <1>3, <3>3 DEF Job, Ending, Statuses, Ended, Completed
    <3>5. row \in Job /\ row.status = "READY" /\ row.token = 0 /\ row.attempt = jobs[j].attempt
          /\ row.artifact = ArtifactName(j, workers[w].token)
      BY <3>2, <3>3, <3>4 DEF Job
    <3>6. jobs' = [jobs EXCEPT ![j] = row]
      BY <2>4
    <3> HIDE DEF row, j
    <3>7. GoodRow(j, row)
      BY <2>1, <2>2, <3>5 DEF GoodRow
    <3>8. Follows(jobs[j], row)
      BY <2>1 DEF Follows, Settled, Ended, Completed
    <3> QED BY <1>1, <1>2, <3>6, <3>7, <3>8, OneRow
  <2> QED BY <1>6, <2>3, <2>4 DEF CompleteOwned
<1>7. CASE FailClaim(w)
  <2>1. CASE Owns(w) /\ jobs' = [jobs EXCEPT ![j] = Ending(jobs[j], "FAILED")]
    <3>1. jobs[j].status = "RUNNING"
      BY <2>1 DEF Owns
    <3>2. GoodRow(j, Ending(jobs[j], "FAILED")) /\ Follows(jobs[j], Ending(jobs[j], "FAILED"))
      BY <1>1, <1>2, <3>1, EndingRow
    <3> QED BY <1>1, <1>2, <2>1, <3>2, OneRow
  <2> QED BY <1>4, <1>7, <2>1 DEF FailClaim
<1>8. CASE Acknowledge(w)
  <2> DEFINE row == [jobs[j] EXCEPT !.notified = @ \/ jobs[j].status = workers[w].status]
  <2>1. jobs[j].notified \in BOOLEAN
    BY <1>3 DEF Job
  <2>2. (jobs[j].notified \/ jobs[j].status = workers[w].status) \in BOOLEAN
    BY <2>1
  <2>3. row \in Job /\ row.status = jobs[j].status /\ row.token = jobs[j].token
        /\ row.attempt = jobs[j].attempt /\ row.artifact = jobs[j].artifact
    BY <1>3, <2>2 DEF Job
  <2>4. jobs' = [jobs EXCEPT ![j] = row]
    BY <1>8 DEF Acknowledge
  <2> HIDE DEF row, j
  <2>5. GoodRow(j, row) /\ Follows(jobs[j], row)
    BY <1>1, <1>2, <2>3 DEF GoodRow, Follows
  <2> QED BY <1>1, <1>2, <2>4, <2>5, OneRow
<1> QED BY <1>5, <1>6, <1>7, <1>8

LEMMA CleanupKeepsRows ==
  ASSUME Lasting, CleanupCommit \/ CleanupForget
  PROVE  Rows' /\ \A i \in Jobs : Follows(jobs[i], jobs'[i])
<1> DEFINE j == cleaner.job
<1>1. Rows /\ \A i \in Jobs : GoodRow(i, jobs[i])
  BY DEF Lasting, Rows
<1>2. j \in Jobs
  BY DEF Lasting, GoodCleaner, CleanupCommit, CleanupForget
<1>3. jobs[j] \in Job
  BY <1>1, <1>2 DEF GoodRow
<1>4. CASE CleanupCommit
  <2>1. CASE jobs[j].status = "READY" /\ jobs' = [jobs EXCEPT ![j].status = cleaner.status, ![j].expiry = 0]
    <3> DEFINE row == [jobs[j] EXCEPT !.status = cleaner.status, !.expiry = 0]
    <3>1. cleaner.status \in {"EXPIRED", "CANCELLED"}
      BY <1>4 DEF Lasting, GoodCleaner, Cleaner, CleanupCommit
    <3>2. 0 \in 0 .. Retention
      BY ExportAssumption
    <3>3. row \in Job /\ row.status = cleaner.status /\ row.token = jobs[j].token
      BY <1>3, <3>1, <3>2 DEF Job, Statuses, Ended
    <3>4. jobs' = [jobs EXCEPT ![j] = row]
      BY <2>1
    <3> HIDE DEF row, j
    <3>5. jobs[j].token = 0
      BY <1>1, <1>2, <2>1 DEF GoodRow
    <3>6. GoodRow(j, row) /\ Follows(jobs[j], row)
      BY <2>1, <3>1, <3>3, <3>5 DEF GoodRow, Follows
    <3> QED BY <1>1, <1>2, <3>4, <3>6, OneRow
  <2>2. CASE UNCHANGED jobs
    BY <1>1, <2>2, SameRows
  <2> QED BY <1>4, <2>1, <2>2 DEF CleanupCommit
<1>5. CASE CleanupForget
  <2> DEFINE name == IF jobs[j].artifact = cleaner.name THEN NoName ELSE jobs[j].artifact
             row  == [jobs[j] EXCEPT !.artifact = name]
  <2>1. name \in Names \union {NoName}
    BY <1>3 DEF Job
  <2>2. jobs[j].status # "READY"
    BY <1>5 DEF Lasting, GoodCleaner, CleanupForget
  <2>3. jobs' = [jobs EXCEPT ![j] = row]
    BY <1>5 DEF CleanupForget
  <2> HIDE DEF name
  <2>4. row \in Job /\ row.status = jobs[j].status /\ row.token = jobs[j].token /\ row.attempt = jobs[j].attempt
    BY <1>3, <2>1 DEF Job
  <2> HIDE DEF row, j
  <2>5. GoodRow(j, row) /\ Follows(jobs[j], row)
    BY <1>1, <1>2, <2>2, <2>4 DEF GoodRow, Follows
  <2> QED BY <1>1, <1>2, <2>3, <2>5, OneRow
<1> QED BY <1>4, <1>5

LEMMA TickKeepsRows ==
  ASSUME Lasting, Tick
  PROVE  Rows' /\ \A i \in Jobs : Follows(jobs[i], jobs'[i])
<1>1. Rows /\ \A i \in Jobs : GoodRow(i, jobs[i])
  BY DEF Lasting, Rows
<1>2. ASSUME NEW n \in Nat, NEW k \in 0 .. n PROVE Less(k) \in 0 .. n
  BY DEF Less
<1>3. ASSUME NEW j \in Jobs
      PROVE  jobs'[j] \in Job /\ GoodRow(j, jobs'[j]) /\ Follows(jobs[j], jobs'[j])
  <2> DEFINE lease  == Less(jobs[j].lease)
             expiry == Less(jobs[j].expiry)
             row    == [jobs[j] EXCEPT !.lease = lease, !.expiry = expiry]
  <2>1. jobs[j] \in Job
    BY <1>1 DEF GoodRow
  <2>2. lease \in 0 .. Lease /\ expiry \in 0 .. Retention
    BY <1>2, <2>1, ExportAssumption DEF Job
  <2>3. jobs'[j] = row
    BY DEF Tick
  <2> HIDE DEF lease, expiry
  <2>4. row \in Job /\ row.status = jobs[j].status /\ row.token = jobs[j].token
        /\ row.attempt = jobs[j].attempt /\ row.artifact = jobs[j].artifact
    BY <2>1, <2>2 DEF Job
  <2> HIDE DEF row
  <2>5. GoodRow(j, row) /\ Follows(jobs[j], row)
    BY <1>1, <2>4 DEF GoodRow, Follows
  <2> QED BY <2>3, <2>4, <2>5
<1>4. jobs' \in [Jobs -> Job]
  BY <1>3 DEF Tick
<1> QED BY <1>3, <1>4, Zenon DEF Rows

\* The rows, whatever the step.
LEMMA RowsKept ==
  ASSUME Lasting, [Next]_vars
  PROVE  Rows' /\ \A i \in Jobs : Follows(jobs[i], jobs'[i])
<1>1. CASE UNCHANGED jobs
  BY <1>1, SameRows DEF Lasting
<1>2. CASE \/ \E j \in Jobs : Create(j) \/ CancelActive(j)
           \/ \E j \in Jobs, committed \in BOOLEAN : RemoveEnded(j, committed)
           \/ \E o \in Owners : SetAccess(o, "granted") \/ SetAccess(o, "revoked") \/ PurgeGroup(o)
  BY <1>2, RequesterKeepsRows
<1>3. ASSUME NEW w \in Workers, WorkerStep(w) \/ Crash(w)
      PROVE  Rows' /\ \A i \in Jobs : Follows(jobs[i], jobs'[i])
  <2>1. CASE FailExhaustedAttempt(w) \/ ClaimNext(w)
    BY <2>1, ClaimKeepsRows
  <2>2. CASE UpdateProgress(w) \/ CompleteOwned(w) \/ FailClaim(w) \/ Acknowledge(w)
    BY <2>2, WorkKeepsRows
  <2> QED
    BY <1>1, <1>3, <2>1, <2>2
    DEF WorkerStep, Crash, CreateTemporary, GenerationFails, Publish, CompleteLost, DispatchPending,
        ExportCompleted, Restart
<1>4. CASE CleanerStep \/ CrashCleaner
  <2>1. CASE CleanupCommit \/ CleanupForget
    BY <2>1, CleanupKeepsRows
  <2> QED
    BY <1>1, <1>4, <2>1
    DEF CleanerStep, CrashCleaner, CleanupStart, CleanupDecide, CleanupRemove, CleanupRetain,
        ReconcileArchive, ReconcileTemporary, CleanupEnd
<1>5. CASE Tick
  BY <1>5, TickKeepsRows
<1>6. CASE UNCHANGED vars
  BY <1>1, <1>6 DEF vars
<1> QED BY <1>2, <1>3, <1>4, <1>5, <1>6 DEF Next

-----------------------------------------------------------------------------
(***************************************************************************)
(* Every step keeps the workers good, and what they begin to say is true.  *)
(***************************************************************************)

TrueWords ==
    \A v \in Workers, j \in Jobs, s \in Completed :
        Says(workers'[v], j, s) => Says(workers[v], j, s) \/ jobs'[j].status = s

LEMMA OneVoice ==
  ASSUME Crew, NEW w \in Workers, NEW r, GoodWorker(r), Step(w, r),
         \A j \in Jobs, s \in Completed : Says(r, j, s) => Says(workers[w], j, s) \/ jobs'[j].status = s
  PROVE  Crew' /\ TrueWords
<1>1. Crew' /\ workers'[w] = r /\ \A v \in Workers : v # w => workers'[v] = workers[v]
  BY OneWorker
<1>2. \A v \in Workers : v # w => \A j \in Jobs, s \in Completed : Says(workers'[v], j, s) => Says(workers[v], j, s)
  BY <1>1
<1>3. \A j \in Jobs, s \in Completed : Says(workers'[w], j, s) => Says(workers[w], j, s) \/ jobs'[j].status = s
  BY <1>1
<1> QED BY <1>1, <1>2, <1>3, Zenon DEF TrueWords

\* A worker that does not speak.
LEMMA SilentWorker ==
  ASSUME Crew, NEW w \in Workers, NEW r, GoodWorker(r), Step(w, r), r.pc \notin Telling
  PROVE  Crew' /\ TrueWords
BY OneVoice DEF Says

LEMMA SameVoices ==
  ASSUME Crew, UNCHANGED workers
  PROVE  Crew' /\ TrueWords
BY DEF Crew, TrueWords

\* A worker that reports the present status of its job.
LEMMA Reporter ==
  ASSUME Crew, NEW w \in Workers, NEW i \in Jobs, NEW status \in Completed,
         Step(w, Notifying(i, status)), jobs'[i].status = status
  PROVE  Crew' /\ TrueWords
<1>1. GoodWorker(Notifying(i, status))
  BY RestingWorkers
<1>2. \A j \in Jobs, s \in Completed : Says(Notifying(i, status), j, s) => jobs'[j].status = s
  BY DEF Says, Notifying
<1> QED BY <1>1, <1>2, OneVoice

LEMMA SilentAtRest ==
  /\ Idle.pc \notin Telling /\ At("down", 0, 0, 0).pc \notin Telling /\ At("exited", 0, 0, 0).pc \notin Telling
BY DEF Idle, At, Telling

LEMMA CrewKept ==
  ASSUME Lasting, Rows', NEW w \in Workers, WorkerStep(w) \/ Crash(w)
  PROVE  Crew' /\ TrueWords
<1>1. Crew /\ GoodWorker(workers[w]) /\ workers[w] \in Worker
  BY DEF Lasting, Crew
<1>2. Rows /\ jobs \in [Jobs -> Job]
  BY DEF Lasting, Rows
<1>3. CASE FailExhaustedAttempt(w)
  <2> DEFINE exhausted == {j \in Jobs : Exhausted(j)}
             j         == FirstOf(exhausted)
  <2>1. j \in Jobs
    BY <1>3, FirstJob DEF FailExhaustedAttempt
  <2> HIDE DEF j
  <2>2. Step(w, Notifying(j, "FAILED")) /\ jobs' = [jobs EXCEPT ![j] = Ending(jobs[j], "FAILED")]
    BY <1>3 DEF FailExhaustedAttempt, j
  <2>3. jobs'[j].status = "FAILED"
    BY <1>2, <2>1, <2>2 DEF Ending, Job
  <2> QED BY <1>1, <2>1, <2>2, <2>3, Reporter DEF Completed
<1>4. CASE ClaimNext(w)
  <2> DEFINE claimable == {j \in Jobs : Claimable(j)}
             j         == FirstOf(claimable)
             token     == jobs[j].attempt + 1
             r         == At("claimed", j, token, GenerationTimeout)
  <2>1. CASE UNCHANGED workers
    BY <1>1, <2>1, SameVoices
  <2>2. CASE Step(w, r)
    <3>1. j \in Jobs /\ Claimable(j)
      BY <1>4, FirstJob DEF ClaimNext
    <3> HIDE DEF j
    <3>2. jobs[j].attempt < MaxAttempts /\ jobs[j].attempt \in 0 .. MaxAttempts
      BY <1>2, <3>1 DEF Claimable, Job
    <3>3. token \in Attempts /\ token \in 0 .. MaxAttempts /\ j \in 0 .. MaxJobs /\ GenerationTimeout \in Nat
      BY <3>1, <3>2, ExportAssumption DEF Attempts, Jobs
    <3> HIDE DEF token
    <3>4. GoodWorker(r) /\ r.pc \notin Telling
      BY <3>1, <3>3 DEF GoodWorker, Worker, At, Working, Telling
    <3> QED BY <1>1, <2>2, <3>4, SilentWorker
  <2> QED BY <1>4, <2>1, <2>2 DEF ClaimNext
<1>5. ASSUME NEW pc \in {"generating", "failing"}, workers[w].pc \in Working,
             Step(w, [workers[w] EXCEPT !.pc = pc])
      PROVE  Crew' /\ TrueWords
  <2> DEFINE r == [workers[w] EXCEPT !.pc = pc]
  <2>1. GoodWorker(r) /\ r.pc \notin Telling
    BY <1>1, <1>5 DEF GoodWorker, Worker, Working, Telling
  <2> QED BY <1>1, <1>5, <2>1, SilentWorker
<1>6. CASE CreateTemporary(w) \/ GenerationFails(w)
  BY <1>5, <1>6 DEF CreateTemporary, GenerationFails, Working
<1>7. CASE UpdateProgress(w)
  BY <1>1, <1>5, <1>7, SameVoices DEF UpdateProgress, Working
<1>8. CASE Publish(w)
  <2> DEFINE r == [workers[w] EXCEPT !.pc = "published", !.left = CommitDelay]
  <2>1. GoodWorker(r) /\ r.pc \notin Telling
    BY <1>1, <1>8, ExportAssumption DEF GoodWorker, Worker, Working, Telling, Publish
  <2>2. Step(w, r)
    BY <1>8 DEF Publish
  <2> QED BY <1>1, <2>1, <2>2, SilentWorker
<1>9. ASSUME Step(w, Idle) \/ Step(w, At("down", 0, 0, 0)) \/ Step(w, Returned(w))
      PROVE  Crew' /\ TrueWords
  BY <1>1, <1>9, RestingWorkers, SilentAtRest, SilentWorker DEF Returned
<1>10. CASE CompleteOwned(w)
  <2> DEFINE j == workers[w].job
  <2>1. j \in Jobs
    BY <1>1, <1>10 DEF GoodWorker, Working, CompleteOwned
  <2>2. CASE /\ Step(w, Notifying(j, "READY"))
             /\ jobs' = [jobs EXCEPT ![j] = [Ending(@, "READY") EXCEPT
                             !.artifact = ArtifactName(j, workers[w].token), !.expiry = Retention]]
    <3>1. jobs'[j].status = "READY"
      BY <1>2, <2>1, <2>2 DEF Ending, Job
    <3> QED BY <1>1, <2>1, <2>2, <3>1, Reporter DEF Completed
  <2> QED BY <1>9, <1>10, <2>2 DEF CompleteOwned
<1>11. CASE CompleteLost(w)
  <2> DEFINE j == workers[w].job
  <2>1. j \in Jobs
    BY <1>1, <1>11 DEF GoodWorker, Working, CompleteLost
  <2>2. CASE Step(w, Notifying(j, "READY")) /\ jobs'[j].status = "READY"
    BY <1>1, <2>1, <2>2, Reporter DEF Completed
  <2> QED BY <1>9, <1>11, <2>2 DEF CompleteLost
<1>12. CASE FailClaim(w)
  <2> DEFINE j == workers[w].job
  <2>1. j \in Jobs
    BY <1>1, <1>12 DEF GoodWorker, Working, FailClaim
  <2>2. CASE Step(w, Notifying(j, "FAILED")) /\ jobs'[j].status = "FAILED"
    BY <1>1, <2>1, <2>2, Reporter DEF Completed
  <2>3. Step(w, IF jobs'[j].status = "FAILED" THEN Notifying(j, "FAILED") ELSE Returned(w))
    BY <1>12 DEF FailClaim
  <2> QED BY <1>9, <2>2, <2>3
<1>13. ASSUME NEW j \in Jobs, DispatchPending(w, j) PROVE Crew' /\ TrueWords
  BY <1>1, <1>13, Reporter DEF DispatchPending, Pending
<1>14. CASE \E member \in BOOLEAN : ExportCompleted(w, member)
  <2> DEFINE r == [workers[w] EXCEPT !.pc = "acknowledge"]
  <2>1. workers[w].pc = "notify" /\ Step(w, r)
    BY <1>14 DEF ExportCompleted
  <2>2. GoodWorker(r)
    BY <1>1, <2>1 DEF GoodWorker, Worker, Working, Telling
  <2>3. \A j \in Jobs, s \in Completed : Says(r, j, s) => Says(workers[w], j, s)
    BY <1>1, <2>1 DEF Says, Worker, Telling
  <2> QED BY <1>1, <2>1, <2>2, <2>3, OneVoice
<1>15. CASE Acknowledge(w) \/ Restart(w) \/ Crash(w)
  BY <1>9, <1>15 DEF Acknowledge, Restart, Crash
<1> QED BY <1>3, <1>4, <1>6, <1>7, <1>8, <1>10, <1>11, <1>12, <1>13, <1>14, <1>15 DEF WorkerStep

LEMMA VoicesKept ==
  ASSUME Lasting, Rows', [Next]_vars
  PROVE  Crew' /\ TrueWords
<1>1. CASE UNCHANGED workers
  BY <1>1, SameVoices DEF Lasting
<1>2. ASSUME NEW w \in Workers, WorkerStep(w) \/ Crash(w) PROVE Crew' /\ TrueWords
  BY <1>2, CrewKept
<1>3. CASE Tick
  <2>1. \A w \in Workers : GoodWorker(workers[w]) /\ workers[w] \in Worker
    BY DEF Lasting, Crew
  <2>2. ASSUME NEW w \in Workers
        PROVE  /\ workers'[w] \in Worker /\ workers'[w].pc = workers[w].pc /\ workers'[w].job = workers[w].job
               /\ workers'[w].token = workers[w].token /\ workers'[w].status = workers[w].status
    <3> DEFINE left == Less(workers[w].left)
    <3>1. workers[w].left \in Nat
      BY <2>1 DEF Worker
    <3>2. left \in Nat
      BY <3>1 DEF Less
    <3>3. workers'[w] = [workers[w] EXCEPT !.left = left]
      BY <1>3 DEF Tick
    <3> HIDE DEF left
    <3> QED BY <2>1, <3>2, <3>3 DEF Worker
  <2>3. \A w \in Workers : GoodWorker(workers'[w])
    BY <2>1, <2>2 DEF GoodWorker
  <2>4. workers' \in [Workers -> Worker]
    BY <1>3, <2>2 DEF Tick
  <2>5. \A w \in Workers : \A j, s : Says(workers'[w], j, s) => Says(workers[w], j, s)
    BY <2>2 DEF Says
  <2> QED BY <2>3, <2>4, <2>5, Zenon DEF Crew, TrueWords
<1> QED
  BY <1>1, <1>2, <1>3
  DEF Next, vars, Create, CancelActive, RemoveEnded, SetAccess, PurgeGroup, CleanerStep, CrashCleaner,
      CleanupStart, CleanupDecide, CleanupCommit, CleanupRemove, CleanupForget, CleanupRetain,
      ReconcileArchive, ReconcileTemporary, CleanupEnd

\* A notification is written by a worker that says it.
LEMMA NoticesKept ==
  ASSUME Lasting, [Next]_vars
  PROVE  /\ notices' \subseteq Jobs \X Completed
         /\ \A j \in Jobs, s \in Completed : <<j, s>> \in notices' => Told(j, s)
<1>1. notices \subseteq Jobs \X Completed
  BY DEF Lasting, Files
<1>2. CASE UNCHANGED notices
  BY <1>1, <1>2 DEF Told
<1>3. ASSUME NEW w \in Workers, NEW member \in BOOLEAN, ExportCompleted(w, member)
      PROVE  /\ notices' \subseteq Jobs \X Completed
             /\ \A j \in Jobs, s \in Completed : <<j, s>> \in notices' => Told(j, s)
  <2>1. workers[w].pc = "notify" /\ workers[w].job \in Jobs /\ workers[w].status \in Completed
    BY <1>3 DEF Lasting, Crew, GoodWorker, Telling, ExportCompleted
  <2>2. notices' \subseteq notices \union {<<workers[w].job, workers[w].status>>}
    BY <1>3 DEF ExportCompleted
  <2>3. Says(workers[w], workers[w].job, workers[w].status)
    BY <2>1 DEF Says, Telling
  <2>4. ASSUME NEW j \in Jobs, NEW s \in Completed, <<j, s>> \in notices' PROVE Told(j, s)
    <3>1. <<j, s>> \in notices \/ (j = workers[w].job /\ s = workers[w].status)
      BY <2>2, <2>4
    <3> QED BY <2>3, <3>1, Zenon DEF Told
  <2> QED BY <1>1, <2>1, <2>2, <2>4
<1> QED
  BY <1>2, <1>3
  DEF Next, vars, Create, CancelActive, RemoveEnded, SetAccess, PurgeGroup, CleanerStep, CrashCleaner,
      CleanupStart, CleanupDecide, CleanupCommit, CleanupRemove, CleanupForget, CleanupRetain,
      ReconcileArchive, ReconcileTemporary, CleanupEnd, Tick, WorkerStep, Crash, FailExhaustedAttempt,
      ClaimNext, CreateTemporary, UpdateProgress, GenerationFails, Publish, CompleteOwned, CompleteLost,
      FailClaim, DispatchPending, Acknowledge, Restart

\* The outcomes that are told stay true, and never both are.
LEMMA ToldKept ==
  ASSUME Lasting, [Next]_vars, NEW j \in Jobs
  PROVE  ToldTruly(j)'
<1>1. TrueWords /\ Rows' /\ Follows(jobs[j], jobs'[j])
  BY RowsKept, VoicesKept
<1>2. ASSUME NEW s \in Completed, Told(j, s)' PROVE Told(j, s) \/ jobs'[j].status = s
  <2>1. CASE <<j, s>> \in notices'
    BY <2>1, NoticesKept
  <2>2. CASE \E w \in Workers : Says(workers'[w], j, s)
    BY <1>1, <2>2, Zenon DEF TrueWords, Told
  <2> QED BY <1>2, <2>1, <2>2, Zenon DEF Told, Says
<1>3. ToldTruly(j)
  BY DEF Lasting
<1>4. Told(j, "READY")' => jobs'[j].status \in Settled \ {"FAILED"}
  BY <1>1, <1>2, <1>3 DEF ToldTruly, Follows, Settled, Ended, Completed
<1>5. Told(j, "FAILED")' => jobs'[j].status \in {"FAILED", "DELETED"}
  BY <1>1, <1>2, <1>3 DEF ToldTruly, Follows, Settled, Ended, Completed
<1>6. ~(Told(j, "READY")' /\ Told(j, "FAILED")')
  BY <1>2, <1>3, <1>4, <1>5 DEF ToldTruly, Completed
<1> QED BY <1>4, <1>5, <1>6 DEF ToldTruly

-----------------------------------------------------------------------------
(***************************************************************************)
(* Cleanup and the files.                                                  *)
(***************************************************************************)

\* Cleanup's jobs stay ended while others take their steps.
LEMMA CleanerSpared ==
  ASSUME Lasting, UNCHANGED cleaner, \A i \in Jobs : Follows(jobs[i], jobs'[i])
  PROVE  GoodCleaner'
<1>1. \A i \in Jobs : jobs[i].status \in Settled => jobs'[i].status \in Settled
  BY DEF Follows, Settled, Ended
<1>2. \A i \in Jobs : jobs[i].status \in Settled /\ jobs[i].status # "READY" => jobs'[i].status # "READY"
  BY DEF Follows
<1> QED BY <1>1, <1>2 DEF Lasting, GoodCleaner

LEMMA CleanerKept ==
  ASSUME Lasting, [Next]_vars
  PROVE  GoodCleaner'
<1>1. \A i \in Jobs : Follows(jobs[i], jobs'[i])
  BY RowsKept
<1>2. GoodCleaner /\ cleaner \in Cleaner
  BY DEF Lasting, GoodCleaner
<1>3. CASE UNCHANGED cleaner
  BY <1>1, <1>3, CleanerSpared
<1>4. CASE CleanupStart
  <2>1. \A j \in Jobs : jobs[j].status = "READY" => jobs[j].artifact \in Names
    BY Numbers DEF Lasting, Rows, GoodRow, Job, ArtifactName, NoName
  <2> DEFINE todo    == {<<j, jobs[j].artifact>> : j \in {i \in Jobs : jobs[i].status = "READY"}}
             expired == {j \in Jobs : jobs[j].status = "READY" /\ jobs[j].expiry = 0}
             stale   == {n \in Names : Stale(zips[n])}
  <2>2. todo \subseteq Jobs \X Names /\ expired \subseteq Jobs /\ stale \subseteq Names
    BY <2>1
  <2>3. UNCHANGED jobs
        /\ cleaner' = [cleaner EXCEPT !.pc = "sweep", !.todo = todo, !.expired = expired, !.stale = stale]
    BY <1>4 DEF CleanupStart
  <2>4. \A j \in Jobs : \A n : <<j, n>> \in todo => jobs[j].status = "READY"
    OBVIOUS
  <2> HIDE DEF todo, expired, stale
  <2>5. UNCHANGED jobs /\ cleaner' \in Cleaner /\ cleaner'.pc = "sweep" /\ cleaner'.todo = todo
    BY <1>2, <2>2, <2>3 DEF Cleaner
  <2>6. ASSUME NEW j \in Jobs, NEW n \in Names, <<j, n>> \in cleaner'.todo PROVE jobs'[j].status \in Settled
    <3>1. jobs[j].status = "READY"
      BY <2>4, <2>5, <2>6
    <3> QED BY <2>5, <3>1 DEF Settled, Ended, Completed
  <2> QED BY <2>5, <2>6 DEF GoodCleaner
<1>5. ASSUME NEW entry \in cleaner.todo, CleanupDecide(entry[1], entry[2]) PROVE GoodCleaner'
  <2>1. PICK j \in Jobs, n \in Names : entry = <<j, n>>
    BY <1>2, <1>5 DEF Cleaner
  <2>2. UNCHANGED jobs /\ cleaner.pc = "sweep" /\ <<j, n>> \in cleaner.todo /\ jobs[j].status \in Settled
    BY <1>2, <1>5, <2>1 DEF CleanupDecide, GoodCleaner
  <2> DEFINE rest   == cleaner.todo \ {<<j, n>>}
             status == IF j \in cleaner.expired THEN "EXPIRED" ELSE "CANCELLED"
  <2>3. rest \subseteq cleaner.todo /\ status \in {"EXPIRED", "CANCELLED"} /\ j \in 0 .. MaxJobs
    BY ExportAssumption DEF Jobs
  <2>4. \/ cleaner' = [cleaner EXCEPT !.todo = rest]
        \/ cleaner' = [cleaner EXCEPT !.pc = "commit", !.todo = rest, !.job = j, !.name = n, !.status = status]
    BY <1>5, <2>1 DEF CleanupDecide
  <2> HIDE DEF rest, status
  <2>5. CASE cleaner' = [cleaner EXCEPT !.todo = rest]
    <3>1. cleaner' \in Cleaner /\ cleaner'.todo \subseteq cleaner.todo /\ cleaner'.pc = "sweep"
      BY <1>2, <2>2, <2>3, <2>5 DEF Cleaner
    <3> QED BY <1>2, <2>2, <3>1 DEF GoodCleaner
  <2>6. CASE cleaner' = [cleaner EXCEPT !.pc = "commit", !.todo = rest, !.job = j, !.name = n,
                                        !.status = status]
    <3>1. cleaner' \in Cleaner /\ cleaner'.todo \subseteq cleaner.todo /\ cleaner'.pc = "commit"
          /\ cleaner'.job = j /\ cleaner'.name = n /\ cleaner'.status # "NONE"
      BY <1>2, <2>2, <2>3, <2>6 DEF Cleaner
    <3> QED BY <1>2, <2>2, <3>1 DEF GoodCleaner
  <2> QED BY <2>4, <2>5, <2>6
<1>6. CASE CleanupCommit
  <2>1. cleaner' \in Cleaner /\ cleaner'.todo = cleaner.todo /\ cleaner'.pc = "remove"
        /\ cleaner'.job = cleaner.job /\ cleaner'.name = cleaner.name
    BY <1>2, <1>6 DEF CleanupCommit, Cleaner
  <2>2. cleaner.job \in Jobs /\ cleaner.name \in Names /\ cleaner.status # "NONE"
        /\ jobs[cleaner.job].status \in Settled
    BY <1>2, <1>6 DEF CleanupCommit, GoodCleaner
  <2>3. jobs'[cleaner.job].status # "READY"
    <3>1. CASE jobs[cleaner.job].status = "READY"
      BY <1>2, <1>6, <2>2, <3>1 DEF CleanupCommit, Lasting, Rows, Job, Cleaner
    <3> QED BY <1>6, <3>1 DEF CleanupCommit
  <2>4. \A i \in Jobs : jobs[i].status \in Settled => jobs'[i].status \in Settled
    BY <1>1 DEF Follows, Settled, Ended
  <2> QED BY <1>2, <2>1, <2>2, <2>3, <2>4 DEF GoodCleaner
<1>7. CASE CleanupRemove
  <2>1. cleaner' \in Cleaner /\ cleaner'.todo = cleaner.todo /\ cleaner'.pc = "forget"
        /\ cleaner'.job = cleaner.job /\ cleaner'.name = cleaner.name
    BY <1>2, <1>7 DEF CleanupRemove, Cleaner
  <2> QED BY <1>2, <1>7, <2>1 DEF GoodCleaner, CleanupRemove
<1>8. CASE CleanupForget
  <2>1. 0 \in 0 .. MaxJobs
    BY ExportAssumption
  <2>2. cleaner' \in Cleaner /\ cleaner'.todo = cleaner.todo /\ cleaner'.pc = "sweep"
    BY <1>2, <1>8, <2>1 DEF CleanupForget, Cleaner
  <2>3. \A i \in Jobs : jobs[i].status \in Settled => jobs'[i].status \in Settled
    BY <1>1 DEF Follows, Settled, Ended
  <2> QED BY <1>2, <2>2, <2>3 DEF GoodCleaner
<1>9. CASE CleanupRetain
  <2>1. RetainedArtifactNames \subseteq Names
    <3>1. \A j \in Jobs : jobs[j].status = "READY" => jobs[j].artifact \in Names
      BY Numbers DEF Lasting, Rows, GoodRow, Job, ArtifactName, NoName
    <3> QED BY <3>1 DEF RetainedArtifactNames
  <2>2. cleaner' \in Cleaner /\ cleaner'.todo = cleaner.todo /\ cleaner'.pc = "reconcile"
    BY <1>2, <1>9, <2>1 DEF CleanupRetain, Cleaner
  <2> QED BY <1>2, <1>9, <2>2 DEF GoodCleaner, CleanupRetain
<1>10. CASE cleaner' = CleanerIdle
  <2>1. 0 \in 0 .. MaxJobs
    BY ExportAssumption
  <2>2. cleaner' \in Cleaner /\ cleaner'.todo = {} /\ cleaner'.pc = "idle"
    BY <1>10, <2>1 DEF CleanerIdle, Cleaner
  <2> QED BY <2>2 DEF GoodCleaner
<1>11. CASE CleanerStep \/ CrashCleaner
  BY <1>3, <1>4, <1>5, <1>6, <1>7, <1>8, <1>9, <1>10, <1>11
  DEF CleanerStep, CrashCleaner, CleanupEnd, ReconcileArchive, ReconcileTemporary
<1> QED
  BY <1>3, <1>11
  DEF Next, vars, Create, CancelActive, RemoveEnded, SetAccess, PurgeGroup, Tick, WorkerStep, Crash,
      FailExhaustedAttempt, ClaimNext, CreateTemporary, UpdateProgress, GenerationFails, Publish,
      CompleteOwned, CompleteLost, FailClaim, DispatchPending, ExportCompleted, Acknowledge, Restart

LEMMA Ages ==
  /\ NoFile \in Age /\ 0 \in Age
  /\ \A age \in Age : Older(age) \in Age
BY ExportAssumption DEF Age, NoFile, Older

LEMMA FilesKept ==
  ASSUME Lasting, [Next]_vars
  PROVE  Files'
<1>1. access \in [Owners -> {"granted", "revoked", "purged"}] /\ zips \in [Names -> Age]
      /\ temps \in [Names -> Age]
  BY DEF Lasting, Files
<1>2. notices' \subseteq Jobs \X Completed
  BY NoticesKept
<1>3. access' \in [Owners -> {"granted", "revoked", "purged"}]
  <2>1. UNCHANGED access \/ \E o \in Owners, next \in {"granted", "revoked", "purged"} :
            access' = [access EXCEPT ![o] = next]
    BY DEF Next, vars, Create, CancelActive, RemoveEnded, SetAccess, PurgeGroup, CleanerStep, CrashCleaner,
           CleanupStart, CleanupDecide, CleanupCommit, CleanupRemove, CleanupForget, CleanupRetain,
           ReconcileArchive, ReconcileTemporary, CleanupEnd, Tick, WorkerStep, Crash, FailExhaustedAttempt,
           ClaimNext, CreateTemporary, UpdateProgress, GenerationFails, Publish, CompleteOwned, CompleteLost,
           FailClaim, DispatchPending, ExportCompleted, Acknowledge, Restart
  <2> QED BY <1>1, <2>1
<1>4. zips' \in [Names -> Age]
  <2>1. CASE Tick
    BY <1>1, <2>1, Ages DEF Tick
  <2>2. CASE \E j \in Jobs, committed \in BOOLEAN : RemoveEnded(j, committed)
    BY <1>1, <2>2, Ages DEF RemoveEnded
  <2>3. ASSUME NEW w \in Workers, Publish(w) PROVE zips' \in [Names -> Age]
    <3>1. <<workers[w].job, workers[w].token>> \in Names
      BY <2>3 DEF Lasting, Crew, GoodWorker, Working, Publish, Names
    <3>2. temps[<<workers[w].job, workers[w].token>>] \in Age
      BY <1>1, <3>1
    <3> QED BY <1>1, <2>3, <3>2 DEF Publish
  <2>4. CASE UNCHANGED zips \/ \E n : zips' = [zips EXCEPT ![n] = NoFile]
    BY <1>1, <2>4, Ages
  <2> QED
    BY <2>1, <2>2, <2>3, <2>4
    DEF Next, vars, Create, CancelActive, SetAccess, PurgeGroup, CleanerStep, CrashCleaner,
        CleanupStart, CleanupDecide, CleanupCommit, CleanupRemove, CleanupForget, CleanupRetain,
        ReconcileArchive, ReconcileTemporary, CleanupEnd, WorkerStep, Crash, FailExhaustedAttempt,
        ClaimNext, CreateTemporary, UpdateProgress, GenerationFails, CompleteOwned, CompleteLost, Discard,
        FailClaim, DispatchPending, ExportCompleted, Acknowledge, Restart
<1>5. temps' \in [Names -> Age]
  <2>1. CASE Tick
    BY <1>1, <2>1, Ages DEF Tick
  <2>2. CASE UNCHANGED temps \/ \E n : temps' = [temps EXCEPT ![n] = 0] \/ temps' = [temps EXCEPT ![n] = NoFile]
    BY <1>1, <2>2, Ages
  <2> QED
    BY <2>1, <2>2
    DEF Next, vars, Create, CancelActive, RemoveEnded, SetAccess, PurgeGroup, CleanerStep, CrashCleaner,
        CleanupStart, CleanupDecide, CleanupCommit, CleanupRemove, CleanupForget, CleanupRetain,
        ReconcileArchive, ReconcileTemporary, CleanupEnd, WorkerStep, Crash, FailExhaustedAttempt,
        ClaimNext, CreateTemporary, UpdateProgress, GenerationFails, Publish, CompleteOwned, CompleteLost,
        FailClaim, DispatchPending, ExportCompleted, Acknowledge, Restart
<1> QED BY <1>2, <1>3, <1>4, <1>5 DEF Files

-----------------------------------------------------------------------------
LEMMA LastingInit ==
  ASSUME Init
  PROVE  Lasting
<1>1. 0 \in 0 .. MaxAttempts /\ 0 \in 0 .. Lease /\ 0 \in 0 .. Retention /\ 0 \in 0 .. MaxJobs
  BY ExportAssumption
<1>2. Rows
  <2>1. \A o \in Owners :
            [status |-> "NONE", owner |-> o, attempt |-> 0, token |-> 0, lease |-> 0,
             artifact |-> NoName, expiry |-> 0, notified |-> FALSE] \in Job
    BY <1>1 DEF Job
  <2>2. jobs \in [Jobs -> Job] /\ \A j \in Jobs : jobs[j].status = "NONE" /\ jobs[j].token = 0
    BY <2>1 DEF Init
  <2> QED BY <2>2 DEF Rows, GoodRow
<1>3. \A w \in Workers : workers[w] = Idle
  BY DEF Init
<1>4. Crew
  <2>1. Idle \in Worker /\ GoodWorker(Idle)
    BY RestingWorkers DEF GoodWorker
  <2>2. workers \in [Workers -> Worker]
    BY <2>1 DEF Init
  <2> QED BY <1>3, <2>1, <2>2 DEF Crew
<1>5. Files
  BY Ages DEF Init, Files
<1>6. GoodCleaner
  BY <1>1 DEF Init, GoodCleaner, CleanerIdle, Cleaner
<1>7. \A j \in Jobs : ToldTruly(j)
  <2>1. \A j, s : ~Told(j, s)
    BY <1>3, SilentAtRest DEF Init, Told, Says
  <2> QED BY <2>1 DEF ToldTruly
<1> QED BY <1>2, <1>4, <1>5, <1>6, <1>7 DEF Lasting

LEMMA LastingNext ==
  ASSUME Lasting, [Next]_vars
  PROVE  Lasting'
<1>1. Rows'
  BY RowsKept
<1>2. Crew'
  BY <1>1, VoicesKept
<1>3. Files' /\ GoodCleaner' /\ (\A j \in Jobs : ToldTruly(j))'
  BY FilesKept, CleanerKept, ToldKept
<1> QED BY <1>1, <1>2, <1>3 DEF Lasting

\* Rows, workers, Cleanup, files and notices fit together in every state.
THEOREM ExportsFit == Spec => []Lasting
<1>1. Init => Lasting
  BY LastingInit
<1>2. Lasting /\ [Next]_vars => Lasting'
  BY LastingNext
<1> QED BY <1>1, <1>2, PTL DEF Spec

\* The last claim of a job decides its outcome, and only one outcome is told
\* (completeClaim, failClaim, ExportCompleted), for any number of jobs,
\* workers, crashes and ticks.
THEOREM LastClaimDecides == Spec => []OutcomeByLastClaim
<1>1. Lasting => OutcomeByLastClaim
  <2> SUFFICES ASSUME Lasting PROVE OutcomeByLastClaim
    OBVIOUS
  <2>1. \A j \in Jobs : jobs[j].status = "READY" => jobs[j].artifact # NoName
    BY Numbers DEF Lasting, Rows, GoodRow, ArtifactName, NoName
  <2>2. TypeOK
    BY <2>1 DEF TypeOK, Lasting, Rows, GoodRow, Crew, Files
  <2>3. \A j \in Jobs : ~({<<j, "READY">>, <<j, "FAILED">>} \subseteq notices)
    BY DEF Lasting, ToldTruly, Told
  <2>4. \A j \in Jobs : jobs[j].status = "READY" => jobs[j].artifact = ArtifactName(j, jobs[j].attempt)
    BY DEF Lasting, Rows, GoodRow
  <2> QED BY <2>2, <2>3, <2>4 DEF OutcomeByLastClaim
<1> QED BY <1>1, ExportsFit, PTL

\* No worker, however late, and no Cleanup revives an export that has ended.
THEOREM EndedForGood == Spec => EndedStaysEnded
<1>1. Lasting /\ [Next]_vars =>
          [\A j \in Jobs : jobs[j].status \in Ended =>
               \/ jobs'[j].status \in {jobs[j].status, "DELETED"}
               \/ jobs[j].status = "READY" /\ jobs'[j].status \in {"EXPIRED", "CANCELLED"}]_vars
  BY RowsKept DEF Follows, Settled
<1> QED BY <1>1, ExportsFit, PTL DEF Spec, EndedStaysEnded

-----------------------------------------------------------------------------
(***************************************************************************)
(* On a prompt host the archive of a READY job stays.  A token is held by  *)
(* one worker only and is never given out again, so a name is published    *)
(* once; and an archive is younger than the lease while its worker can     *)
(* still complete the job, so that Cleanup does not take it for stale.     *)
(***************************************************************************)
Early     == {"claimed", "generating"}
NameOf(r) == <<r.job, r.token>>

TokensFit ==
    /\ \A w \in Workers : workers[w].pc \in Working => workers[w].token <= jobs[workers[w].job].attempt
    /\ \A v, w \in Workers : v # w /\ workers[v].pc \in Working /\ workers[w].pc \in Working
                                => NameOf(workers[v]) # NameOf(workers[w])

\* A name under which nothing has been published.
Unused(n) == zips[n] = NoFile /\ n \notin cleaner.stale

NamesUnused ==
    /\ \A j \in Jobs, u \in Attempts : u > jobs[j].attempt => Unused(<<j, u>>)
    /\ \A w \in Workers : workers[w].pc \in Early => Unused(NameOf(workers[w]))

InTime(r) ==
    /\ r.pc \in Early => r.left <= GenerationTimeout
    /\ r.pc = "generating" /\ r.left > 0 => temps[NameOf(r)] + r.left <= GenerationTimeout
    /\ r.pc = "published" => r.left <= CommitDelay

CrewInTime == \A w \in Workers : InTime(workers[w])

PublishedFresh ==
    \A w \in Workers : workers[w].pc = "published" /\ Owns(w) =>
        /\ zips[NameOf(workers[w])] # NoFile
        /\ zips[NameOf(workers[w])] + workers[w].left < GenerationTimeout + CommitDelay
        /\ NameOf(workers[w]) \notin cleaner.stale

\* What the reconciliation of Cleanup does not remove.
Spared(n) == cleaner.pc = "reconcile" => n \in cleaner.retained \/ n \notin cleaner.stale

ReadySpared ==
    \A j \in Jobs : jobs[j].status = "READY" /\ j \notin halfRemoved =>
        zips[jobs[j].artifact] # NoFile /\ Spared(jobs[j].artifact)

OwnName(j, n) == n = NoName \/ \E u \in Attempts : n = <<j, u>>

RowNames     == \A j \in Jobs : OwnName(j, jobs[j].artifact)
CleanerNames ==
    /\ \A j \in Jobs, n \in Names : <<j, n>> \in cleaner.todo => OwnName(j, n)
    /\ cleaner.pc \in {"commit", "remove"} => OwnName(cleaner.job, cleaner.name)

ArchivesSafe ==
    TokensFit /\ NamesUnused /\ CrewInTime /\ PublishedFresh /\ ReadySpared /\ RowNames /\ CleanerNames

-----------------------------------------------------------------------------
(***************************************************************************)
(* What a step may do to a row, a worker, a file and Cleanup.              *)
(***************************************************************************)
RowMoves(row, next) ==
    /\ next.attempt = row.attempt /\ next.artifact \in {row.artifact, NoName}
    /\ next.status = "RUNNING" => row.status = "RUNNING" /\ next.token = row.token
    /\ next.status = "READY" => row.status = "READY"

Claims(w, i) ==
    /\ jobs[i].status # "READY" /\ jobs[i].attempt < MaxAttempts
    /\ workers[w].pc = "idle" /\ workers' = [workers EXCEPT ![w] = At("claimed", i, jobs[i].attempt + 1, GenerationTimeout)]
    /\ jobs'[i].status = "RUNNING" /\ jobs'[i].attempt = jobs[i].attempt + 1
    /\ jobs'[i].token = jobs[i].attempt + 1 /\ jobs'[i].artifact = jobs[i].artifact
    /\ UNCHANGED <<zips, temps, cleaner>>

Finishes(w, i) ==
    /\ workers[w].pc = "published" /\ Owns(w) /\ workers[w].job = i
    /\ jobs'[i].status = "READY" /\ jobs'[i].artifact = NameOf(workers[w]) /\ jobs'[i].attempt = jobs[i].attempt
    /\ UNCHANGED <<zips, cleaner>>

RowsMove ==
    \A i \in Jobs : RowMoves(jobs[i], jobs'[i]) \/ (\E w \in Workers : Claims(w, i)) \/ \E w \in Workers : Finishes(w, i)

LEMMA OneRowMoves ==
  ASSUME Lasting, NEW j \in Jobs, NEW row, RowMoves(jobs[j], row), jobs' = [jobs EXCEPT ![j] = row]
  PROVE  RowsMove
<1>1. jobs \in [Jobs -> Job]
  BY DEF Lasting, Rows
<1>2. jobs'[j] = row /\ \A i \in Jobs : i # j => jobs'[i] = jobs[i]
  BY <1>1
<1>3. \A i \in Jobs : RowMoves(jobs[i], jobs[i])
  BY DEF RowMoves
<1>4. \A i \in Jobs : RowMoves(jobs[i], jobs'[i])
  BY <1>2, <1>3, Zenon
<1> QED BY <1>4 DEF RowsMove

LEMMA SameRowsMove ==
  ASSUME Lasting, UNCHANGED jobs
  PROVE  RowsMove
BY DEF RowsMove, RowMoves

\* An active job ends, or a row is deleted.
LEMMA EndingMoves ==
  ASSUME NEW row \in Job, NEW s \in {"FAILED", "CANCELLED"}
  PROVE  RowMoves(row, Ending(row, s)) /\ RowMoves(row, Gone(row))
BY DEF RowMoves, Ending, Gone, Job

LEMMA RequesterMoves ==
  ASSUME Lasting,
         \/ \E j \in Jobs : Create(j) \/ CancelActive(j)
         \/ \E j \in Jobs, committed \in BOOLEAN : RemoveEnded(j, committed)
         \/ \E o \in Owners : SetAccess(o, "granted") \/ SetAccess(o, "revoked") \/ PurgeGroup(o)
  PROVE  RowsMove
<1>1. \A j \in Jobs : jobs[j] \in Job
  BY DEF Lasting, Rows
<1>2. CASE UNCHANGED jobs
  BY <1>2, SameRowsMove
<1>3. ASSUME NEW j \in Jobs, Create(j) PROVE RowsMove
  <2> DEFINE row == [jobs[j] EXCEPT !.status = "QUEUED"]
  <2>1. RowMoves(jobs[j], row)
    BY <1>1 DEF RowMoves, Job
  <2>2. jobs' = [jobs EXCEPT ![j] = row]
    BY <1>3 DEF Create
  <2> QED BY <2>1, <2>2, OneRowMoves
<1>4. ASSUME NEW j \in Jobs, CancelActive(j) PROVE RowsMove
  <2>1. RowMoves(jobs[j], Ending(jobs[j], "CANCELLED")) /\ jobs' = [jobs EXCEPT ![j] = Ending(jobs[j], "CANCELLED")]
    BY <1>1, <1>4, EndingMoves DEF CancelActive
  <2> QED BY <2>1, OneRowMoves
<1>5. ASSUME NEW j \in Jobs, NEW committed \in BOOLEAN, RemoveEnded(j, committed) PROVE RowsMove
  <2>1. RowMoves(jobs[j], Gone(jobs[j])) /\ (UNCHANGED jobs \/ jobs' = [jobs EXCEPT ![j] = Gone(jobs[j])])
    BY <1>1, <1>5, EndingMoves DEF RemoveEnded
  <2> QED BY <1>2, <2>1, OneRowMoves
<1>6. ASSUME NEW o \in Owners, PurgeGroup(o) PROVE RowsMove
  <2>1. \A j \in Jobs : jobs'[j] = Gone(jobs[j]) \/ jobs'[j] = jobs[j]
    BY <1>6 DEF PurgeGroup
  <2>2. \A j \in Jobs : RowMoves(jobs[j], Gone(jobs[j])) /\ RowMoves(jobs[j], jobs[j])
    BY <1>1, EndingMoves DEF RowMoves
  <2>3. \A j \in Jobs : RowMoves(jobs[j], jobs'[j])
    BY <2>1, <2>2, Zenon
  <2> QED BY <2>3 DEF RowsMove
<1> QED BY <1>2, <1>3, <1>4, <1>5, <1>6 DEF SetAccess

\* A claim that is granted.
LEMMA ClaimedRow ==
  ASSUME Lasting, NEW w \in Workers, ClaimNext(w), workers' # workers
  PROVE  \E j \in Jobs : Claims(w, j) /\ \A i \in Jobs : i # j => jobs'[i] = jobs[i]
<1> DEFINE claimable == {i \in Jobs : Claimable(i)}
           j         == FirstOf(claimable)
           token     == jobs[j].attempt + 1
<1>1. j \in Jobs /\ Claimable(j)
  BY FirstJob DEF ClaimNext
<1>2. /\ jobs' = [jobs EXCEPT ![j].status = "RUNNING", ![j].attempt = token, ![j].token = token, ![j].lease = Lease]
      /\ Step(w, At("claimed", j, token, GenerationTimeout))
      /\ workers[w].pc = "idle" /\ UNCHANGED <<zips, temps, cleaner>>
  BY DEF ClaimNext
<1> HIDE DEF j
<1>3. jobs[j] \in Job /\ jobs[j].status # "READY" /\ jobs[j].attempt < MaxAttempts
  BY <1>1 DEF Lasting, Rows, Claimable
<1>4. jobs'[j] = [jobs[j] EXCEPT !.status = "RUNNING", !.attempt = token, !.token = token, !.lease = Lease]
      /\ \A i \in Jobs : i # j => jobs'[i] = jobs[i]
  BY <1>1, <1>2 DEF Lasting, Rows
<1>5. /\ jobs'[j].status = "RUNNING" /\ jobs'[j].attempt = token /\ jobs'[j].token = token
      /\ jobs'[j].artifact = jobs[j].artifact
  BY <1>3, <1>4 DEF Job
<1>6. workers' = [workers EXCEPT ![w] = At("claimed", j, token, GenerationTimeout)]
  BY <1>2 DEF Step
<1>7. Claims(w, j)
  BY <1>2, <1>3, <1>5, <1>6, Zenon DEF Claims
<1> QED BY <1>1, <1>4, <1>7

LEMMA ClaimMoves ==
  ASSUME Lasting, NEW w \in Workers, FailExhaustedAttempt(w) \/ ClaimNext(w)
  PROVE  RowsMove
<1>1. jobs \in [Jobs -> Job]
  BY DEF Lasting, Rows
<1>2. CASE FailExhaustedAttempt(w)
  <2> DEFINE exhausted == {i \in Jobs : Exhausted(i)}
             j         == FirstOf(exhausted)
  <2>1. j \in Jobs
    BY <1>2, FirstJob DEF FailExhaustedAttempt
  <2>2. jobs' = [jobs EXCEPT ![j] = Ending(jobs[j], "FAILED")]
    BY <1>2 DEF FailExhaustedAttempt
  <2> HIDE DEF j
  <2>3. jobs[j] \in Job
    BY <1>1, <2>1
  <2> QED BY <2>1, <2>2, <2>3, EndingMoves, OneRowMoves
<1>3. CASE ClaimNext(w)
  <2>1. CASE UNCHANGED workers
    <3> DEFINE claimable == {i \in Jobs : Claimable(i)}
               j         == FirstOf(claimable)
               r         == At("claimed", j, jobs[j].attempt + 1, GenerationTimeout)
    <3>1. j \in Jobs
      BY <1>3, FirstJob DEF ClaimNext
    <3>2. jobs' = [jobs EXCEPT ![j] = Ending(jobs[j], "CANCELLED")] \/ Step(w, r)
      BY <1>3 DEF ClaimNext
    <3>3. r.pc = "claimed" /\ workers[w].pc = "idle"
      BY <1>3 DEF ClaimNext, At
    <3> HIDE DEF j, r
    <3>4. ~Step(w, r)
      BY <2>1, <3>3 DEF Step, Lasting, Crew
    <3> QED BY <1>1, <3>1, <3>2, <3>4, EndingMoves, OneRowMoves
  <2>2. CASE workers' # workers
    <3>1. PICK j \in Jobs : Claims(w, j) /\ \A i \in Jobs : i # j => jobs'[i] = jobs[i]
      BY <1>3, <2>2, ClaimedRow
    <3>2. \A i \in Jobs : RowMoves(jobs[i], jobs[i])
      BY DEF RowMoves
    <3> QED BY <3>1, <3>2, Zenon DEF RowsMove
  <2> QED BY <2>1, <2>2
<1> QED BY <1>2, <1>3

LEMMA WorkMoves ==
  ASSUME Lasting, NEW w \in Workers,
         UpdateProgress(w) \/ CompleteOwned(w) \/ FailClaim(w) \/ Acknowledge(w)
  PROVE  RowsMove
<1> DEFINE j == workers[w].job
<1>1. jobs \in [Jobs -> Job]
  BY DEF Lasting, Rows
<1>2. j \in Jobs /\ jobs[j] \in Job
  BY <1>1 DEF Lasting, Crew, GoodWorker, Working, Telling, UpdateProgress, CompleteOwned, FailClaim, Acknowledge
<1>3. CASE UNCHANGED jobs
  BY <1>3, SameRowsMove
<1>4. ASSUME NEW s \in {"FAILED", "CANCELLED"}, jobs' = [jobs EXCEPT ![j] = Ending(jobs[j], s)] PROVE RowsMove
  BY <1>2, <1>4, EndingMoves, OneRowMoves
<1>5. CASE UpdateProgress(w)
  <2>1. CASE jobs' = [jobs EXCEPT ![j].lease = Lease]
    <3> DEFINE row == [jobs[j] EXCEPT !.lease = Lease]
    <3>1. RowMoves(jobs[j], row) /\ jobs' = [jobs EXCEPT ![j] = row]
      BY <1>2, <2>1 DEF RowMoves, Job
    <3> QED BY <1>2, <3>1, OneRowMoves
  <2> QED BY <1>3, <1>5, <2>1 DEF UpdateProgress
<1>6. CASE CompleteOwned(w)
  <2>1. CASE /\ jobs' = [jobs EXCEPT ![j] = [Ending(jobs[j], "READY") EXCEPT
                              !.artifact = ArtifactName(j, workers[w].token), !.expiry = Retention]]
             /\ UNCHANGED zips
    <3> DEFINE row == [Ending(jobs[j], "READY") EXCEPT
                          !.artifact = ArtifactName(j, workers[w].token), !.expiry = Retention]
    <3>1. row.status = "READY" /\ row.artifact = ArtifactName(j, workers[w].token) /\ row.attempt = jobs[j].attempt
      BY <1>2 DEF Job, Ending
    <3>2. jobs'[j] = row /\ \A i \in Jobs : i # j => jobs'[i] = jobs[i]
      BY <1>1, <1>2, <2>1
    <3> HIDE DEF row
    <3>3. Finishes(w, j)
      BY <1>6, <2>1, <3>1, <3>2 DEF CompleteOwned, Finishes, ArtifactName, NameOf
    <3>4. \A i \in Jobs : RowMoves(jobs[i], jobs[i])
      BY DEF RowMoves
    <3> HIDE DEF j
    <3> QED BY <3>2, <3>3, <3>4, Zenon DEF RowsMove
  <2>2. \/ jobs' = [jobs EXCEPT ![j] = Ending(jobs[j], "CANCELLED")]
        \/ /\ jobs' = [jobs EXCEPT ![j] = [Ending(jobs[j], "READY") EXCEPT
                            !.artifact = ArtifactName(j, workers[w].token), !.expiry = Retention]]
           /\ UNCHANGED zips
    BY <1>6 DEF CompleteOwned
  <2> QED BY <1>4, <2>1, <2>2
<1>7. CASE FailClaim(w)
  <2>1. UNCHANGED jobs \/ jobs' = [jobs EXCEPT ![j] = Ending(jobs[j], "FAILED")]
    BY <1>7 DEF FailClaim
  <2> QED BY <1>3, <1>4, <2>1
<1>8. CASE Acknowledge(w)
  <2> DEFINE row == [jobs[j] EXCEPT !.notified = @ \/ jobs[j].status = workers[w].status]
  <2>1. RowMoves(jobs[j], row) /\ jobs' = [jobs EXCEPT ![j] = row]
    BY <1>2, <1>8 DEF RowMoves, Job, Acknowledge
  <2> QED BY <1>2, <2>1, OneRowMoves
<1> QED BY <1>5, <1>6, <1>7, <1>8

LEMMA CleanupMoves ==
  ASSUME Lasting, CleanupCommit \/ CleanupForget
  PROVE  RowsMove
<1> DEFINE j == cleaner.job
<1>1. j \in Jobs /\ jobs[j] \in Job
  BY DEF Lasting, Rows, GoodCleaner, CleanupCommit, CleanupForget
<1>2. CASE CleanupCommit
  <2>1. CASE jobs' = [jobs EXCEPT ![j].status = cleaner.status, ![j].expiry = 0]
    <3> DEFINE row == [jobs[j] EXCEPT !.status = cleaner.status, !.expiry = 0]
    <3>1. cleaner.status \in {"EXPIRED", "CANCELLED"}
      BY <1>2 DEF Lasting, GoodCleaner, Cleaner, CleanupCommit
    <3>2. RowMoves(jobs[j], row) /\ jobs' = [jobs EXCEPT ![j] = row]
      BY <1>1, <2>1, <3>1 DEF RowMoves, Job
    <3> QED BY <1>1, <3>2, OneRowMoves
  <2> QED BY <1>2, <2>1, SameRowsMove DEF CleanupCommit
<1>3. CASE CleanupForget
  <2> DEFINE name == IF jobs[j].artifact = cleaner.name THEN NoName ELSE jobs[j].artifact
             row  == [jobs[j] EXCEPT !.artifact = name]
  <2>1. RowMoves(jobs[j], row) /\ jobs' = [jobs EXCEPT ![j] = row]
    BY <1>1, <1>3 DEF RowMoves, Job, CleanupForget
  <2> QED BY <1>1, <2>1, OneRowMoves
<1> QED BY <1>2, <1>3

LEMMA RowsMoved ==
  ASSUME Lasting, [Next]_vars
  PROVE  RowsMove
<1>1. CASE UNCHANGED jobs
  BY <1>1, SameRowsMove
<1>2. CASE \/ \E j \in Jobs : Create(j) \/ CancelActive(j)
           \/ \E j \in Jobs, committed \in BOOLEAN : RemoveEnded(j, committed)
           \/ \E o \in Owners : SetAccess(o, "granted") \/ SetAccess(o, "revoked") \/ PurgeGroup(o)
  BY <1>2, RequesterMoves
<1>3. ASSUME NEW w \in Workers, WorkerStep(w) \/ Crash(w) PROVE RowsMove
  <2>1. CASE FailExhaustedAttempt(w) \/ ClaimNext(w)
    BY <2>1, ClaimMoves
  <2>2. CASE UpdateProgress(w) \/ CompleteOwned(w) \/ FailClaim(w) \/ Acknowledge(w)
    BY <2>2, WorkMoves
  <2> QED
    BY <1>1, <1>3, <2>1, <2>2
    DEF WorkerStep, Crash, CreateTemporary, GenerationFails, Publish, CompleteLost, DispatchPending,
        ExportCompleted, Restart
<1>4. CASE CleanerStep \/ CrashCleaner
  <2>1. CASE CleanupCommit \/ CleanupForget
    BY <2>1, CleanupMoves
  <2> QED
    BY <1>1, <1>4, <2>1
    DEF CleanerStep, CrashCleaner, CleanupStart, CleanupDecide, CleanupRemove, CleanupRetain,
        ReconcileArchive, ReconcileTemporary, CleanupEnd
<1>5. CASE Tick
  <2>1. ASSUME NEW i \in Jobs PROVE RowMoves(jobs[i], jobs'[i])
    <3>1. jobs[i] \in Job /\ jobs'[i] = [jobs[i] EXCEPT !.lease = Less(jobs[i].lease), !.expiry = Less(jobs[i].expiry)]
      BY <1>5 DEF Lasting, Rows, Tick
    <3> QED BY <3>1 DEF RowMoves, Job
  <2> QED BY <2>1 DEF RowsMove
<1>6. CASE UNCHANGED vars
  BY <1>1, <1>6 DEF vars
<1> QED BY <1>2, <1>3, <1>4, <1>5, <1>6 DEF Next

\* A worker goes on without a claim or a publication.
MovesOn(r, s) ==
    s.pc \in Working =>
        /\ r.pc \in Working /\ s.job = r.job /\ s.token = r.token /\ s.left = r.left
        /\ s.pc \in Early => r.pc \in Early
        /\ s.pc = "generating" => r.pc = "generating" \/ temps'[NameOf(s)] = 0
        /\ s.pc = "published" => r.pc = "published"

CrewMoves ==
    \A w \in Workers : \/ MovesOn(workers[w], workers'[w])
                       \/ \E i \in Jobs : Claims(w, i)
                       \/ Publish(w)

LEMMA OneMovesOn ==
  ASSUME Crew, NEW w \in Workers, NEW r, Step(w, r), MovesOn(workers[w], r)
  PROVE  CrewMoves
<1>1. workers'[w] = r /\ \A v \in Workers : v # w => workers'[v] = workers[v]
  BY DEF Crew, Step
<1>2. \A v \in Workers : MovesOn(workers[v], workers[v])
  BY DEF MovesOn
<1>3. \A v \in Workers : MovesOn(workers[v], workers'[v])
  BY <1>1, <1>2, Zenon
<1> QED BY <1>3 DEF CrewMoves

LEMMA SameMovesOn ==
  ASSUME UNCHANGED workers
  PROVE  CrewMoves
BY DEF CrewMoves, MovesOn

LEMMA AtRestMovesOn ==
  ASSUME Crew, NEW w \in Workers, NEW r, Step(w, r), r.pc \notin Working
  PROVE  CrewMoves
BY OneMovesOn DEF MovesOn

LEMMA CrewMoved ==
  ASSUME Lasting, [Next]_vars, ~Tick
  PROVE  CrewMoves
<1>1. Crew /\ workers \in [Workers -> Worker] /\ jobs \in [Jobs -> Job]
  BY DEF Lasting, Crew, Rows
<1>2. CASE UNCHANGED workers
  BY <1>2, SameMovesOn
<1>3. ASSUME NEW w \in Workers, WorkerStep(w) \/ Crash(w) PROVE CrewMoves
  <2>1. /\ Idle.pc \notin Working /\ At("down", 0, 0, 0).pc \notin Working
        /\ At("exited", 0, 0, 0).pc \notin Working /\ \A j, s : Notifying(j, s).pc \notin Working
    BY DEF Idle, At, Notifying, Working
  <2>2. ASSUME \/ Step(w, Idle) \/ Step(w, At("down", 0, 0, 0)) \/ Step(w, Returned(w))
               \/ \E j, s : Step(w, Notifying(j, s))
        PROVE  CrewMoves
    BY <1>1, <2>1, <2>2, AtRestMovesOn DEF Returned
  <2>3. CASE FailExhaustedAttempt(w) \/ Acknowledge(w) \/ Restart(w) \/ Crash(w)
    BY <2>2, <2>3 DEF FailExhaustedAttempt, Acknowledge, Restart, Crash
  <2>4. CASE CompleteOwned(w) \/ CompleteLost(w)
    BY <2>2, <2>4 DEF CompleteOwned, CompleteLost
  <2>5. CASE FailClaim(w)
    BY <2>2, <2>5 DEF FailClaim
  <2>6. CASE \E j \in Jobs : DispatchPending(w, j)
    BY <2>2, <2>6 DEF DispatchPending
  <2>7. CASE ClaimNext(w)
    <3>1. CASE workers' # workers
      <4>1. PICK i \in Jobs : Claims(w, i)
        BY <2>7, <3>1, ClaimedRow
      <4>2. \A v \in Workers : v # w => workers'[v] = workers[v]
        BY <1>1, <4>1 DEF Claims
      <4>3. \A v \in Workers : MovesOn(workers[v], workers[v])
        BY DEF MovesOn
      <4> QED BY <4>1, <4>2, <4>3, Zenon DEF CrewMoves
    <3> QED BY <1>2, <3>1
  <2>8. CASE CreateTemporary(w)
    <3> DEFINE r == [workers[w] EXCEPT !.pc = "generating"]
    <3>1. workers[w].pc = "claimed" /\ Step(w, r) /\ temps' = [temps EXCEPT ![NameOf(workers[w])] = 0]
      BY <2>8 DEF CreateTemporary, NameOf
    <3>2. NameOf(workers[w]) \in Names
      BY <1>1, <3>1 DEF Crew, GoodWorker, Working, NameOf, Names
    <3>3. temps'[NameOf(workers[w])] = 0
      BY <3>1, <3>2 DEF Lasting, Files
    <3>4. r.pc = "generating" /\ r.job = workers[w].job /\ r.token = workers[w].token /\ r.left = workers[w].left
      BY <1>1 DEF Worker
    <3> HIDE DEF r
    <3>5. MovesOn(workers[w], r)
      BY <3>1, <3>3, <3>4 DEF MovesOn, NameOf, Working, Early
    <3> QED BY <1>1, <3>1, <3>5, OneMovesOn
  <2>9. CASE UpdateProgress(w) \/ GenerationFails(w)
    <3> DEFINE r == [workers[w] EXCEPT !.pc = "failing"]
    <3>1. UNCHANGED workers \/ (workers[w].pc \in Early /\ Step(w, r))
      BY <2>9 DEF UpdateProgress, GenerationFails, Early
    <3>2. r.pc = "failing" /\ r.job = workers[w].job /\ r.token = workers[w].token /\ r.left = workers[w].left
      BY <1>1 DEF Worker
    <3> HIDE DEF r
    <3>3. workers[w].pc \in Early => MovesOn(workers[w], r)
      BY <3>2 DEF MovesOn, Early, Working
    <3> QED BY <1>1, <1>2, <3>1, <3>3, OneMovesOn
  <2>10. CASE Publish(w)
    <3>1. \A v \in Workers : v # w => workers'[v] = workers[v]
      BY <1>1, <2>10 DEF Publish, Step
    <3>2. \A v \in Workers : MovesOn(workers[v], workers[v])
      BY DEF MovesOn
    <3> QED BY <2>10, <3>1, <3>2, Zenon DEF CrewMoves
  <2>11. CASE \E member \in BOOLEAN : ExportCompleted(w, member)
    <3> DEFINE r == [workers[w] EXCEPT !.pc = "acknowledge"]
    <3>1. Step(w, r) /\ r.pc \notin Working
      BY <1>1, <2>11 DEF ExportCompleted, Worker, Working
    <3> QED BY <1>1, <3>1, AtRestMovesOn
  <2> QED BY <1>3, <2>3, <2>4, <2>5, <2>6, <2>7, <2>8, <2>9, <2>10, <2>11 DEF WorkerStep
<1> QED
  BY <1>2, <1>3
  DEF Next, vars, Create, CancelActive, RemoveEnded, SetAccess, PurgeGroup, CleanerStep, CrashCleaner,
      CleanupStart, CleanupDecide, CleanupCommit, CleanupRemove, CleanupForget, CleanupRetain,
      ReconcileArchive, ReconcileTemporary, CleanupEnd

\* A step that deletes the archive n.
Removes(n) ==
    \/ \E j \in Jobs : /\ n = jobs[j].artifact /\ jobs[j].status \in Ended
                       /\ jobs'[j].status = "DELETED" \/ j \in halfRemoved'
    \/ \E w \in Workers : /\ workers[w].pc = "published" /\ n = NameOf(workers[w])
                          /\ jobs'[workers[w].job].status # "READY" /\ workers'[w].pc # "published"
    \/ cleaner.pc = "remove" /\ n = cleaner.name /\ UNCHANGED <<jobs, workers>>
    \/ cleaner.pc = "reconcile" /\ Reconcilable(n) /\ UNCHANGED <<jobs, workers, cleaner>>

ZipsMove ==
    \A n \in Names : \/ zips'[n] = zips[n]
                     \/ \E w \in Workers : Publish(w) /\ n = NameOf(workers[w])
                     \/ zips'[n] = NoFile /\ Removes(n)

LEMMA DiscardMoves ==
  ASSUME Lasting, NEW w \in Workers, CompleteOwned(w) \/ CompleteLost(w)
  PROVE  ZipsMove
<1> DEFINE j == workers[w].job
<1>1. /\ zips \in [Names -> Age] /\ jobs \in [Jobs -> Job] /\ workers \in [Workers -> Worker]
      /\ workers[w].pc = "published" /\ j \in Jobs
  BY DEF Lasting, Files, Rows, Crew, GoodWorker, Working, CompleteOwned, CompleteLost
<1>2. CASE UNCHANGED zips
  BY <1>2 DEF ZipsMove
<1>3. ASSUME Discard(w), jobs'[j].status # "READY", workers'[w].pc # "published" PROVE ZipsMove
  <2>1. \A n \in Names : zips'[n] = IF n = NameOf(workers[w]) THEN NoFile ELSE zips[n]
    BY <1>1, <1>3 DEF Discard, ArtifactName, NameOf
  <2>2. Removes(NameOf(workers[w]))
    BY <1>1, <1>3 DEF Removes
  <2> QED BY <2>1, <2>2 DEF ZipsMove
<1>4. Idle.pc # "published" /\ Returned(w).pc # "published"
  BY DEF Returned, Idle, At
<1>5. \A r : Step(w, r) => workers'[w] = r
  BY <1>1 DEF Step
<1>6. CASE CompleteOwned(w)
  <2>1. CASE jobs' = [jobs EXCEPT ![j] = Ending(@, "CANCELLED")] /\ Step(w, Idle) /\ Discard(w)
    <3>1. jobs'[j].status = "CANCELLED"
      BY <1>1, <2>1 DEF Ending, Job
    <3>2. workers'[w].pc # "published"
      BY <1>4, <1>5, <2>1
    <3> QED BY <1>3, <2>1, <3>1, <3>2
  <2> QED BY <1>2, <1>6, <2>1 DEF CompleteOwned
<1>7. CASE CompleteLost(w)
  <2>1. CASE jobs[j].status # "READY" /\ Step(w, Returned(w)) /\ Discard(w) /\ UNCHANGED jobs
    <3>1. workers'[w].pc # "published"
      BY <1>4, <1>5, <2>1
    <3> QED BY <1>3, <2>1, <3>1
  <2> QED BY <1>2, <1>7, <2>1 DEF CompleteLost
<1> QED BY <1>6, <1>7

LEMMA ZipsMoved ==
  ASSUME Lasting, [Next]_vars, ~Tick
  PROVE  ZipsMove
<1>1. zips \in [Names -> Age] /\ temps \in [Names -> Age] /\ jobs \in [Jobs -> Job]
  BY DEF Lasting, Files, Rows
<1>2. CASE UNCHANGED zips
  BY <1>2 DEF ZipsMove
<1>3. ASSUME NEW j \in Jobs, NEW committed \in BOOLEAN, RemoveEnded(j, committed) PROVE ZipsMove
  <2>1. /\ jobs[j].status \in Ended
        /\ \A n \in Names : zips'[n] = IF n = jobs[j].artifact THEN NoFile ELSE zips[n]
    BY <1>3 DEF RemoveEnded
  <2>2. jobs'[j].status = "DELETED" \/ j \in halfRemoved'
    <3>1. CASE jobs' = [jobs EXCEPT ![j] = Gone(@)]
      BY <1>1, <3>1 DEF Gone, Job
    <3> QED BY <1>3, <3>1 DEF RemoveEnded
  <2>3. Removes(jobs[j].artifact)
    BY <2>1, <2>2 DEF Removes
  <2> QED BY <2>1, <2>3 DEF ZipsMove
<1>4. ASSUME NEW w \in Workers, Publish(w) PROVE ZipsMove
  <2>1. \A n \in Names : n # NameOf(workers[w]) => zips'[n] = zips[n]
    BY <1>1, <1>4 DEF Publish, ArtifactName, NameOf
  <2> QED BY <1>4, <2>1 DEF ZipsMove
<1>5. CASE CleanupRemove
  <2>1. /\ cleaner.pc = "remove" /\ UNCHANGED <<jobs, workers>>
        /\ \A n \in Names : zips'[n] = IF n = cleaner.name THEN NoFile ELSE zips[n]
    BY <1>1, <1>5 DEF CleanupRemove
  <2>2. Removes(cleaner.name)
    BY <2>1 DEF Removes
  <2> QED BY <2>1, <2>2 DEF ZipsMove
<1>6. ASSUME NEW m \in Names, ReconcileArchive(m) PROVE ZipsMove
  <2>1. /\ cleaner.pc = "reconcile" /\ Reconcilable(m) /\ UNCHANGED <<jobs, workers, cleaner>>
        /\ \A n \in Names : zips'[n] = IF n = m THEN NoFile ELSE zips[n]
    BY <1>1, <1>6 DEF ReconcileArchive
  <2>2. Removes(m)
    BY <2>1 DEF Removes
  <2> QED BY <2>1, <2>2 DEF ZipsMove
<1> QED
  BY <1>2, <1>3, <1>4, <1>5, <1>6, DiscardMoves
  DEF Next, vars, Create, CancelActive, SetAccess, PurgeGroup, CleanerStep, CrashCleaner,
      CleanupStart, CleanupDecide, CleanupCommit, CleanupForget, CleanupRetain, ReconcileTemporary,
      CleanupEnd, WorkerStep, Crash, FailExhaustedAttempt, ClaimNext, CreateTemporary, UpdateProgress,
      GenerationFails, FailClaim, DispatchPending, ExportCompleted, Acknowledge, Restart

TempsMove == \A n \in Names : temps'[n] \in {temps[n], NoFile, 0}

LEMMA TempsMoved ==
  ASSUME Lasting, [Next]_vars, ~Tick
  PROVE  TempsMove
<1>1. temps \in [Names -> Age]
  BY DEF Lasting, Files
<1>2. CASE UNCHANGED temps
  BY <1>2 DEF TempsMove
<1>3. ASSUME NEW m, NEW age \in {NoFile, 0}, temps' = [temps EXCEPT ![m] = age] PROVE TempsMove
  BY <1>1, <1>3 DEF TempsMove
<1>4. ASSUME NEW w \in Workers, CreateTemporary(w) \/ UpdateProgress(w) \/ Publish(w) \/ FailClaim(w)
      PROVE  TempsMove
  BY <1>3, <1>4 DEF CreateTemporary, UpdateProgress, Publish, FailClaim
<1>5. ASSUME NEW m \in Names, ReconcileTemporary(m) PROVE TempsMove
  BY <1>3, <1>5 DEF ReconcileTemporary
<1> QED
  BY <1>2, <1>4, <1>5
  DEF Next, vars, Create, CancelActive, RemoveEnded, SetAccess, PurgeGroup, CleanerStep, CrashCleaner,
      CleanupStart, CleanupDecide, CleanupCommit, CleanupRemove, CleanupForget, CleanupRetain,
      ReconcileArchive, CleanupEnd, WorkerStep, Crash, FailExhaustedAttempt, ClaimNext, GenerationFails,
      CompleteOwned, CompleteLost, DispatchPending, ExportCompleted, Acknowledge, Restart

CleanerMoves ==
    /\ cleaner'.stale \subseteq cleaner.stale \/ CleanupStart
    /\ cleaner'.pc = "reconcile" => \/ UNCHANGED cleaner
                                    \/ cleaner'.retained = RetainedArtifactNames /\ UNCHANGED <<jobs, zips, halfRemoved>>
    /\ \A e \in cleaner'.todo : e \in cleaner.todo \/ (CleanupStart /\ \E j \in Jobs : e = <<j, jobs[j].artifact>>)
    /\ cleaner'.pc \in {"commit", "remove"} =>
           \/ cleaner.pc \in {"commit", "remove"} /\ cleaner'.job = cleaner.job /\ cleaner'.name = cleaner.name
           \/ <<cleaner'.job, cleaner'.name>> \in cleaner.todo

LEMMA CleanerMoved ==
  ASSUME Lasting, [Next]_vars
  PROVE  CleanerMoves
<1>1. cleaner \in Cleaner
  BY DEF Lasting, GoodCleaner
<1>2. CASE UNCHANGED cleaner
  BY <1>2 DEF CleanerMoves
<1>3. CASE CleanupStart
  BY <1>1, <1>3 DEF CleanupStart, CleanerMoves, Cleaner
<1>4. ASSUME NEW e \in cleaner.todo, CleanupDecide(e[1], e[2]) PROVE CleanerMoves
  <2>1. PICK j \in Jobs, n \in Names : e = <<j, n>>
    BY <1>1, <1>4 DEF Cleaner
  <2> DEFINE rest   == cleaner.todo \ {<<j, n>>}
             status == IF j \in cleaner.expired THEN "EXPIRED" ELSE "CANCELLED"
  <2>2. \/ cleaner' = [cleaner EXCEPT !.todo = rest]
        \/ cleaner' = [cleaner EXCEPT !.pc = "commit", !.todo = rest, !.job = j, !.name = n, !.status = status]
    BY <1>4, <2>1 DEF CleanupDecide
  <2>3. cleaner.pc = "sweep" /\ rest \subseteq cleaner.todo /\ <<j, n>> \in cleaner.todo
    BY <1>4, <2>1 DEF CleanupDecide
  <2> HIDE DEF rest, status
  <2>4. CASE cleaner' = [cleaner EXCEPT !.todo = rest]
    <3>1. cleaner'.pc = "sweep" /\ cleaner'.stale = cleaner.stale /\ cleaner'.todo = rest
      BY <1>1, <2>3, <2>4 DEF Cleaner
    <3> QED BY <2>3, <3>1 DEF CleanerMoves
  <2>5. CASE cleaner' = [cleaner EXCEPT !.pc = "commit", !.todo = rest, !.job = j, !.name = n, !.status = status]
    <3>1. cleaner'.pc = "commit" /\ cleaner'.stale = cleaner.stale /\ cleaner'.todo = rest
          /\ cleaner'.job = j /\ cleaner'.name = n
      BY <1>1, <2>3, <2>5 DEF Cleaner
    <3> QED BY <2>3, <3>1 DEF CleanerMoves
  <2> QED BY <2>2, <2>4, <2>5
<1>5. CASE CleanupCommit \/ CleanupRemove \/ CleanupForget
  BY <1>1, <1>5 DEF CleanupCommit, CleanupRemove, CleanupForget, CleanerMoves, Cleaner
<1>6. CASE CleanupRetain
  BY <1>1, <1>6 DEF CleanupRetain, CleanerMoves, Cleaner
<1>7. CASE CleanupEnd \/ CrashCleaner
  BY <1>7 DEF CleanupEnd, CrashCleaner, CleanerMoves, CleanerIdle
<1> QED
  BY <1>2, <1>3, <1>4, <1>5, <1>6, <1>7
  DEF Next, vars, Create, CancelActive, RemoveEnded, SetAccess, PurgeGroup, CleanerStep,
      ReconcileArchive, ReconcileTemporary, Tick, WorkerStep, Crash, FailExhaustedAttempt, ClaimNext,
      CreateTemporary, UpdateProgress, GenerationFails, Publish, CompleteOwned, CompleteLost, FailClaim,
      DispatchPending, ExportCompleted, Acknowledge, Restart

-----------------------------------------------------------------------------
(***************************************************************************)
(* Every step but a tick keeps archives safe.                              *)
(***************************************************************************)

\* What a worker holds after a step, it held before or has just claimed.
LEMMA NamesMoved ==
  ASSUME Lasting, [Next]_vars, ~Tick, NEW w \in Workers, workers'[w].pc \in Working
  PROVE  \/ /\ workers[w].pc \in Working /\ NameOf(workers'[w]) = NameOf(workers[w])
            /\ workers'[w].job = workers[w].job /\ workers'[w].token = workers[w].token
            /\ workers'[w].pc \in Early => workers[w].pc \in Early
         \/ \E i \in Jobs : Claims(w, i)
<1>1. workers \in [Workers -> Worker]
  BY DEF Lasting, Crew
<1>2. CASE MovesOn(workers[w], workers'[w])
  BY <1>2 DEF MovesOn, NameOf
<1>3. CASE Publish(w)
  <2>1. workers'[w] = [workers[w] EXCEPT !.pc = "published", !.left = CommitDelay] /\ workers[w].pc = "generating"
    BY <1>1, <1>3 DEF Publish, Step
  <2>2. workers'[w].pc = "published" /\ workers'[w].job = workers[w].job /\ workers'[w].token = workers[w].token
    BY <1>1, <2>1 DEF Worker
  <2> QED BY <2>1, <2>2 DEF NameOf, Working, Early
<1> QED BY <1>2, <1>3, CrewMoved DEF CrewMoves

LEMMA ClaimedWorker ==
  ASSUME Lasting, NEW w \in Workers, NEW i \in Jobs, Claims(w, i)
  PROVE  /\ workers'[w].pc = "claimed" /\ workers'[w].job = i /\ workers'[w].token = jobs[i].attempt + 1
         /\ workers'[w].left = GenerationTimeout /\ NameOf(workers'[w]) = <<i, jobs[i].attempt + 1>>
         /\ jobs[i].attempt + 1 \in Attempts
         /\ \A v \in Workers : v # w => workers'[v] = workers[v]
<1>1. workers'[w] = At("claimed", i, jobs[i].attempt + 1, GenerationTimeout)
      /\ \A v \in Workers : v # w => workers'[v] = workers[v]
  BY DEF Lasting, Crew, Claims
<1>2. jobs[i].attempt \in 0 .. MaxAttempts /\ jobs[i].attempt < MaxAttempts
  BY DEF Lasting, Rows, Job, Claims
<1>3. jobs[i].attempt + 1 \in Attempts
  BY <1>2, ExportAssumption DEF Attempts
<1> QED BY <1>1, <1>3 DEF At, NameOf

LEMMA AttemptsGrow ==
  ASSUME Lasting, [Next]_vars, NEW i \in Jobs
  PROVE  jobs[i].attempt \in Nat /\ jobs'[i].attempt \in Nat /\ jobs[i].attempt <= jobs'[i].attempt
<1>1. jobs[i].attempt \in Nat
  BY DEF Lasting, Rows, Job
<1>2. jobs'[i].attempt = jobs[i].attempt \/ jobs'[i].attempt = jobs[i].attempt + 1
  BY RowsMoved DEF RowsMove, RowMoves, Claims, Finishes
<1> QED BY <1>1, <1>2

LEMMA HeldNames ==
  ASSUME Lasting, NEW w \in Workers, workers[w].pc \in Working
  PROVE  /\ workers[w].job \in Jobs /\ workers[w].token \in Attempts /\ workers[w].token \in Nat
         /\ NameOf(workers[w]) \in Names
BY Numbers DEF Lasting, Crew, GoodWorker, NameOf, Names

LEMMA TokensKept ==
  ASSUME Lasting, ArchivesSafe, [Next]_vars, ~Tick
  PROVE  TokensFit'
<1>1. ASSUME NEW w \in Workers, workers'[w].pc \in Working
      PROVE  workers'[w].token <= jobs'[workers'[w].job].attempt
  <2>1. CASE \E i \in Jobs : Claims(w, i)
    <3>1. PICK i \in Jobs : Claims(w, i)
      BY <2>1
    <3>2. workers'[w].job = i /\ workers'[w].token = jobs[i].attempt + 1 /\ jobs'[i].attempt = jobs[i].attempt + 1
      BY <3>1, ClaimedWorker DEF Claims
    <3>3. jobs[i].attempt \in Nat
      BY AttemptsGrow
    <3> QED BY <3>2, <3>3
  <2>2. CASE workers[w].pc \in Working /\ workers'[w].job = workers[w].job /\ workers'[w].token = workers[w].token
    <3>1. workers[w].job \in Jobs /\ workers[w].token \in Nat /\ workers[w].token <= jobs[workers[w].job].attempt
      BY <2>2, HeldNames DEF ArchivesSafe, TokensFit
    <3>2. /\ jobs[workers[w].job].attempt \in Nat /\ jobs'[workers[w].job].attempt \in Nat
          /\ jobs[workers[w].job].attempt <= jobs'[workers[w].job].attempt
      BY <3>1, AttemptsGrow
    <3> QED BY <2>2, <3>1, <3>2
  <2> QED BY <1>1, <2>1, <2>2, NamesMoved
<1>2. ASSUME NEW v \in Workers, NEW w \in Workers, v # w, workers'[v].pc \in Working, workers'[w].pc \in Working,
             NEW i \in Jobs, Claims(v, i)
      PROVE  NameOf(workers'[v]) # NameOf(workers'[w])
  <2>1. NameOf(workers'[v]) = <<i, jobs[i].attempt + 1>> /\ workers'[w] = workers[w]
    BY <1>2, ClaimedWorker
  <2>2. workers[w].token \in Nat /\ workers[w].token <= jobs[workers[w].job].attempt
    BY <1>2, <2>1, HeldNames DEF ArchivesSafe, TokensFit
  <2>3. jobs[i].attempt \in Nat
    BY AttemptsGrow
  <2>4. ~(workers[w].job = i /\ workers[w].token = jobs[i].attempt + 1)
    BY <2>2, <2>3
  <2> QED BY <2>1, <2>4 DEF NameOf
<1>3. ASSUME NEW v \in Workers, NEW w \in Workers, v # w, workers'[v].pc \in Working, workers'[w].pc \in Working
      PROVE  NameOf(workers'[v]) # NameOf(workers'[w])
  <2>1. CASE \E i \in Jobs : Claims(v, i)
    BY <1>2, <1>3, <2>1
  <2>2. CASE \E i \in Jobs : Claims(w, i)
    BY <1>2, <1>3, <2>2
  <2>3. CASE ~(\E i \in Jobs : Claims(v, i)) /\ ~(\E i \in Jobs : Claims(w, i))
    <3>1. /\ workers[v].pc \in Working /\ NameOf(workers'[v]) = NameOf(workers[v])
          /\ workers[w].pc \in Working /\ NameOf(workers'[w]) = NameOf(workers[w])
      BY <1>3, <2>3, NamesMoved
    <3> QED BY <1>3, <3>1 DEF ArchivesSafe, TokensFit
  <2> QED BY <2>1, <2>2, <2>3
<1> QED BY <1>1, <1>3 DEF TokensFit, NameOf

LEMMA StaleMoved ==
  ASSUME Lasting, [Next]_vars, NEW n, n \in cleaner'.stale
  PROVE  n \in cleaner.stale \/ Stale(zips[n])
<1>1. cleaner \in Cleaner
  BY DEF Lasting, GoodCleaner
<1>2. CASE CleanupStart
  BY <1>1, <1>2 DEF CleanupStart, Cleaner
<1> QED BY <1>2, CleanerMoved DEF CleanerMoves

LEMMA UnusedKept ==
  ASSUME Lasting, [Next]_vars, ~Tick, NEW n \in Names, Unused(n),
         \A w \in Workers : Publish(w) => n # NameOf(workers[w])
  PROVE  Unused(n)'
<1>1. zips'[n] = NoFile
  BY ZipsMoved DEF ZipsMove, Unused
<1>2. ~Stale(zips[n])
  BY ExportAssumption DEF Unused, Stale, NoFile
<1> QED BY <1>1, <1>2, StaleMoved DEF Unused

LEMMA NamesUnusedKept ==
  ASSUME Lasting, ArchivesSafe, [Next]_vars, ~Tick
  PROVE  NamesUnused'
<1>1. ASSUME NEW w \in Workers, Publish(w)
      PROVE  /\ workers[w].pc \in Early /\ workers[w].pc \in Working /\ workers'[w].pc = "published"
             /\ workers[w].token <= jobs[workers[w].job].attempt
  BY <1>1 DEF Publish, Step, Early, Working, ArchivesSafe, TokensFit, Lasting, Crew, Worker
<1>2. ASSUME NEW j \in Jobs, NEW u \in Attempts, u > jobs[j].attempt PROVE Unused(<<j, u>>)'
  <2>1. <<j, u>> \in Names /\ Unused(<<j, u>>) /\ u \in Nat /\ jobs[j].attempt \in Nat
    BY <1>2, AttemptsGrow, Numbers DEF ArchivesSafe, NamesUnused, Names
  <2>2. ASSUME NEW w \in Workers, Publish(w) PROVE <<j, u>> # NameOf(workers[w])
    <3>1. workers[w].token \in Nat /\ workers[w].token <= jobs[workers[w].job].attempt
      BY <1>1, <2>2, HeldNames
    <3>2. ~(workers[w].job = j /\ workers[w].token = u)
      BY <1>2, <2>1, <3>1
    <3> QED BY <3>2 DEF NameOf
  <2> QED BY <2>1, <2>2, UnusedKept
<1>3. ASSUME NEW j \in Jobs, NEW u \in Attempts, u > jobs'[j].attempt PROVE Unused(<<j, u>>)'
  <2>1. u > jobs[j].attempt
    BY <1>3, AttemptsGrow, Numbers
  <2> QED BY <1>2, <2>1
<1>4. ASSUME NEW w \in Workers, workers'[w].pc \in Early PROVE Unused(NameOf(workers[w]))'
  <2>1. workers'[w].pc \in Working
    BY <1>4 DEF Early, Working
  <2>2. CASE \E i \in Jobs : Claims(w, i)
    <3>1. PICK i \in Jobs : Claims(w, i)
      BY <2>2
    <3>2. PICK u : u = jobs[i].attempt + 1
      OBVIOUS
    <3>3. NameOf(workers'[w]) = <<i, u>> /\ u \in Attempts
      BY <3>1, <3>2, ClaimedWorker
    <3>4. u > jobs[i].attempt
      BY <3>2, AttemptsGrow
    <3>5. Unused(<<i, u>>)'
      BY <1>2, <3>3, <3>4
    <3> QED BY <3>3, <3>5 DEF Unused, NameOf
  <2>3. CASE /\ workers[w].pc \in Working /\ NameOf(workers'[w]) = NameOf(workers[w]) /\ workers[w].pc \in Early
    <3>1. PICK n : n = NameOf(workers[w])
      OBVIOUS
    <3>2. n \in Names /\ Unused(n) /\ n = NameOf(workers'[w])
      BY <2>3, <3>1, HeldNames DEF ArchivesSafe, NamesUnused
    <3>3. ASSUME NEW v \in Workers, Publish(v) PROVE n # NameOf(workers[v])
      <4>1. v # w
        BY <1>1, <1>4, <3>3 DEF Early
      <4> QED BY <1>1, <2>3, <3>1, <3>3, <4>1 DEF ArchivesSafe, TokensFit
    <3>4. Unused(n)'
      BY <3>2, <3>3, UnusedKept
    <3> QED BY <3>2, <3>4 DEF Unused, NameOf
  <2> QED BY <1>4, <2>1, <2>2, <2>3, NamesMoved
<1> QED BY <1>3, <1>4 DEF NamesUnused

LEMMA TimesKept ==
  ASSUME Lasting, ArchivesSafe, [Next]_vars, ~Tick
  PROVE  CrewInTime'
<1> SUFFICES ASSUME NEW w \in Workers PROVE InTime(workers[w])'
  BY DEF CrewInTime
<1>1. InTime(workers[w]) /\ workers[w] \in Worker
  BY DEF ArchivesSafe, CrewInTime, Lasting, Crew
<1>2. CASE \E i \in Jobs : Claims(w, i)
  <2>1. workers'[w].pc = "claimed" /\ workers'[w].left = GenerationTimeout
    BY <1>2, ClaimedWorker
  <2> QED BY <2>1, ExportAssumption DEF InTime, Early
<1>3. CASE Publish(w)
  <2>1. workers'[w].pc = "published" /\ workers'[w].left = CommitDelay
    BY <1>3 DEF Publish, Step, Lasting, Crew, Worker
  <2> QED BY <2>1, ExportAssumption DEF InTime, Early
<1>4. CASE MovesOn(workers[w], workers'[w])
  <2>1. CASE workers'[w].pc \in {"claimed", "published"}
    <3>1. workers'[w].left = workers[w].left
          /\ (workers'[w].pc = "claimed" => workers[w].pc \in Early) /\ (workers'[w].pc = "published" => workers[w].pc = "published")
      BY <1>4, <2>1 DEF MovesOn, Early, Working
    <3> QED BY <1>1, <2>1, <3>1 DEF InTime, Early
  <2>2. CASE workers'[w].pc = "generating"
    <3>1. PICK n, a, b, k : n = NameOf(workers'[w]) /\ a = temps[n] /\ b = temps'[n] /\ k = workers'[w].left
      OBVIOUS
    <3>2. /\ workers[w].pc \in Early /\ workers[w].pc \in Working /\ k = workers[w].left /\ n = NameOf(workers[w])
          /\ workers[w].pc = "generating" \/ b = 0
      BY <1>4, <2>2, <3>1 DEF MovesOn, Early, Working, NameOf
    <3>3. n \in Names /\ k \in Nat /\ k <= GenerationTimeout
      BY <1>1, <3>2, HeldNames DEF InTime, Worker
    <3>4. b \in {a, -1, 0} /\ a \in Int
      BY <3>1, <3>3, TempsMoved, ExportAssumption DEF TempsMove, NoFile, Lasting, Files, Age
    <3>5. workers[w].pc = "generating" /\ k > 0 => a + k <= GenerationTimeout
      BY <1>1, <3>1, <3>2 DEF InTime
    <3>6. k > 0 => b + k <= GenerationTimeout
      BY <3>2, <3>3, <3>4, <3>5, ExportAssumption
    <3> QED BY <2>2, <3>1, <3>3, <3>6 DEF InTime, Early, NameOf
  <2> QED BY <2>1, <2>2 DEF InTime, Early
<1> QED BY <1>2, <1>3, <1>4, CrewMoved DEF CrewMoves

\* While its worker can still complete the job, nobody removes an archive.
LEMMA OwnedKept ==
  ASSUME Lasting, ArchivesSafe, [Next]_vars, ~Tick, NEW w \in Workers, workers'[w].pc = "published",
         Owns(w)', NEW n, n = NameOf(workers'[w]), workers[w].pc \in Working, n = NameOf(workers[w]),
         workers[w].pc = "published" => Owns(w) /\ n \notin cleaner.stale
  PROVE  ~Removes(n)
<1>1. /\ workers[w].job \in Jobs /\ workers'[w].job = workers[w].job /\ jobs'[workers[w].job].status = "RUNNING"
      /\ n = <<workers[w].job, workers[w].token>> /\ n # NoName
  BY HeldNames, Numbers DEF Owns, NameOf, NoName, Jobs
<1>2. \A j \in Jobs : OwnName(j, n) => j = workers[w].job
  BY <1>1 DEF OwnName
<1>3. ASSUME NEW j \in Jobs, n = jobs[j].artifact, jobs[j].status \in Ended PROVE FALSE
  <2>1. j = workers[w].job
    BY <1>2, <1>3 DEF ArchivesSafe, RowNames
  <2>2. Follows(jobs[j], jobs'[j])
    BY RowsKept
  <2> QED BY <1>1, <1>3, <2>1, <2>2 DEF Follows, Settled, Ended, Completed
<1>4. ASSUME NEW v \in Workers, workers[v].pc = "published", n = NameOf(workers[v]), workers'[v].pc # "published"
      PROVE  FALSE
  <2>1. v = w
    BY <1>4 DEF ArchivesSafe, TokensFit, Working
  <2> QED BY <1>4, <2>1
<1>5. ASSUME cleaner.pc = "remove", n = cleaner.name, UNCHANGED <<jobs, workers>> PROVE FALSE
  <2>1. cleaner.job \in Jobs /\ jobs[cleaner.job].status \in Settled /\ cleaner.job = workers[w].job
    BY <1>2, <1>5 DEF Lasting, GoodCleaner, ArchivesSafe, CleanerNames
  <2> QED BY <1>1, <1>5, <2>1 DEF Settled, Ended, Completed
<1>6. ASSUME cleaner.pc = "reconcile", Reconcilable(n), UNCHANGED <<jobs, workers, cleaner>> PROVE FALSE
  BY <1>6 DEF Reconcilable
<1> QED BY <1>3, <1>4, <1>5, <1>6 DEF Removes

\* An owner after a step that did not publish was the owner before.
LEMMA OwnedBefore ==
  ASSUME Lasting, ArchivesSafe, [Next]_vars, NEW w \in Workers, workers[w].pc \in Working,
         workers'[w].job = workers[w].job, workers'[w].token = workers[w].token, Owns(w)'
  PROVE  Owns(w)
<1> DEFINE j == workers[w].job
<1>1. j \in Jobs /\ workers[w].token \in Nat /\ workers[w].token <= jobs[j].attempt /\ jobs[j].attempt \in Nat
  BY HeldNames, AttemptsGrow DEF ArchivesSafe, TokensFit
<1>2. jobs'[j].status = "RUNNING" /\ jobs'[j].token = workers[w].token
  BY DEF Owns
<1> HIDE DEF j
<1>3. ~(\E v \in Workers : Claims(v, j))
  BY <1>1, <1>2 DEF Claims
<1>4. ~(\E v \in Workers : Finishes(v, j))
  BY <1>2 DEF Finishes
<1>5. jobs[j].status = "RUNNING" /\ jobs[j].token = workers[w].token
  BY <1>1, <1>2, <1>3, <1>4, RowsMoved DEF RowsMove, RowMoves
<1> QED BY <1>5 DEF Owns, j

LEMMA PublishedKept ==
  ASSUME Lasting, ArchivesSafe, [Next]_vars, ~Tick, Prompt
  PROVE  PublishedFresh'
<1> SUFFICES ASSUME NEW w \in Workers, workers'[w].pc = "published", Owns(w)'
             PROVE  /\ zips'[NameOf(workers'[w])] # NoFile
                    /\ zips'[NameOf(workers'[w])] + workers'[w].left < GenerationTimeout + CommitDelay
                    /\ NameOf(workers'[w]) \notin cleaner'.stale
  BY DEF PublishedFresh, NameOf
<1>1. PICK n, a, k : n = NameOf(workers'[w]) /\ a = zips[n] /\ k = workers'[w].left
  OBVIOUS
<1>2. CASE Publish(w)
  <2>1. /\ workers[w].pc = "generating" /\ workers[w].pc \in Working /\ workers[w].pc \in Early /\ workers[w].left > 0
        /\ workers'[w].job = workers[w].job /\ workers'[w].token = workers[w].token /\ k = CommitDelay
        /\ temps[NameOf(workers[w])] # NoFile /\ UNCHANGED cleaner
    BY <1>1, <1>2 DEF Publish, Step, Lasting, Crew, Worker, Working, Early, NameOf
  <2>2. n = NameOf(workers[w]) /\ n \in Names
    BY <1>1, <2>1, HeldNames DEF NameOf
  <2>3. zips'[n] = temps[n]
    BY <1>2, <2>2 DEF Publish, Lasting, Files, ArtifactName, NameOf
  <2>4. temps[n] + workers[w].left <= GenerationTimeout /\ temps[n] # NoFile
    BY <2>1, <2>2 DEF ArchivesSafe, CrewInTime, InTime
  <2>5. workers[w].left \in Nat /\ temps[n] \in Int
    BY <2>2, ExportAssumption DEF Lasting, Crew, Worker, Files, Age, NoFile
  <2>6. temps[n] + k < GenerationTimeout + CommitDelay
    BY <2>1, <2>4, <2>5, ExportAssumption
  <2>7. n \notin cleaner'.stale
    BY <2>1, <2>2 DEF ArchivesSafe, NamesUnused, Unused
  <2> QED BY <1>1, <2>3, <2>4, <2>6, <2>7
<1>3. CASE MovesOn(workers[w], workers'[w])
  <2>1. /\ workers[w].pc = "published" /\ workers[w].pc \in Working /\ workers'[w].job = workers[w].job
        /\ workers'[w].token = workers[w].token /\ workers[w].left = k
    BY <1>1, <1>3 DEF MovesOn, Working
  <2>2. Owns(w)
    BY <2>1, OwnedBefore
  <2>3. n = NameOf(workers[w]) /\ n \in Names
    BY <1>1, <2>1, HeldNames DEF NameOf
  <2>4. a # NoFile /\ a + k < GenerationTimeout + CommitDelay /\ n \notin cleaner.stale
    BY <1>1, <2>1, <2>2, <2>3 DEF ArchivesSafe, PublishedFresh
  <2>5. zips'[n] = a
    <3>1. ASSUME NEW v \in Workers, Publish(v), n = NameOf(workers[v]) PROVE FALSE
      <4>1. workers[v].pc = "generating"
        BY <3>1 DEF Publish
      <4> QED BY <2>1, <2>3, <3>1, <4>1 DEF ArchivesSafe, TokensFit, Working
    <3>2. ~Removes(n)
      BY <1>1, <2>1, <2>2, <2>3, <2>4, OwnedKept
    <3> QED BY <1>1, <2>3, <3>1, <3>2, ZipsMoved DEF ZipsMove
  <2>6. ~Stale(a)
    <3>1. k >= CommitDelay - 1 /\ k \in Nat /\ a \in Int
      BY <1>1, <2>1, <2>3, ExportAssumption DEF Prompt, Lasting, Crew, Worker, Files, Age, NoFile
    <3> QED BY <2>4, <3>1, ExportAssumption DEF Stale
  <2>7. n \notin cleaner'.stale
    BY <1>1, <2>4, <2>6, StaleMoved
  <2> QED BY <1>1, <2>4, <2>5, <2>7
<1>4. CASE \E i \in Jobs : Claims(w, i)
  BY <1>4, ClaimedWorker
<1> QED BY <1>2, <1>3, <1>4, CrewMoved DEF CrewMoves

LEMMA HalfRemovedGrows ==
  ASSUME [Next]_vars
  PROVE  halfRemoved \subseteq halfRemoved'
BY DEF Next, vars, Create, CancelActive, RemoveEnded, SetAccess, PurgeGroup, CleanerStep, CrashCleaner,
      CleanupStart, CleanupDecide, CleanupCommit, CleanupRemove, CleanupForget, CleanupRetain,
      ReconcileArchive, ReconcileTemporary, CleanupEnd, Tick, WorkerStep, Crash, FailExhaustedAttempt,
      ClaimNext, CreateTemporary, UpdateProgress, GenerationFails, Publish, CompleteOwned, CompleteLost,
      FailClaim, DispatchPending, ExportCompleted, Acknowledge, Restart

LEMMA ReadyKept ==
  ASSUME Lasting, ArchivesSafe, [Next]_vars, ~Tick
  PROVE  ReadySpared'
<1> SUFFICES ASSUME NEW j \in Jobs, jobs'[j].status = "READY", j \notin halfRemoved'
             PROVE  zips'[jobs'[j].artifact] # NoFile /\ Spared(jobs[j].artifact)'
  BY DEF ReadySpared, Spared
<1>0. Rows /\ Rows' /\ j \notin halfRemoved
  BY RowsKept, HalfRemovedGrows DEF Lasting
<1>1. PICK n : n = jobs'[j].artifact
  OBVIOUS
<1>2. n = ArtifactName(j, jobs'[j].attempt) /\ n # NoName /\ n \in Names
  BY <1>0, <1>1, Numbers DEF Rows, GoodRow, ArtifactName, NoName, Job
<1> SUFFICES zips'[n] # NoFile /\ (cleaner'.pc = "reconcile" => n \in cleaner'.retained \/ n \notin cleaner'.stale)
  BY <1>1 DEF Spared
<1>3. ASSUME cleaner'.retained = RetainedArtifactNames, UNCHANGED <<jobs, zips, halfRemoved>>
      PROVE  n \in cleaner'.retained
  BY <1>1, <1>3 DEF RetainedArtifactNames
<1>4. CASE RowMoves(jobs[j], jobs'[j])
  <2>1. jobs[j].status = "READY" /\ n = jobs[j].artifact
    BY <1>1, <1>2, <1>4 DEF RowMoves
  <2>2. zips[n] # NoFile /\ Spared(n)
    BY <1>0, <2>1 DEF ArchivesSafe, ReadySpared
  <2>3. ~Removes(n)
    <3>1. \A i \in Jobs : OwnName(i, n) => i = j
      BY <1>2 DEF OwnName, ArtifactName
    <3>2. ASSUME NEW i \in Jobs, n = jobs[i].artifact, jobs'[i].status = "DELETED" \/ i \in halfRemoved' PROVE FALSE
      <4>1. i = j
        BY <3>1, <3>2 DEF ArchivesSafe, RowNames
      <4> QED BY <3>2, <4>1
    <3>3. ASSUME NEW w \in Workers, workers[w].pc = "published", n = NameOf(workers[w]),
                 jobs'[workers[w].job].status # "READY"
          PROVE  FALSE
      BY <1>2, <3>3 DEF NameOf, ArtifactName
    <3>4. ASSUME cleaner.pc = "remove", n = cleaner.name PROVE FALSE
      <4>1. cleaner.job \in Jobs /\ jobs[cleaner.job].status # "READY" /\ cleaner.job = j
        BY <3>1, <3>4 DEF Lasting, GoodCleaner, ArchivesSafe, CleanerNames
      <4> QED BY <2>1, <4>1
    <3>5. ASSUME cleaner.pc = "reconcile", Reconcilable(n) PROVE FALSE
      BY <2>2, <3>5 DEF Spared, Reconcilable
    <3> QED BY <3>2, <3>3, <3>4, <3>5 DEF Removes
  <2>4. zips'[n] # NoFile
    <3>1. ASSUME NEW w \in Workers, Publish(w), n = NameOf(workers[w]) PROVE zips'[n] # NoFile
      BY <1>2, <3>1 DEF Publish, Lasting, Files, ArtifactName, NameOf
    <3> QED BY <1>2, <2>2, <2>3, <3>1, ZipsMoved DEF ZipsMove
  <2>5. CASE UNCHANGED cleaner
    BY <2>2, <2>4, <2>5 DEF Spared
  <2> QED BY <1>3, <2>4, <2>5, CleanerMoved DEF CleanerMoves
<1>5. CASE \E w \in Workers : Finishes(w, j)
  <2>1. PICK w \in Workers : Finishes(w, j)
    BY <1>5
  <2>2. zips[n] # NoFile /\ n \notin cleaner.stale /\ UNCHANGED <<zips, cleaner>>
    BY <1>1, <2>1 DEF Finishes, ArchivesSafe, PublishedFresh
  <2> QED BY <2>2
<1>6. CASE \E w \in Workers : Claims(w, j)
  BY <1>6 DEF Claims
<1> QED BY <1>4, <1>5, <1>6, RowsMoved DEF RowsMove

LEMMA CleanupNames ==
  ASSUME Lasting, ArchivesSafe, [Next]_vars
  PROVE  RowNames' /\ CleanerNames'
<1>1. ASSUME NEW j \in Jobs PROVE OwnName(j, jobs'[j].artifact)
  <2>1. CASE \E w \in Workers : Finishes(w, j)
    <3>1. PICK w \in Workers : Finishes(w, j)
      BY <2>1
    <3>2. workers[w].job = j /\ workers[w].token \in Attempts /\ jobs'[j].artifact = NameOf(workers[w])
      BY <3>1, HeldNames DEF Finishes, Working
    <3> QED BY <3>2 DEF OwnName, NameOf
  <2>2. CASE jobs'[j].artifact \in {jobs[j].artifact, NoName}
    BY <2>2 DEF ArchivesSafe, RowNames, OwnName
  <2> QED BY <2>1, <2>2, RowsMoved DEF RowsMove, RowMoves, Claims
<1>2. ASSUME NEW j \in Jobs, NEW n \in Names, <<j, n>> \in cleaner'.todo PROVE OwnName(j, n)
  <2>1. CASE <<j, n>> \in cleaner.todo
    BY <2>1 DEF ArchivesSafe, CleanerNames
  <2>2. CASE \E i \in Jobs : <<j, n>> = <<i, jobs[i].artifact>>
    BY <2>2 DEF ArchivesSafe, RowNames
  <2> QED BY <1>2, <2>1, <2>2, CleanerMoved DEF CleanerMoves
<1>3. ASSUME cleaner'.pc \in {"commit", "remove"} PROVE OwnName(cleaner'.job, cleaner'.name)
  <2>1. CASE cleaner.pc \in {"commit", "remove"} /\ cleaner'.job = cleaner.job /\ cleaner'.name = cleaner.name
    BY <2>1 DEF ArchivesSafe, CleanerNames
  <2>2. CASE <<cleaner'.job, cleaner'.name>> \in cleaner.todo
    <3>1. cleaner'.job \in Jobs /\ cleaner'.name \in Names
      BY <2>2 DEF Lasting, GoodCleaner, Cleaner
    <3> QED BY <2>2, <3>1 DEF ArchivesSafe, CleanerNames
  <2> QED BY <1>3, <2>1, <2>2, CleanerMoved DEF CleanerMoves
<1> QED BY <1>1, <1>2, <1>3 DEF RowNames, CleanerNames, OwnName

-----------------------------------------------------------------------------
(***************************************************************************)
(* A tick, and the theorems.                                               *)
(***************************************************************************)
LEMMA TickSafe ==
  ASSUME Lasting, ArchivesSafe, Tick
  PROVE  ArchivesSafe'
<1>0. /\ jobs \in [Jobs -> Job] /\ workers \in [Workers -> Worker] /\ zips \in [Names -> Age]
      /\ temps \in [Names -> Age] /\ UNCHANGED <<cleaner, halfRemoved>>
  BY DEF Lasting, Rows, Crew, Files, Tick
<1>1. ASSUME NEW j \in Jobs
      PROVE  /\ jobs'[j].status = jobs[j].status /\ jobs'[j].attempt = jobs[j].attempt
             /\ jobs'[j].token = jobs[j].token /\ jobs'[j].artifact = jobs[j].artifact
  <2>1. jobs[j] \in Job /\ jobs'[j] = [jobs[j] EXCEPT !.lease = Less(jobs[j].lease), !.expiry = Less(jobs[j].expiry)]
    BY <1>0 DEF Tick
  <2> QED BY <2>1 DEF Job
<1>2. ASSUME NEW w \in Workers
      PROVE  /\ workers'[w].pc = workers[w].pc /\ workers'[w].job = workers[w].job
             /\ workers'[w].token = workers[w].token /\ workers'[w].left = Less(workers[w].left)
             /\ NameOf(workers'[w]) = NameOf(workers[w])
  <2>1. workers[w] \in Worker /\ workers'[w] = [workers[w] EXCEPT !.left = Less(workers[w].left)]
    BY <1>0 DEF Tick
  <2>2. /\ workers'[w].pc = workers[w].pc /\ workers'[w].job = workers[w].job
        /\ workers'[w].token = workers[w].token /\ workers'[w].left = Less(workers[w].left)
    BY <2>1 DEF Worker
  <2> QED BY <2>2 DEF NameOf
<1>3. \A n \in Names : zips'[n] = Older(zips[n]) /\ temps'[n] = Older(temps[n])
  BY DEF Tick
<1>4. ASSUME NEW a \in Age
      PROVE  /\ Older(a) = NoFile <=> a = NoFile
             /\ Older(a) \in Int /\ a \in Int /\ Older(a) <= a + 1 /\ (a = NoFile => Older(a) = -1)
  BY ExportAssumption DEF Age, Older, NoFile
<1>5. ASSUME NEW k \in Nat PROVE Less(k) \in Nat /\ Less(k) <= k /\ (Less(k) > 0 => Less(k) = k - 1) /\ (k > 0 => Less(k) = k - 1)
  BY DEF Less
<1>6. TokensFit'
  <2>1. \A w \in Workers : workers[w].pc \in Working => workers[w].job \in Jobs
    BY HeldNames
  <2>2. \A w \in Workers : workers'[w].pc \in Working => workers'[w].token <= jobs'[workers'[w].job].attempt
    BY <1>1, <1>2, <2>1 DEF ArchivesSafe, TokensFit
  <2>3. \A v, w \in Workers : v # w /\ workers'[v].pc \in Working /\ workers'[w].pc \in Working
                                => NameOf(workers'[v]) # NameOf(workers'[w])
    BY <1>2 DEF ArchivesSafe, TokensFit
  <2> QED BY <2>2, <2>3 DEF TokensFit, NameOf
<1>7. NamesUnused'
  <2>1. ASSUME NEW n \in Names, Unused(n) PROVE Unused(n)'
    BY <1>0, <1>3, <1>4, <2>1 DEF Unused
  <2>2. ASSUME NEW j \in Jobs, NEW u \in Attempts, u > jobs'[j].attempt PROVE Unused(<<j, u>>)'
    <3>1. Unused(<<j, u>>) /\ <<j, u>> \in Names
      BY <1>1, <2>2 DEF ArchivesSafe, NamesUnused, Names
    <3> QED BY <2>1, <3>1
  <2>3. ASSUME NEW w \in Workers, workers'[w].pc \in Early PROVE Unused(NameOf(workers[w]))'
    <3>1. PICK n : n = NameOf(workers[w])
      OBVIOUS
    <3>2. n \in Names /\ Unused(n) /\ n = NameOf(workers'[w])
      BY <1>2, <2>3, <3>1, HeldNames DEF ArchivesSafe, NamesUnused, Early, Working
    <3>3. Unused(n)'
      BY <2>1, <3>2
    <3> QED BY <3>2, <3>3 DEF Unused, NameOf
  <2> QED BY <2>2, <2>3 DEF NamesUnused
<1>8. CrewInTime'
  <2> SUFFICES ASSUME NEW w \in Workers PROVE InTime(workers[w])'
    BY DEF CrewInTime
  <2>1. PICK k : k = workers[w].left
    OBVIOUS
  <2>2. k \in Nat /\ InTime(workers[w]) /\ workers'[w].left = Less(k)
    BY <1>0, <1>2, <2>1 DEF Worker, ArchivesSafe, CrewInTime
  <2>3. workers'[w].pc \in Early => workers'[w].left <= GenerationTimeout
    BY <1>2, <1>5, <2>1, <2>2, ExportAssumption DEF InTime
  <2>4. workers'[w].pc = "published" => workers'[w].left <= CommitDelay
    BY <1>2, <1>5, <2>1, <2>2, ExportAssumption DEF InTime
  <2>5. ASSUME workers'[w].pc = "generating", workers'[w].left > 0
        PROVE  temps'[NameOf(workers'[w])] + workers'[w].left <= GenerationTimeout
    <3>1. PICK n : n = NameOf(workers[w])
      OBVIOUS
    <3>2. n \in Names /\ n = NameOf(workers'[w]) /\ workers[w].pc = "generating"
      BY <1>2, <2>5, <3>1, HeldNames DEF Working
    <3>3. k > 0 /\ Less(k) = k - 1
      BY <1>5, <2>2, <2>5
    <3>4. temps[n] + k <= GenerationTimeout
      BY <2>1, <2>2, <3>1, <3>2, <3>3 DEF InTime
    <3>5. temps'[n] \in Int /\ temps[n] \in Int /\ temps'[n] <= temps[n] + 1
      BY <1>0, <1>3, <1>4, <3>2
    <3>6. temps'[n] + (k - 1) <= GenerationTimeout
      BY <2>2, <3>4, <3>5, ExportAssumption
    <3> QED BY <2>2, <3>2, <3>3, <3>6
  <2> QED BY <2>3, <2>4, <2>5 DEF InTime, NameOf
<1>9. PublishedFresh'
  <2> SUFFICES ASSUME NEW w \in Workers, workers'[w].pc = "published", Owns(w)'
               PROVE  /\ zips'[NameOf(workers'[w])] # NoFile
                      /\ zips'[NameOf(workers'[w])] + workers'[w].left < GenerationTimeout + CommitDelay
                      /\ NameOf(workers'[w]) \notin cleaner'.stale
    BY DEF PublishedFresh, NameOf
  <2>1. PICK n, a, b, k : n = NameOf(workers[w]) /\ a = zips[n] /\ b = zips'[n] /\ k = workers[w].left
    OBVIOUS
  <2>2. workers[w].pc = "published" /\ workers[w].job \in Jobs /\ n \in Names /\ n = NameOf(workers'[w]) /\ k \in Nat
    BY <1>0, <1>2, <2>1, HeldNames DEF Working, Worker
  <2>3. Owns(w)
    BY <1>1, <1>2, <2>2 DEF Owns
  <2>4. a # NoFile /\ a + k < GenerationTimeout + CommitDelay /\ n \notin cleaner.stale
    BY <2>1, <2>2, <2>3 DEF ArchivesSafe, PublishedFresh
  <2>5. k > 0 /\ workers'[w].left = k - 1
    BY <1>2, <1>5, <2>1, <2>2 DEF Tick
  <2>6. b # NoFile /\ b \in Int /\ a \in Int /\ b <= a + 1
    BY <1>0, <1>3, <1>4, <2>1, <2>2, <2>4
  <2>7. b + (k - 1) < GenerationTimeout + CommitDelay
    BY <2>2, <2>4, <2>6, ExportAssumption
  <2> QED BY <1>0, <2>1, <2>2, <2>4, <2>5, <2>6, <2>7
<1>10. ReadySpared'
  <2> SUFFICES ASSUME NEW j \in Jobs, jobs'[j].status = "READY", j \notin halfRemoved'
               PROVE  zips'[jobs'[j].artifact] # NoFile /\ Spared(jobs[j].artifact)'
    BY DEF ReadySpared, Spared
  <2>1. PICK n : n = jobs[j].artifact
    OBVIOUS
  <2>2. jobs[j].status = "READY" /\ n = jobs'[j].artifact /\ j \notin halfRemoved
    BY <1>0, <1>1, <2>1
  <2>3. n \in Names
    <3>1. n \in Names \union {NoName}
      BY <1>0, <2>1 DEF Job
    <3>2. n = ArtifactName(j, jobs[j].attempt)
      BY <2>1, <2>2 DEF Lasting, Rows, GoodRow
    <3>3. n # NoName
      BY <3>2, Numbers DEF ArtifactName, NoName
    <3> QED BY <3>1, <3>3
  <2>4. zips[n] # NoFile /\ Spared(n)
    BY <2>1, <2>2 DEF ArchivesSafe, ReadySpared
  <2> QED BY <1>0, <1>3, <1>4, <2>2, <2>3, <2>4 DEF Spared
<1>11. RowNames' /\ CleanerNames'
  <2>1. [Next]_vars
    BY DEF Next
  <2> QED BY <2>1, CleanupNames
<1> QED BY <1>6, <1>7, <1>8, <1>9, <1>10, <1>11 DEF ArchivesSafe

LEMMA ArchivesStep ==
  ASSUME Lasting, ArchivesSafe, Prompt, [Next]_vars
  PROVE  ArchivesSafe'
<1>1. CASE Tick
  BY <1>1, TickSafe
<1>2. CASE ~Tick
  BY <1>2, TokensKept, NamesUnusedKept, TimesKept, PublishedKept, ReadyKept, CleanupNames DEF ArchivesSafe
<1> QED BY <1>1, <1>2

LEMMA ArchivesInit ==
  ASSUME Init
  PROVE  ArchivesSafe /\ Prompt
<1>1. \A w \in Workers : workers[w].pc = "idle"
  BY DEF Init, Idle, At
<1>2. \A j \in Jobs : jobs[j].status = "NONE" /\ jobs[j].artifact = NoName
  BY DEF Init
<1>3. \A n \in Names : Unused(n)
  BY DEF Init, CleanerIdle, Unused
<1>4. NamesUnused
  BY <1>1, <1>3 DEF NamesUnused, Early, Names
<1>5. cleaner.todo = {} /\ cleaner.pc = "idle"
  BY DEF Init, CleanerIdle
<1> QED
  BY <1>1, <1>2, <1>4, <1>5
  DEF ArchivesSafe, Prompt, TokensFit, CrewInTime, InTime, PublishedFresh, ReadySpared, RowNames,
      CleanerNames, OwnName, Working, Early

LEMMA SafeArchives ==
  ASSUME ArchivesSafe
  PROVE  ReadyHasArchive
BY DEF ArchivesSafe, ReadySpared, ReadyHasArchive

\* On a prompt host a READY job keeps its archive: neither a worker whose
\* lease was taken over nor Cleanup deletes it (completeClaim, Cleanup,
\* Reconcile), for any number of workers, jobs, crashes and any durations that
\* the service accepts.
THEOREM PromptHostsKeepArchives == PromptSpec => []ReadyHasArchive
<1>1. Init => Lasting /\ ArchivesSafe /\ Prompt
  BY LastingInit, ArchivesInit
<1>2. Lasting /\ ArchivesSafe /\ Prompt /\ [Next /\ Prompt']_vars => Lasting' /\ ArchivesSafe' /\ Prompt'
  <2> SUFFICES ASSUME Lasting, ArchivesSafe, Prompt, [Next /\ Prompt']_vars
               PROVE  Lasting' /\ ArchivesSafe' /\ Prompt'
    OBVIOUS
  <2>1. Lasting' /\ ArchivesSafe'
    BY LastingNext, ArchivesStep
  <2>2. Prompt'
    BY DEF vars, Prompt
  <2> QED BY <2>1, <2>2
<1>3. ArchivesSafe => ReadyHasArchive
  BY SafeArchives
<1> QED BY <1>1, <1>2, <1>3, PTL DEF PromptSpec

\* The same for the casts of workers the runs choose from: whoever plays on a
\* prompt host keeps the archives.
THEOREM PromptCastsKeepArchives == MCSpec => []PromptlyReadyHasArchive
<1> DEFINE Inv == Lasting /\ (cast.prompt => ArchivesSafe /\ Prompt)
<1>1. MCInit => Inv
  BY LastingInit, ArchivesInit DEF MCInit
<1>2. Inv /\ [MCNext]_<<vars, cast>> => Inv'
  <2> SUFFICES ASSUME Inv, [MCNext]_<<vars, cast>> PROVE Inv'
    OBVIOUS
  <2>1. [Next]_vars /\ UNCHANGED cast
    BY DEF MCNext
  <2>2. Lasting'
    BY <2>1, LastingNext
  <2>3. cast.prompt => ArchivesSafe'
    BY <2>1, ArchivesStep
  <2>4. cast.prompt => Prompt'
    BY DEF MCNext, vars, Prompt
  <2> QED BY <2>1, <2>2, <2>3, <2>4
<1>3. Inv => PromptlyReadyHasArchive
  BY SafeArchives DEF PromptlyReadyHasArchive
<1> HIDE DEF Inv
<1> QED BY <1>1, <1>2, <1>3, PTL DEF MCSpec
=============================================================================
