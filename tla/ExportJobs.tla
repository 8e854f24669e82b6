----------------------------- MODULE ExportJobs -----------------------------
(***************************************************************************)
(* Package exporting: raw-data export jobs, the workers that lease and run *)
(* them, the archives they publish, the periodic cleanup, and the          *)
(* completion listener of package exportnotifications.                     *)
(*                                                                         *)
(* A transaction on export_jobs is one action.  File operations, the       *)
(* listener and the transactions around them are separate actions, so that *)
(* other processes and crashes come in between.  Time advances in ticks;   *)
(* leases, timeouts and retention count down, the age of files counts up.  *)
(* The lease token of a claim is a fresh secret: here, the attempt number. *)
(***************************************************************************)
EXTENDS Integers, FiniteSets, FiniteSetsExt

CONSTANTS
    Workers,            \* processes that run ProcessNext
    Owners,             \* a requesting user with a group and a scope
    MaxJobs,            \* bound on the number of jobs
    MaxAttempts,        \* claims per job (10 in the code)
    Lease,              \* leaseDuration in ticks
    GenerationTimeout,  \* generationTimeout in ticks
    CommitDelay,        \* longest delay between publishing and completing
    Retention,          \* retention in ticks
    MaxCrashes          \* bound on the number of crashes

Jobs     == 1 .. MaxJobs
Attempts == 1 .. MaxAttempts
Names    == Jobs \X Attempts
NoFile   == -1
NoName   == <<0, 0>>

\* NewService keeps the lease longer than the generation timeout.
ASSUME ExportAssumption ==
    /\ MaxJobs \in Nat /\ MaxAttempts \in Nat \ {0} /\ MaxCrashes \in Nat
    /\ GenerationTimeout \in Nat \ {0} /\ Lease \in Nat /\ Lease > GenerationTimeout
    /\ CommitDelay \in Nat /\ Retention \in Nat \ {0}

VARIABLES
    jobs,         \* per job: its row in export_jobs
    access,       \* per owner: what authorizeScope finds
    zips,         \* per artifact name: age of the published archive or NoFile
    temps,        \* per claim: age of its temporary file or NoFile
    workers,      \* per worker: where it is in ProcessNext
    cleaner,      \* where Cleanup is
    notices,      \* completion notifications, one per job and outcome
    halfRemoved,  \* jobs whose removal failed after the archive was deleted
    crashes       \* number of crashes so far

vars == <<jobs, access, zips, temps, workers, cleaner, notices, halfRemoved, crashes>>

-----------------------------------------------------------------------------
Completed == {"READY", "FAILED"}
Ended     == Completed \union {"CANCELLED", "EXPIRED"}
Statuses  == {"QUEUED", "RUNNING"} \union Ended
Age       == {NoFile} \union 0 .. Lease + 1

Job == [status : Statuses \union {"NONE", "DELETED"}, owner : Owners, attempt : 0 .. MaxAttempts,
        token : 0 .. MaxAttempts, lease : 0 .. Lease, artifact : Names \union {NoName},
        expiry : 0 .. Retention, notified : BOOLEAN]

Worker == [pc : {"idle", "claimed", "generating", "published", "failing", "notify", "acknowledge",
                 "down", "exited"},
           job : 0 .. MaxJobs, token : 0 .. MaxAttempts, status : Ended \union {"NONE"}, left : Nat]

Exists(j)     == jobs[j].status \in Statuses
Active(j)     == jobs[j].status \in {"QUEUED", "RUNNING"}
Authorized(j) == access[jobs[j].owner] = "granted"

At(pc, job, token, left) == [pc |-> pc, job |-> job, token |-> token, status |-> "NONE", left |-> left]
Idle                     == At("idle", 0, 0, 0)
Notifying(j, status)     == [pc |-> "notify", job |-> j, token |-> 0, status |-> status, left |-> 0]
CleanerIdle              == [pc |-> "idle", todo |-> {}, expired |-> {}, job |-> 0, name |-> NoName,
                             status |-> "NONE", stale |-> {}, retained |-> {}]

\* A deleted row; the identifier is never used again.
Gone(job) == [job EXCEPT !.status = "DELETED", !.token = 0, !.lease = 0, !.artifact = NoName, !.expiry = 0]

\* A row that leaves QUEUED or RUNNING gives up its lease.
Ending(job, status) == [job EXCEPT !.status = status, !.token = 0, !.lease = 0]

\* The name of an archive contains a digest of the lease token.
ArtifactName(j, token) == <<j, token>>

Init ==
    /\ jobs \in [Jobs -> {[status |-> "NONE", owner |-> o, attempt |-> 0, token |-> 0, lease |-> 0,
                           artifact |-> NoName, expiry |-> 0, notified |-> FALSE] : o \in Owners}]
    /\ access = [o \in Owners |-> "granted"]
    /\ zips = [n \in Names |-> NoFile]
    /\ temps = [n \in Names |-> NoFile]
    /\ workers = [w \in Workers |-> Idle]
    /\ cleaner = CleanerIdle
    /\ notices = {}
    /\ halfRemoved = {}
    /\ crashes = 0

-----------------------------------------------------------------------------
(***************************************************************************)
(* The requester.                                                          *)
(***************************************************************************)

\* Queue a job unless one of the same owner is still active.
Create(j) ==
    /\ jobs[j].status = "NONE" /\ \A i \in 1 .. j - 1 : jobs[i].status # "NONE"
    /\ Authorized(j)
    /\ \A i \in Jobs : Active(i) => jobs[i].owner # jobs[j].owner
    /\ jobs' = [jobs EXCEPT ![j].status = "QUEUED"]
    /\ UNCHANGED <<access, zips, temps, workers, cleaner, notices, halfRemoved, crashes>>

CancelActive(j) ==
    /\ Active(j) /\ Authorized(j)
    /\ jobs' = [jobs EXCEPT ![j] = Ending(@, "CANCELLED")]
    /\ UNCHANGED <<access, zips, temps, workers, cleaner, notices, halfRemoved, crashes>>

\* The archive goes first, inside the transaction; if that does not commit, the row stays.
RemoveEnded(j, committed) ==
    /\ jobs[j].status \in Ended /\ Authorized(j)
    /\ zips' = [n \in Names |-> IF n = jobs[j].artifact THEN NoFile ELSE zips[n]]
    /\ \/ /\ committed
          /\ jobs' = [jobs EXCEPT ![j] = Gone(@)]
          /\ UNCHANGED <<halfRemoved, crashes>>
       \/ /\ ~committed /\ crashes < MaxCrashes
          /\ crashes' = crashes + 1
          /\ halfRemoved' = halfRemoved \union {j}
          /\ UNCHANGED jobs
    /\ UNCHANGED <<access, temps, workers, cleaner, notices>>

SetAccess(o, next) ==
    /\ access[o] # "purged" /\ access[o] # next
    /\ access' = [access EXCEPT ![o] = next]
    /\ UNCHANGED <<jobs, zips, temps, workers, cleaner, notices, halfRemoved, crashes>>

\* Purging an archived group deletes its rows in any state, not its archives.
PurgeGroup(o) ==
    /\ access[o] = "revoked"
    /\ access' = [access EXCEPT ![o] = "purged"]
    /\ jobs' = [j \in Jobs |-> IF jobs[j].owner = o /\ Exists(j)
                               THEN Gone(jobs[j]) ELSE jobs[j]]
    /\ UNCHANGED <<zips, temps, workers, cleaner, notices, halfRemoved, crashes>>

-----------------------------------------------------------------------------
(***************************************************************************)
(* ProcessNext.                                                            *)
(***************************************************************************)

\* Mutant of Claimable: a job whose worker died is not taken over.
ClaimableQueued(j) == jobs[j].attempt < MaxAttempts /\ jobs[j].status = "QUEUED"

Claimable(j) ==
    /\ jobs[j].attempt < MaxAttempts
    /\ \/ jobs[j].status = "QUEUED"
       \/ jobs[j].status = "RUNNING" /\ jobs[j].lease = 0

Exhausted(j) ==
    jobs[j].attempt >= MaxAttempts /\ jobs[j].status = "RUNNING" /\ jobs[j].lease = 0

\* The first of the jobs in the order of their requests.
FirstOf(S) == Min(S)

Step(w, next) == workers' = [workers EXCEPT ![w] = next]

FailExhaustedAttempt(w) ==
    LET exhausted == {j \in Jobs : Exhausted(j)}
        j         == FirstOf(exhausted)
    IN  /\ workers[w].pc = "idle" /\ exhausted # {}
        /\ jobs' = [jobs EXCEPT ![j] = Ending(@, "FAILED")]
        /\ Step(w, Notifying(j, "FAILED"))
        /\ UNCHANGED <<access, zips, temps, cleaner, notices, halfRemoved, crashes>>

\* Take the oldest queued or abandoned job; cancel it if its owner lost access.
ClaimNext(w) ==
    LET claimable == {j \in Jobs : Claimable(j)}
        j         == FirstOf(claimable)
        token     == jobs[j].attempt + 1
    IN  /\ workers[w].pc = "idle" /\ claimable # {} /\ \A i \in Jobs : ~Exhausted(i)
        /\ IF Authorized(j)
           THEN /\ jobs' = [jobs EXCEPT ![j].status = "RUNNING", ![j].attempt = token,
                                        ![j].token = token, ![j].lease = Lease]
                /\ Step(w, At("claimed", j, token, GenerationTimeout))
           ELSE /\ jobs' = [jobs EXCEPT ![j] = Ending(@, "CANCELLED")]
                /\ UNCHANGED workers
        /\ UNCHANGED <<access, zips, temps, cleaner, notices, halfRemoved, crashes>>

CreateTemporary(w) ==
    /\ workers[w].pc = "claimed"
    /\ temps' = [temps EXCEPT ![<<workers[w].job, workers[w].token>>] = 0]
    /\ Step(w, [workers[w] EXCEPT !.pc = "generating"])
    /\ UNCHANGED <<jobs, access, zips, cleaner, notices, halfRemoved, crashes>>

\* Mutants of Owns: any running claim counts; any row counts.
OwnsRunning(w)  == jobs[workers[w].job].status = "RUNNING"
OwnsExisting(w) == Exists(workers[w].job)

\* The worker's lease token is still the one in the row.
Owns(w) ==
    jobs[workers[w].job].status = "RUNNING" /\ jobs[workers[w].job].token = workers[w].token

\* A data set has been written: renew the lease, or give up when it is lost.
UpdateProgress(w) ==
    /\ workers[w].pc = "generating" /\ workers[w].left > 0
    /\ temps' = [temps EXCEPT ![<<workers[w].job, workers[w].token>>] = 0]
    /\ IF Owns(w)
       THEN jobs' = [jobs EXCEPT ![workers[w].job].lease = Lease] /\ UNCHANGED workers
       ELSE Step(w, [workers[w] EXCEPT !.pc = "failing"]) /\ UNCHANGED jobs
    /\ UNCHANGED <<access, zips, cleaner, notices, halfRemoved, crashes>>

\* Creating, generating, hashing or publishing the archive fails or takes too long.
GenerationFails(w) ==
    /\ workers[w].pc \in {"claimed", "generating"}
    /\ Step(w, [workers[w] EXCEPT !.pc = "failing"])
    /\ UNCHANGED <<jobs, access, zips, temps, cleaner, notices, halfRemoved, crashes>>

\* The hashed archive is renamed, with the age of its last write.
Publish(w) ==
    LET temporary == <<workers[w].job, workers[w].token>>
    IN  /\ workers[w].pc = "generating" /\ workers[w].left > 0 /\ temps[temporary] # NoFile
        /\ zips' = [zips EXCEPT ![ArtifactName(workers[w].job, workers[w].token)] = temps[temporary]]
        /\ temps' = [temps EXCEPT ![temporary] = NoFile]
        /\ Step(w, [workers[w] EXCEPT !.pc = "published", !.left = CommitDelay])
        /\ UNCHANGED <<jobs, access, cleaner, notices, halfRemoved, crashes>>

\* ProcessNext returns; Run ends when the error comes without a job that has ended.
Returned(w) ==
    IF Exists(workers[w].job) THEN Idle ELSE At("exited", 0, 0, 0)

Discard(w) == zips' = [zips EXCEPT ![ArtifactName(workers[w].job, workers[w].token)] = NoFile]

\* completeClaim under the token: READY, or CANCELLED without access.
CompleteOwned(w) ==
    LET j == workers[w].job
    IN  /\ workers[w].pc = "published" /\ Owns(w)
        /\ IF Authorized(j)
           THEN /\ jobs' = [jobs EXCEPT ![j] = [Ending(@, "READY") EXCEPT
                                   !.artifact = ArtifactName(j, workers[w].token), !.expiry = Retention]]
                /\ Step(w, Notifying(j, "READY"))
                /\ UNCHANGED zips
           ELSE /\ jobs' = [jobs EXCEPT ![j] = Ending(@, "CANCELLED")]
                /\ Step(w, Idle)
                /\ Discard(w)
        /\ UNCHANGED <<access, temps, cleaner, notices, halfRemoved, crashes>>

\* completeClaim after the token was lost: the archive goes unless the row is READY meanwhile.
CompleteLost(w) ==
    /\ workers[w].pc = "published" /\ ~Owns(w)
    /\ IF jobs[workers[w].job].status = "READY"
       THEN Step(w, Notifying(workers[w].job, "READY")) /\ UNCHANGED zips
       ELSE Step(w, Returned(w)) /\ Discard(w)
    /\ UNCHANGED <<jobs, access, temps, cleaner, notices, halfRemoved, crashes>>

\* failClaim, and the deferred removal of the temporary file.
FailClaim(w) ==
    LET j == workers[w].job
    IN  /\ workers[w].pc = "failing"
        /\ temps' = [temps EXCEPT ![<<j, workers[w].token>>] = NoFile]
        /\ jobs' = IF Owns(w)
                   THEN [jobs EXCEPT ![j] = Ending(@, "FAILED")]
                   ELSE jobs
        /\ Step(w, IF jobs'[j].status = "FAILED" THEN Notifying(j, "FAILED") ELSE Returned(w))
        /\ UNCHANGED <<access, zips, cleaner, notices, halfRemoved, crashes>>

\* Mutant of Pending: failures are not dispatched again.
PendingReady(j) == jobs[j].status = "READY" /\ ~jobs[j].notified

Pending(j) == jobs[j].status \in Completed /\ ~jobs[j].notified

\* DispatchPendingCompletions picks an outcome nobody has acknowledged.
DispatchPending(w, j) ==
    /\ workers[w].pc = "idle" /\ Pending(j)
    /\ Step(w, Notifying(j, jobs[j].status))
    /\ UNCHANGED <<jobs, access, zips, temps, cleaner, notices, halfRemoved, crashes>>

\* ExportCompleted: at most one notification per job and outcome, for active members only.
\* An owner without access to the export may still be an active member.
ExportCompleted(w, member) ==
    /\ workers[w].pc = "notify"
    /\ access[jobs[workers[w].job].owner] = "granted" => member
    /\ access[jobs[workers[w].job].owner] = "purged" => ~member
    /\ notices' = notices \union {n \in {<<workers[w].job, workers[w].status>>} : member}
    /\ Step(w, [workers[w] EXCEPT !.pc = "acknowledge"])
    /\ UNCHANGED <<jobs, access, zips, temps, cleaner, halfRemoved, crashes>>

Acknowledge(w) ==
    /\ workers[w].pc = "acknowledge"
    /\ jobs' = [jobs EXCEPT ![workers[w].job].notified =
                   @ \/ jobs[workers[w].job].status = workers[w].status]
    /\ Step(w, Idle)
    /\ UNCHANGED <<access, zips, temps, cleaner, notices, halfRemoved, crashes>>

Crash(w) ==
    /\ workers[w].pc \notin {"down", "exited"} /\ crashes < MaxCrashes
    /\ crashes' = crashes + 1
    /\ Step(w, At("down", 0, 0, 0))
    /\ UNCHANGED <<jobs, access, zips, temps, cleaner, notices, halfRemoved>>

Restart(w) ==
    /\ workers[w].pc \in {"down", "exited"}
    /\ Step(w, Idle)
    /\ UNCHANGED <<jobs, access, zips, temps, cleaner, notices, halfRemoved, crashes>>

-----------------------------------------------------------------------------
(***************************************************************************)
(* Cleanup.                                                                *)
(***************************************************************************)

Stale(age) == age > Lease

\* The READY jobs and the time are read once.
CleanupStart ==
    /\ cleaner.pc = "idle"
    /\ cleaner' = [cleaner EXCEPT !.pc = "sweep",
           !.todo    = {<<j, jobs[j].artifact>> : j \in {i \in Jobs : jobs[i].status = "READY"}},
           !.expired = {j \in Jobs : jobs[j].status = "READY" /\ jobs[j].expiry = 0},
           !.stale   = {n \in Names : Stale(zips[n])}]
    /\ UNCHANGED <<jobs, access, zips, temps, workers, notices, halfRemoved, crashes>>

\* Decide, outside a transaction, whether a job of the list has to go.
CleanupDecide(j, name) ==
    LET expired == j \in cleaner.expired
        rest    == cleaner.todo \ {<<j, name>>}
    IN  /\ cleaner.pc = "sweep" /\ <<j, name>> \in cleaner.todo
        /\ cleaner' = IF ~expired /\ Authorized(j)
                      THEN [cleaner EXCEPT !.todo = rest]
                      ELSE [cleaner EXCEPT !.pc = "commit", !.todo = rest, !.job = j, !.name = name,
                                           !.status = IF expired THEN "EXPIRED" ELSE "CANCELLED"]
        /\ UNCHANGED <<jobs, access, zips, temps, workers, notices, halfRemoved, crashes>>

CleanupCommit ==
    LET j == cleaner.job
    IN  /\ cleaner.pc = "commit"
        /\ jobs' = IF jobs[j].status = "READY"
                   THEN [jobs EXCEPT ![j].status = cleaner.status, ![j].expiry = 0] ELSE jobs
        /\ cleaner' = [cleaner EXCEPT !.pc = "remove"]
        /\ UNCHANGED <<access, zips, temps, workers, notices, halfRemoved, crashes>>

\* Only after the commit the archive goes, and then its name.
CleanupRemove ==
    /\ cleaner.pc = "remove"
    /\ zips' = [zips EXCEPT ![cleaner.name] = NoFile]
    /\ cleaner' = [cleaner EXCEPT !.pc = "forget"]
    /\ UNCHANGED <<jobs, access, temps, workers, notices, halfRemoved, crashes>>

CleanupForget ==
    /\ cleaner.pc = "forget"
    /\ jobs' = [jobs EXCEPT ![cleaner.job].artifact = IF @ = cleaner.name THEN NoName ELSE @]
    /\ cleaner' = [cleaner EXCEPT !.pc = "sweep", !.job = 0, !.name = NoName, !.status = "NONE"]
    /\ UNCHANGED <<access, zips, temps, workers, notices, halfRemoved, crashes>>

\* Mutant of RetainedArtifactNames: the status of the row is ignored.
RetainedAnyStatus == {jobs[j].artifact : j \in Jobs}

RetainedArtifactNames == {jobs[j].artifact : j \in {i \in Jobs : jobs[i].status = "READY"}}

CleanupRetain ==
    /\ cleaner.pc = "sweep" /\ cleaner.todo = {}
    /\ cleaner' = [cleaner EXCEPT !.pc = "reconcile", !.retained = RetainedArtifactNames]
    /\ UNCHANGED <<jobs, access, zips, temps, workers, notices, halfRemoved, crashes>>

\* Mutant of Reconcilable: files that a worker has just published count as well.
ReconcilableFresh(n) == zips[n] # NoFile /\ n \notin cleaner.retained

\* An archive that was stale when Cleanup began and that no READY job retains.
Reconcilable(n) == n \in cleaner.stale /\ Stale(zips[n]) /\ n \notin cleaner.retained

ReconcileArchive(n) ==
    /\ cleaner.pc = "reconcile" /\ Reconcilable(n)
    /\ zips' = [zips EXCEPT ![n] = NoFile]
    /\ UNCHANGED <<jobs, access, temps, workers, cleaner, notices, halfRemoved, crashes>>

ReconcileTemporary(n) ==
    /\ cleaner.pc = "reconcile" /\ Stale(temps[n])
    /\ temps' = [temps EXCEPT ![n] = NoFile]
    /\ UNCHANGED <<jobs, access, zips, workers, cleaner, notices, halfRemoved, crashes>>

CleanupEnd ==
    /\ cleaner.pc = "reconcile"
    /\ \A n \in Names : ~Reconcilable(n) /\ ~Stale(temps[n])
    /\ cleaner' = CleanerIdle
    /\ UNCHANGED <<jobs, access, zips, temps, workers, notices, halfRemoved, crashes>>

CrashCleaner ==
    /\ cleaner.pc # "idle" /\ crashes < MaxCrashes
    /\ crashes' = crashes + 1
    /\ cleaner' = CleanerIdle
    /\ UNCHANGED <<jobs, access, zips, temps, workers, notices, halfRemoved>>

-----------------------------------------------------------------------------
Less(n)    == IF n > 0 THEN n - 1 ELSE 0
Older(age) == IF age = NoFile \/ age > Lease THEN age ELSE age + 1

\* A worker that has published its archive completes within CommitDelay.
Tick ==
    /\ \A w \in Workers : workers[w].pc = "published" => workers[w].left > 0
    /\ jobs' = [j \in Jobs |-> [jobs[j] EXCEPT !.lease = Less(@), !.expiry = Less(@)]]
    /\ zips' = [n \in Names |-> Older(zips[n])]
    /\ temps' = [n \in Names |-> Older(temps[n])]
    /\ workers' = [w \in Workers |-> [workers[w] EXCEPT !.left = Less(@)]]
    /\ UNCHANGED <<access, cleaner, notices, halfRemoved, crashes>>

WorkerStep(w) ==
    \/ FailExhaustedAttempt(w) \/ ClaimNext(w) \/ CreateTemporary(w) \/ UpdateProgress(w)
    \/ GenerationFails(w) \/ Publish(w) \/ CompleteOwned(w) \/ CompleteLost(w) \/ FailClaim(w)
    \/ \E j \in Jobs : DispatchPending(w, j)
    \/ \E member \in BOOLEAN : ExportCompleted(w, member)
    \/ Acknowledge(w) \/ Restart(w)

CleanerStep ==
    \/ CleanupStart \/ \E entry \in cleaner.todo : CleanupDecide(entry[1], entry[2])
    \/ CleanupCommit \/ CleanupRemove \/ CleanupForget \/ CleanupRetain
    \/ \E n \in Names : ReconcileArchive(n) \/ ReconcileTemporary(n)
    \/ CleanupEnd

Next ==
    \/ \E j \in Jobs : Create(j) \/ CancelActive(j)
    \/ \E j \in Jobs, committed \in BOOLEAN : RemoveEnded(j, committed)
    \/ \E o \in Owners : SetAccess(o, "granted") \/ SetAccess(o, "revoked") \/ PurgeGroup(o)
    \/ \E w \in Workers : WorkerStep(w) \/ Crash(w)
    \/ CleanerStep \/ CrashCleaner
    \/ Tick

\* Workers poll, Cleanup runs every fifteen minutes, and the clock advances.
Fairness == WF_vars(Tick) /\ WF_vars(CleanerStep) /\ \A w \in Workers : WF_vars(WorkerStep(w))

Spec     == Init /\ [][Next]_vars
FairSpec == Spec /\ Fairness

\* On a prompt host at most a tick passes between publishing an archive and completing its job.
Prompt == \A w \in Workers : workers[w].pc = "published" => workers[w].left >= CommitDelay - 1

PromptSpec == Init /\ [][Next /\ Prompt']_vars

-----------------------------------------------------------------------------
\* Rows, files and processes keep their shape; only a RUNNING job is leased.
TypeOK ==
    /\ jobs \in [Jobs -> Job]
    /\ access \in [Owners -> {"granted", "revoked", "purged"}]
    /\ zips \in [Names -> Age] /\ temps \in [Names -> Age]
    /\ workers \in [Workers -> Worker]
    /\ notices \subseteq Jobs \X Completed
    /\ \A j \in Jobs : (jobs[j].status = "RUNNING") = (jobs[j].token # 0)
    /\ \A j \in Jobs : jobs[j].status = "READY" => jobs[j].artifact # NoName

(***************************************************************************)
(* The archive of a READY job is the one its last claim published, and     *)
(* nobody is told both that an export is ready and that it failed: no      *)
(* worker whose lease was taken over can complete the job (completeClaim,  *)
(* failClaim, ExportCompleted).                                            *)
(***************************************************************************)
OutcomeByLastClaim ==
    /\ TypeOK
    /\ \A j \in Jobs : jobs[j].status = "READY" => jobs[j].artifact = ArtifactName(j, jobs[j].attempt)
    /\ \A j \in Jobs : ~({<<j, "READY">>, <<j, "FAILED">>} \subseteq notices)

(***************************************************************************)
(* A READY job has its archive, whatever obsolete workers and Cleanup      *)
(* delete, unless its owner's own removal was cut short.                   *)
(***************************************************************************)
ReadyHasArchive ==
    \A j \in Jobs : jobs[j].status = "READY" /\ j \notin halfRemoved => zips[jobs[j].artifact] # NoFile

(***************************************************************************)
(* An ended job is never run again: it only expires, loses its archive or  *)
(* is deleted, whatever late workers do with it.                           *)
(***************************************************************************)
EndedStaysEnded ==
    [][\A j \in Jobs : jobs[j].status \in Ended =>
           \/ jobs'[j].status \in {jobs[j].status, "DELETED"}
           \/ jobs[j].status = "READY" /\ jobs'[j].status \in {"EXPIRED", "CANCELLED"}]_vars

\* Every queued job ends, through crashes and abandoned leases (ProcessNext, failExhaustedAttempt).
EveryJobEnds == \A j \in Jobs : Active(j) ~> ~Active(j)

\* An outcome is told to its owner's session even after a crash (DispatchPendingCompletions).
OutcomesAcknowledged ==
    \A j \in Jobs : jobs[j].status \in Completed ~> jobs[j].notified \/ jobs[j].status \notin Completed

\* No archive outlives its job: files nobody can download are deleted (Cleanup, Reconcile).
OrphansRemoved ==
    \A n \in Names : zips[n] # NoFile ~>
        zips[n] = NoFile \/ \E j \in Jobs : jobs[j].status = "READY" /\ jobs[j].artifact = n

(***************************************************************************)
(* The comment on Run: it "continuously processes jobs until ctx is        *)
(* cancelled".                                                             *)
(***************************************************************************)
RunsUntilCancelled == \A w \in Workers : workers[w].pc # "exited"
=============================================================================
