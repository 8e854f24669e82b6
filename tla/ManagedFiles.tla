----------------------------- MODULE ManagedFiles -----------------------------
(***************************************************************************)
(* Images and receipts on disk.  A file is named by the hash of its        *)
(* content, so uploads in different groups share it; it is published       *)
(* before the row that refers to it, and the mutex of its store is held    *)
(* from one to the other.  Garbage collection checks and removes under the *)
(* same mutex.  The mutex lives in a process: an operator's command        *)
(* collects beside the server in another, where the check and the removal  *)
(* are two steps and uploads go on between them.                           *)
(***************************************************************************)
EXTENDS Integers, FiniteSets

CONSTANTS
  Groups,
  Images, Receipts     \* contents, by their hash

ASSUME FilesAssumption == Images \cap Receipts = {}

VARIABLES
  files,        \* masters and receipts on disk
  variants,     \* images with display variants on disk
  references,   \* rows that name a file: [key, owner, group]
  jobs,         \* system_media_delete_jobs, system_attachment_delete_jobs: NONE, PENDING, DONE
  upload,       \* per store: the upload that holds its mutex
  collected,    \* files removed whose jobs are not yet marked
  operator,     \* an operator's process that collects: the key it is about to remove
  exposed       \* history: contents with an upload that such a process overlapped

operatorVars == <<operator, exposed>>
fileVars == <<files, variants, references, jobs, upload, collected, operatorVars>>

Stores == {"images", "attachments"}
Keys == Images \cup Receipts
StoreOf(key) == IF key \in Images THEN "images" ELSE "attachments"
Owners(store) == IF store = "images" THEN {"logo", "product", "avatar"} ELSE {"payment", "movement"}
NoGroup == "no group"
NoKey == "no key"
NoUpload == [key |-> NoKey, created |-> FALSE, owner |-> "none", group |-> NoGroup]
NoCollector == [running |-> FALSE, key |-> NoKey]

FilesInit ==
  /\ files = {} /\ variants = {}
  /\ references = {}
  /\ jobs = [k \in Keys |-> "NONE"]
  /\ upload = [s \in Stores |-> NoUpload]
  /\ collected = {}
  /\ operator = NoCollector /\ exposed = {}

Unlocked(store) == upload[store] = NoUpload

\* The owner's columns: one logo, one avatar per account, rows of products,
\* payments and movements of external accounts.
References(key, owners) == {r \in references : r.key = key /\ r.owner \in owners}

-----------------------------------------------------------------------------
(* Uploads.                                                                *)

Overlapped(key) ==
  /\ exposed' = IF operator.running THEN exposed \cup {key} ELSE exposed
  /\ UNCHANGED operator

\* Publishes by renaming a temporary file unless the content is there.  An
\* image's variants follow; a failure there leaves the master.
SaveImage(key, owner, group) ==
  /\ key \in Images
  /\ Unlocked("images")
  /\ upload' = [upload EXCEPT !["images"] =
       [key |-> key, created |-> key \notin files, owner |-> owner, group |-> group]]
  /\ files' = files \cup {key}
  /\ variants' = variants \cup {key}
  /\ Overlapped(key)
  /\ UNCHANGED <<references, jobs, collected>>

ImageVariantsFail(key) ==
  /\ key \in Images
  /\ Unlocked("images")
  /\ files' = files \cup {key}
  /\ UNCHANGED <<variants, references, jobs, upload, collected, operatorVars>>

SaveReceipt(key, owner, group) ==
  /\ key \in Receipts
  /\ Unlocked("attachments")
  /\ upload' = [upload EXCEPT !["attachments"] =
       [key |-> key, created |-> key \notin files, owner |-> owner, group |-> group]]
  /\ files' = files \cup {key}
  /\ Overlapped(key)
  /\ UNCHANGED <<variants, references, jobs, collected>>

\* The transaction that stores the key; open tells whether it passes its
\* checks.  A logo or an avatar replaces the one before; its file stays.
Attach(store, open) ==
  LET u == upload[store]
      kept == IF u.owner \in {"logo", "avatar"}
                THEN {r \in references : ~(r.owner = u.owner /\ r.group = u.group)} ELSE references
  IN  /\ ~Unlocked(store)
      /\ open
      /\ references' = kept \cup {[key |-> u.key, owner |-> u.owner, group |-> u.group]}
      /\ upload' = [upload EXCEPT ![store] = NoUpload]
      /\ UNCHANGED <<files, variants, jobs, collected, operatorVars>>

\* A payment looks for other payments only, a movement for both; it holds the
\* mutex still, and the file was its own.  An image stays.
AttachFails(store) ==
  LET u == upload[store]
      looked == IF u.owner = "payment" THEN {"payment"} ELSE {"payment", "movement"}
  IN  /\ ~Unlocked(store)
      /\ upload' = [upload EXCEPT ![store] = NoUpload]
      /\ files' = IF store = "attachments" /\ u.created /\ References(u.key, looked) = {}
                    THEN files \ {u.key} ELSE files
      /\ UNCHANGED <<variants, references, jobs, collected, operatorVars>>

\* The logo of a group or the avatar of an account.
RemoveReference(r) ==
  /\ r \in references /\ r.owner \in {"logo", "avatar"}
  /\ references' = references \ {r}
  /\ UNCHANGED <<files, variants, jobs, upload, collected, operatorVars>>

\* A variant that exists is served without the mutex and without its master.
EnsureImageVariant(key) ==
  /\ Unlocked("images")
  /\ key \in (Images \cap files) \ variants
  /\ variants' = variants \cup {key}
  /\ UNCHANGED <<files, references, jobs, upload, collected, operatorVars>>

-----------------------------------------------------------------------------
(* Garbage collection by the server: every minute and after a purge, so    *)
(* that two may run at once.  The list of jobs is read before and may be   *)
(* out of date; the references are counted under the mutex.                *)

\* Mutant of MayCollect: nobody waits for uploads.
MayCollectAlways(store) == TRUE

MayCollect(store) == Unlocked(store)

\* Removing may fail for some of the files of an image; then the job stays.
RemoveImageArtifacts(key, done) ==
  /\ files' = files \ {k \in {key} : "master" \in done}
  /\ variants' = variants \ {k \in {key} : "variants" \in done}

\* The body of a media job, and of an attachment job or of the sweep.
CollectImage(key) ==
  \E done \in SUBSET {"master", "variants"} :
    /\ RemoveImageArtifacts(key, done)
    /\ collected' = IF done = {"master", "variants"} THEN collected \cup {key} ELSE collected

CollectReceipt(key, job) ==
  /\ files' = files \ {key}
  /\ collected' = IF job THEN collected \cup {key} ELSE collected
  /\ UNCHANGED variants

Unreferenced(key) == References(key, Owners(StoreOf(key))) = {}

RunMediaGarbageCollection(key) ==
  /\ key \in Images /\ jobs[key] # "NONE"
  /\ MayCollect("images") /\ Unreferenced(key)
  /\ CollectImage(key)
  /\ UNCHANGED <<references, jobs, upload, operatorVars>>

RunAttachmentGarbageCollection(key) ==
  /\ key \in Receipts /\ jobs[key] # "NONE"
  /\ MayCollect("attachments") /\ Unreferenced(key)
  /\ CollectReceipt(key, TRUE)
  /\ UNCHANGED <<references, jobs, upload, operatorVars>>

\* After the mutex is released; a crash before it repeats the job.
MarkCollected(key) ==
  /\ key \in collected
  /\ jobs' = [jobs EXCEPT ![key] = "DONE"]
  /\ collected' = collected \ {key}
  /\ UNCHANGED <<files, variants, references, upload, operatorVars>>

SweepUnreferencedAttachments(key) ==
  /\ key \in Receipts \cap files
  /\ MayCollect("attachments") /\ Unreferenced(key)
  /\ CollectReceipt(key, FALSE)
  /\ UNCHANGED <<references, jobs, upload, operatorVars>>

\* The server ends: an upload is lost, the disk and the database stay.
FilesCrash ==
  /\ \E s \in Stores : ~Unlocked(s)
  /\ upload' = [s \in Stores |-> NoUpload]
  /\ collected' = {}
  /\ UNCHANGED <<files, variants, references, jobs, operatorVars>>

-----------------------------------------------------------------------------
(* Garbage collection by the command that has purged a group, in a process *)
(* of its own, one at a time.  It locks a mutex nobody else knows.         *)

OperatorStarts ==
  /\ ~operator.running
  /\ operator' = [running |-> TRUE, key |-> NoKey]
  /\ exposed' = exposed \cup {upload[s].key : s \in {t \in Stores : ~Unlocked(t)}}

\* The reference-free check; a receipt on disk needs no job.
OperatorChecks(key) ==
  /\ operator.running /\ operator.key = NoKey
  /\ jobs[key] # "NONE" \/ key \in Receipts \cap files
  /\ Unreferenced(key)
  /\ operator' = [operator EXCEPT !.key = key]
  /\ UNCHANGED <<files, variants, references, jobs, upload, collected, exposed>>

OperatorRemoves ==
  LET key == operator.key
  IN  /\ key # NoKey
      /\ \/ key \in Images /\ CollectImage(key)
         \/ key \in Receipts /\ \E job \in {FALSE, jobs[key] # "NONE"} : CollectReceipt(key, job)
      /\ operator' = [operator EXCEPT !.key = NoKey]
      /\ UNCHANGED <<references, jobs, upload, exposed>>

\* At the end of its lists or before.
OperatorEnds ==
  /\ operator.running
  /\ operator' = NoCollector
  /\ UNCHANGED <<files, variants, references, jobs, upload, collected, exposed>>

\* A purge deletes the rows of a group and leaves the files to the jobs.
\* Avatars belong to accounts.
ScheduleDeletion(group) ==
  LET theirs == {r \in references : r.group = group /\ r.owner # "avatar"}
  IN  /\ jobs' = [k \in Keys |-> IF \E r \in theirs : r.key = k THEN "PENDING" ELSE jobs[k]]
      /\ references' = references \ theirs
      /\ UNCHANGED <<files, variants, upload, collected>>
=============================================================================
