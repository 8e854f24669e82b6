---------------------------- MODULE MCExportJobs ----------------------------
(***************************************************************************)
(* Three casts.  On a prompt host at most a tick passes between publishing *)
(* an archive and completing its job: two workers share it, or one that    *)
(* may crash.  On a slow host the lease may run out in between.            *)
(***************************************************************************)
EXTENDS ExportJobs

CONSTANTS w1, w2

VARIABLE cast

MCWorkers == {w1, w2}
Casts ==
    {[prompt |-> TRUE, workers |-> {w1, w2}, crashes |-> 0],
     [prompt |-> TRUE, workers |-> {w1}, crashes |-> MaxCrashes],
     [prompt |-> FALSE, workers |-> {w1, w2}, crashes |-> 0]}

Plays(w) == w \in cast.workers /\ WorkerStep(w)

MCInit == Init /\ cast \in Casts
MCNext ==
    /\ Next /\ UNCHANGED cast
    /\ cast.prompt => Prompt'
    /\ crashes' <= cast.crashes
    /\ \A w \in Workers \ cast.workers : workers'[w] = workers[w]

MCFairness == WF_vars(Tick) /\ WF_vars(CleanerStep) /\ \A w \in Workers : WF_vars(Plays(w))

MCSpec == MCInit /\ [][MCNext]_<<vars, cast>> /\ MCFairness

\* On a prompt host a READY job has its archive: an obsolete worker deletes
\* only what it published itself, and Cleanup spares fresh archives.
PromptlyReadyHasArchive == cast.prompt => ReadyHasArchive
=============================================================================
