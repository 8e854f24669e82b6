------------------------------ MODULE MCOutbox ------------------------------
(***************************************************************************)
(* One outbox at a time, with a cast: the jobs that are ever queued and    *)
(* the workers that run.  Two workers contend for one job, and one worker  *)
(* serves a line of two, whose links are not replaced.                     *)
(***************************************************************************)
EXTENDS Outbox

CONSTANTS j1, j2, w1, w2

VARIABLE cast

MCJobs == {j1, j2}
MCWorkers == {w1, w2}
Casts == {[jobs |-> {j1}, workers |-> {w1, w2}], [jobs |-> {j1, j2}, workers |-> {w1}]}

Plays(w) == w \in cast.workers /\ WorkerStep(w)

MCInit == Init /\ cast \in Casts

MCNext ==
  /\ \/ \E w \in cast.workers : WorkerStep(w) \/ Abandon(w)
     \/ \E j \in cast.jobs : RetryDue(j) \/ LeaseRunsOut(j) \/ Expire(j) \/ Producer(j)
     \/ SetAvailable
  /\ cast.jobs = {j1} \/ \A j \in Jobs : subject'[j].link = 0
  /\ UNCHANGED cast

MCFairness ==
  /\ \A w \in Workers : WF_vars(Plays(w))
  /\ \A j \in Jobs : WF_vars(RetryDue(j)) /\ WF_vars(LeaseRunsOut(j)) /\ WF_vars(Expire(j))

MCSpec == MCInit /\ [][MCNext]_<<vars, cast>> /\ MCFairness
=============================================================================
