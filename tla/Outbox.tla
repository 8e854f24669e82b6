------------------------------- MODULE Outbox -------------------------------
(***************************************************************************)
(* The five leased outboxes: invitation, notification, account-security    *)
(* and public-join email, and Web Push.  Every queue is a table of its own *)
(* with its own dispatcher, and no step touches two queues, so a behaviour *)
(* is about one of them: the variable queue, chosen initially, says which. *)
(*                                                                         *)
(* One write transaction is one action.  Time is kept as its effects: a    *)
(* due job stands in line (in the order of next_attempt_at), a lease has   *)
(* lapsed or not, a subject has expired or not.  A lease token is a random *)
(* secret known to one claim of one worker; the worker stands for it, for  *)
(* a worker forgets its token before it claims again.                      *)
(***************************************************************************)
EXTENDS Naturals, Sequences, SequencesExt, FiniteSets

CONSTANTS
  Jobs,          \* messages of the queue
  Workers,       \* goroutines of its dispatcher
  MaxAttempts,   \* maximumDeliveryAttempts, maximumPushAttempts
  MaxRenewals,   \* bound: new secret links per message
  MaxFaults,     \* bound: crashes, stalls beyond the lease, lost answers
  None           \* no lease token

ASSUME OutboxAssumption ==
  /\ MaxAttempts \in Nat \ {0}
  /\ MaxRenewals \in Nat
  /\ MaxFaults \in Nat
  /\ None \notin Workers

VARIABLES
  queue,         \* which outbox
  row,           \* the outbox row of each message
  line,          \* the due rows in the order they are claimed
  subject,       \* what the message is about, with its secret link
  worker,        \* what each worker is doing
  available,     \* the sender is enabled and not paused
  accepted,      \* generations of each message the relay has accepted
  faults         \* crashes, stalls and lost answers so far

vars == <<queue, row, line, subject, worker, available, accepted, faults>>

Queues == {"invitation", "notification", "security", "join", "push"}
Open == {"PENDING", "SENDING"}
Settled == {"SENT", "FAILED", "CANCELLED", "EXPIRED"}

Row == [status : {"NONE"} \cup Open \cup Settled, attempts : 0 .. MaxAttempts,
        lease : Workers \cup {None}, lapsed : BOOLEAN]
Subject == [open : BOOLEAN, expired : BOOLEAN, link : 0 .. MaxRenewals]
Idle == [stage |-> "idle"]
Busy == [stage : {"claimed", "checked", "accepted", "refused", "unanswered"}, job : Jobs,
         attempts : 1 .. MaxAttempts, link : 0 .. MaxRenewals]

Init ==
  /\ queue \in Queues
  /\ row = [j \in Jobs |-> [status |-> "NONE", attempts |-> 0, lease |-> None, lapsed |-> FALSE]]
  /\ line = <<>>
  /\ subject = [j \in Jobs |-> [open |-> TRUE, expired |-> FALSE, link |-> 0]]
  /\ worker = [w \in Workers |-> Idle]
  /\ available = TRUE
  /\ accepted = [j \in Jobs |-> {}]
  /\ faults = 0

\* Mutant of Lapsed: a claim takes the rows of workers that still run.
LapsedAtOnce(r) == r.status = "SENDING"
Lapsed(r) == r.status = "SENDING" /\ r.lapsed
Unleased(r, status) == [r EXCEPT !.status = status, !.lease = None, !.lapsed = FALSE]
Uncounted(r) == [r EXCEPT !.attempts = IF @ > 0 THEN @ - 1 ELSE 0]

(***************************************************************************)
(* What each claimNext does to every row before it selects one.            *)
(***************************************************************************)
InvitationMaintained(r) ==
  IF r.attempts >= MaxAttempts /\ (r.status = "PENDING" \/ Lapsed(r))
  THEN Unleased(r, "FAILED") ELSE r

\* Mutant of NotificationMaintained: exhausted jobs are not given up.
NotificationRecovered(r) == IF Lapsed(r) THEN Unleased(r, "PENDING") ELSE r
NotificationMaintained(r) ==
  LET recovered == IF Lapsed(r) THEN Unleased(r, "PENDING") ELSE r
  IN  IF recovered.status = "PENDING" /\ recovered.attempts >= MaxAttempts
      THEN Unleased(recovered, "FAILED") ELSE recovered

SecurityMaintained(r, s) ==
  IF s.expired /\ ~s.open /\ r.status \in Open \cup {"FAILED"} THEN Unleased(r, "CANCELLED")
  ELSE IF Lapsed(r) THEN Unleased(r, IF r.attempts >= MaxAttempts THEN "FAILED" ELSE "PENDING")
  ELSE r

JoinMaintained(r) == IF Lapsed(r) THEN Unleased(r, "PENDING") ELSE r

PushMaintained(r, s) ==
  IF s.expired /\ r.status \in Open THEN Unleased(r, "EXPIRED")
  ELSE IF Lapsed(r) THEN Unleased(r, "PENDING") ELSE r

\* The account-security queue also closes the actions that have expired.
SubjectMaintained(s) ==
  IF queue = "security" /\ s.expired THEN [s EXCEPT !.open = FALSE] ELSE s

Maintained(r, s) ==
  CASE queue = "invitation" -> InvitationMaintained(r)
    [] queue = "notification" -> NotificationMaintained(r)
    [] queue = "security" -> SecurityMaintained(r, SubjectMaintained(s))
    [] queue = "join" -> JoinMaintained(r)
    [] OTHER -> PushMaintained(r, s)

(***************************************************************************)
(* Which row a claim takes.  Only the public-join queue does not compare   *)
(* the attempts with their maximum; the table's CHECK does, and rejects    *)
(* the whole transaction.                                                  *)
(***************************************************************************)
InvitationClaimable(r) == r.attempts < MaxAttempts /\ (r.status = "PENDING" \/ Lapsed(r))
NotificationClaimable(r) == r.attempts < MaxAttempts /\ r.status = "PENDING"
SecurityClaimable(r) == r.attempts < MaxAttempts /\ r.status = "PENDING"
JoinClaimable(r) == r.status = "PENDING"
PushClaimable(r) == r.attempts < MaxAttempts /\ r.status = "PENDING"

Claimable(r) ==
  CASE queue = "invitation" -> InvitationClaimable(r)
    [] queue = "notification" -> NotificationClaimable(r)
    [] queue = "security" -> SecurityClaimable(r)
    [] queue = "join" -> JoinClaimable(r)
    [] OTHER -> PushClaimable(r)

Rejected(r) == r.attempts >= MaxAttempts

Claimed(r, w) ==
  [status |-> "SENDING", attempts |-> r.attempts + 1, lease |-> w, lapsed |-> FALSE]

\* What stands in line after the maintenance: rows whose lease has lapsed
\* join it, rows that were given up leave it.
Due(rows) ==
  LET recovered == {j \in Jobs : row[j].status = "SENDING" /\ rows[j].status = "PENDING"}
  IN  SelectSeq(line \o SetToSeq(recovered),
                LAMBDA j : rows[j].status = "PENDING" \/ Lapsed(rows[j]))

Others(jobs, j) == SelectSeq(jobs, LAMBDA i : i # j)

NextInLine(j, due, rows) ==
  \E i \in DOMAIN due :
    /\ due[i] = j
    /\ Claimable(rows[j])
    /\ \A k \in 1 .. i - 1 : ~Claimable(rows[due[k]])

ClaimNext(w) ==
  LET rows == [j \in Jobs |-> Maintained(row[j], subject[j])]
      due == Due(rows)
  IN  /\ worker[w] = Idle
      /\ available
      /\ subject' = [j \in Jobs |-> SubjectMaintained(subject[j])]
      /\ \/ /\ \A i \in DOMAIN due : ~Claimable(rows[due[i]])
            /\ row' = rows
            /\ line' = due
            /\ UNCHANGED worker
         \/ \E j \in Jobs :
              /\ NextInLine(j, due, rows)
              /\ ~Rejected(rows[j])
              /\ row' = [rows EXCEPT ![j] = Claimed(@, w)]
              /\ line' = Others(due, j)
              /\ worker' = [worker EXCEPT ![w] =
                   [stage |-> "claimed", job |-> j, attempts |-> rows[j].attempts + 1,
                    link |-> subject[j].link]]
      /\ UNCHANGED <<queue, available, accepted, faults>>

(***************************************************************************)
(* The worker's own steps.  Holds is the condition of every update that    *)
(* ends a claim: the row is still SENDING under the worker's token.        *)
(***************************************************************************)
\* Mutant of Holds: the lease token is not compared.
HoldsAnyClaim(w, j) == row[j].status = "SENDING"
Holds(w, j) == row[j].status = "SENDING" /\ row[j].lease = w

InvitationAdmits(s) == s.open /\ ~s.expired
NotificationAdmits(s) == s.open
SecurityAdmits(s) == s.open /\ ~s.expired
JoinAdmits(s) == s.open /\ ~s.expired
PushAdmits(s) == s.open

Admits(s) ==
  CASE queue = "invitation" -> InvitationAdmits(s)
    [] queue = "notification" -> NotificationAdmits(s)
    [] queue = "security" -> SecurityAdmits(s)
    [] queue = "join" -> JoinAdmits(s)
    [] OTHER -> PushAdmits(s)

(***************************************************************************)
(* How a claim can end, and what becomes of the row r after n attempts.    *)
(* A release gives the claim back without counting the attempt.            *)
(***************************************************************************)
Endings == {"inadmissible", "sent", "failed", "released", "gone", "late"}

InvitationCancelled(r) == Uncounted(Unleased(r, "CANCELLED"))
NotificationDenied(r) == Unleased(r, "FAILED")
SecurityCancelled(r) == Unleased(r, "CANCELLED")
JoinCancelled(r) == Unleased(r, "CANCELLED")
PushTerminal(r, status) == Unleased(r, status)

InvitationFailed(r, n) == Unleased(r, IF n >= MaxAttempts THEN "FAILED" ELSE "PENDING")
NotificationFailed(r, n) == Unleased(r, IF n < MaxAttempts THEN "PENDING" ELSE "FAILED")
SecurityFailed(r, n) == Unleased(r, IF n < MaxAttempts THEN "PENDING" ELSE "FAILED")
JoinFailed(r, n) == Unleased(r, IF n < MaxAttempts THEN "PENDING" ELSE "FAILED")
\* A retry that would come after the job's expiry is not scheduled.
PushFailed(r, n, tooLate) ==
  IF n >= MaxAttempts THEN PushTerminal(r, "FAILED")
  ELSE IF tooLate THEN PushTerminal(r, "EXPIRED") ELSE Unleased(r, "PENDING")

InvitationSent(r) == Unleased(r, "SENT")
NotificationSent(r) == Unleased(r, "SENT")
SecuritySent(r) == Unleased(r, "SENT")
JoinSent(r) == Unleased(r, "SENT")
PushSent(r) == Unleased(r, "SENT")

InvitationReleased(r) == Uncounted(Unleased(r, "PENDING"))
NotificationReleased(r) == Uncounted(Unleased(r, "PENDING"))
SecurityReleased(r) == Uncounted(Unleased(r, "PENDING"))
JoinReleased(r) == Uncounted(Unleased(r, "PENDING"))
PushReleased(r) == Uncounted(Unleased(r, "PENDING"))

InvitationProcessed(how, r, n) ==
  CASE how = "inadmissible" -> InvitationCancelled(r)
    [] how = "sent" -> InvitationSent(r)
    [] how = "failed" -> InvitationFailed(r, n)
    [] how = "released" -> InvitationReleased(r)

NotificationProcessed(how, r, n) ==
  CASE how = "inadmissible" -> NotificationDenied(r)
    [] how = "sent" -> NotificationSent(r)
    [] how = "failed" -> NotificationFailed(r, n)
    [] how = "released" -> NotificationReleased(r)

SecurityProcessed(how, r, n) ==
  CASE how = "inadmissible" -> SecurityCancelled(r)
    [] how = "sent" -> SecuritySent(r)
    [] how = "failed" -> SecurityFailed(r, n)
    [] how = "released" -> SecurityReleased(r)

JoinProcessed(how, r, n) ==
  CASE how = "inadmissible" -> JoinCancelled(r)
    [] how = "sent" -> JoinSent(r)
    [] how = "failed" -> JoinFailed(r, n)
    [] how = "released" -> JoinReleased(r)

PushProcessed(how, r, n) ==
  CASE how \in {"inadmissible", "gone"} -> PushTerminal(r, "FAILED")
    [] how = "sent" -> PushSent(r)
    [] how = "failed" -> PushFailed(r, n, FALSE)
    [] how = "late" -> PushFailed(r, n, TRUE)
    [] how = "released" -> PushReleased(r)

Processed(how, r, n) ==
  CASE queue = "invitation" -> InvitationProcessed(how, r, n)
    [] queue = "notification" -> NotificationProcessed(how, r, n)
    [] queue = "security" -> SecurityProcessed(how, r, n)
    [] queue = "join" -> JoinProcessed(how, r, n)
    [] OTHER -> PushProcessed(how, r, n)

\* The claim ends: the row changes if the worker still holds it.
End(w, how) ==
  LET j == worker[w].job
  IN  /\ row' = IF Holds(w, j)
                THEN [row EXCEPT ![j] = Processed(how, @, worker[w].attempts)] ELSE row
      /\ line' = IF Holds(w, j) /\ how = "released" THEN Append(line, j) ELSE line
      /\ worker' = [worker EXCEPT ![w] = Idle]

\* The last look at the subject before the message leaves.
Check(w) ==
  /\ worker[w].stage = "claimed"
  /\ LET j == worker[w].job
     IN  \/ /\ Admits(subject[j])
            /\ worker' = [worker EXCEPT ![w].stage = "checked"]
            /\ UNCHANGED <<row, line, subject>>
         \/ /\ ~Admits(subject[j])
            /\ End(w, "inadmissible")
            /\ subject' = IF queue = "security" /\ Holds(w, j)
                          THEN [subject EXCEPT ![j].open = FALSE] ELSE subject
  /\ UNCHANGED <<queue, available, accepted, faults>>

Left(w) == accepted' = [accepted EXCEPT ![worker[w].job] = @ \cup {worker[w].link}]

\* The relay answers: it has taken the message, or refuses it.
SendAccepted(w) ==
  /\ worker[w].stage = "checked"
  /\ available
  /\ Left(w)
  /\ worker' = [worker EXCEPT ![w].stage = "accepted"]
  /\ UNCHANGED <<queue, row, line, subject, available, faults>>

SendRefused(w) ==
  /\ worker[w].stage = "checked"
  /\ available
  /\ worker' = [worker EXCEPT ![w].stage = "refused"]
  /\ UNCHANGED <<queue, row, line, subject, available, accepted, faults>>

\* The relay has taken the message, but its answer does not arrive.
SendUnanswered(w) ==
  /\ worker[w].stage = "checked"
  /\ available
  /\ faults < MaxFaults
  /\ Left(w)
  /\ worker' = [worker EXCEPT ![w].stage = "unanswered"]
  /\ faults' = faults + 1
  /\ UNCHANGED <<queue, row, line, subject, available>>

\* A push service answers 404 or 410: the device is revoked.
SendGone(w) ==
  /\ queue = "push"
  /\ worker[w].stage = "checked"
  /\ available
  /\ subject' = [subject EXCEPT ![worker[w].job].open = FALSE]
  /\ End(w, "gone")
  /\ UNCHANGED <<queue, available, accepted, faults>>

MarkSent(w) ==
  /\ worker[w].stage = "accepted"
  /\ End(w, "sent")
  /\ UNCHANGED <<queue, subject, available, accepted, faults>>

RecordFailure(w) ==
  /\ worker[w].stage \in {"refused", "unanswered"}
  /\ \E how \in {"failed", "late"} :
       /\ how = "late" => queue = "push"
       /\ subject[worker[w].job].expired /\ queue = "push" => how = "late"
       /\ End(w, how)
  /\ UNCHANGED <<queue, subject, available, accepted, faults>>

\* The sender became unavailable, or the send was cancelled or ran into its
\* deadline.
Release(w) ==
  /\ \/ /\ worker[w].stage \in {"claimed", "checked"}
        /\ ~available
        /\ UNCHANGED faults
     \/ /\ worker[w].stage \in {"claimed", "checked"}
        /\ available
        /\ faults < MaxFaults
        /\ faults' = faults + 1
     \/ /\ worker[w].stage = "unanswered"
        /\ UNCHANGED faults
  /\ End(w, "released")
  /\ UNCHANGED <<queue, subject, available, accepted>>

\* The process ends, or a read fails after the claim: the row keeps its lease.
Abandon(w) ==
  /\ worker[w] # Idle
  /\ faults < MaxFaults
  /\ worker' = [worker EXCEPT ![w] = Idle]
  /\ faults' = faults + 1
  /\ UNCHANGED <<queue, row, line, subject, available, accepted>>

(***************************************************************************)
(* Time.                                                                   *)
(***************************************************************************)
\* A failed attempt's delay is over.
RetryDue(j) ==
  /\ row[j].status = "PENDING"
  /\ j \notin ToSet(line)
  /\ line' = Append(line, j)
  /\ UNCHANGED <<queue, row, subject, worker, available, accepted, faults>>

Working(w, j) == worker[w] # Idle /\ worker[w].job = j

\* A lease runs out.  Sends end well before it, so that a worker which still
\* works on the job has been suspended.
LeaseRunsOut(j) ==
  /\ row[j].status = "SENDING"
  /\ ~row[j].lapsed
  /\ IF Working(row[j].lease, j)
     THEN faults < MaxFaults /\ faults' = faults + 1
     ELSE UNCHANGED faults
  /\ row' = [row EXCEPT ![j].lapsed = TRUE]
  /\ line' = IF queue = "invitation" THEN Append(line, j) ELSE line
  /\ UNCHANGED <<queue, subject, worker, available, accepted>>

\* The invitation, action, registration or push job expires.
Expire(j) ==
  /\ queue # "notification"
  /\ row[j].status # "NONE"
  /\ ~subject[j].expired
  /\ subject' = [subject EXCEPT ![j].expired = TRUE]
  /\ UNCHANGED <<queue, row, line, worker, available, accepted, faults>>

(***************************************************************************)
(* Producers and owners of the subjects.                                   *)
(***************************************************************************)
Fresh == [status |-> "PENDING", attempts |-> 0, lease |-> None, lapsed |-> FALSE]
Without(j) == Others(line, j)

\* The message is queued in the transaction of the business event.
Queue(j) ==
  /\ row[j].status = "NONE"
  /\ available
  /\ Admits(subject[j])
  /\ row' = [row EXCEPT ![j] = Fresh]
  /\ line' = Append(line, j)
  /\ UNCHANGED <<queue, subject, worker, available, accepted, faults>>

RetryInvitationEmail(j) ==
  /\ queue = "invitation"
  /\ row[j].status = "FAILED"
  /\ InvitationAdmits(subject[j])
  /\ row' = [row EXCEPT ![j] = Fresh]
  /\ line' = Append(line, j)
  /\ UNCHANGED <<queue, subject, worker, available, accepted, faults>>

NewLink(j) ==
  /\ subject[j].link < MaxRenewals
  /\ subject' = [subject EXCEPT ![j].link = @ + 1, ![j].expired = FALSE]

Renewed(j) ==
  /\ NewLink(j)
  /\ row' = [row EXCEPT ![j] = Fresh]
  /\ line' = Append(Without(j), j)

\* Mutant of LinkHandedOut: the report about the old link stays.
LinkReported(j) ==
  /\ NewLink(j)
  /\ UNCHANGED <<row, line>>

\* The new link is handed out on the screen; the row, if any, is cancelled.
LinkHandedOut(j) ==
  /\ NewLink(j)
  /\ row' = [row EXCEPT ![j] = IF @.status = "NONE" THEN @ ELSE Unleased(@, "CANCELLED")]
  /\ UNCHANGED line

\* The handler decides between the two by the SMTP setting it read with the
\* request, before the transaction: either may happen whatever is set now.
ResendInvitationEmail(j) ==
  /\ queue = "invitation"
  /\ row[j].status \notin Open
  /\ subject[j].open
  /\ Renewed(j) \/ LinkHandedOut(j)
  /\ UNCHANGED <<queue, worker, available, accepted, faults>>

\* A registrant asks for the message again, whatever became of the first one.
ResendPublicJoinVerification(j) ==
  /\ queue = "join"
  /\ row[j].status # "NONE"
  /\ JoinAdmits(subject[j])
  /\ Renewed(j)
  /\ UNCHANGED <<queue, worker, available, accepted, faults>>

\* The subject ends in a transaction that also ends what is still to be sent:
\* an invitation is revoked, planning is switched off, an action is used or
\* replaced, a join link is invalidated, a device is taken over by another
\* account.
Ended(r, ending, status) == IF r.status \in ending THEN Unleased(r, status) ELSE r
InvitationRevoked(r) == Ended(r, Open \cup {"FAILED"}, "CANCELLED")
PlanningDisabled(r) == Ended(r, Open, "FAILED")
ActionInvalidated(r) == Ended(r, Open \cup {"FAILED"}, "CANCELLED")
JoinLinkInvalidated(r) == Ended(r, Open \cup {"FAILED"}, "CANCELLED")
DeviceReassigned(r) == Ended(r, Open, "EXPIRED")

Withdraw(j) ==
  /\ row[j].status # "NONE"
  /\ subject[j].open
  /\ subject' = [subject EXCEPT ![j].open = FALSE]
  /\ row' = [row EXCEPT ![j] =
       CASE queue = "invitation" -> InvitationRevoked(@)
         [] queue = "notification" -> PlanningDisabled(@)
         [] queue = "security" -> ActionInvalidated(@)
         [] queue = "join" -> JoinLinkInvalidated(@)
         [] OTHER -> DeviceReassigned(@)]
  /\ line' = IF row'[j].status = "PENDING" THEN line ELSE Without(j)
  /\ UNCHANGED <<queue, worker, available, accepted, faults>>

\* A preference, a membership or a device changes and leaves the jobs alone.
SetPreference(j) ==
  /\ queue \in {"notification", "push"}
  /\ row[j].status # "NONE"
  /\ subject' = [subject EXCEPT ![j].open = ~@]
  /\ UNCHANGED <<queue, row, line, worker, available, accepted, faults>>

\* An operator pauses delivery or resumes it.
SetAvailable ==
  /\ available' = ~available
  /\ UNCHANGED <<queue, row, line, subject, worker, accepted, faults>>

WorkerStep(w) ==
  \/ ClaimNext(w)
  \/ Check(w)
  \/ SendAccepted(w)
  \/ SendRefused(w)
  \/ SendUnanswered(w)
  \/ SendGone(w)
  \/ MarkSent(w)
  \/ RecordFailure(w)
  \/ Release(w)

Producer(j) ==
  \/ Queue(j)
  \/ RetryInvitationEmail(j)
  \/ ResendInvitationEmail(j)
  \/ ResendPublicJoinVerification(j)
  \/ Withdraw(j)
  \/ SetPreference(j)

Next ==
  \/ \E w \in Workers : WorkerStep(w) \/ Abandon(w)
  \/ \E j \in Jobs : RetryDue(j) \/ LeaseRunsOut(j) \/ Expire(j) \/ Producer(j)
  \/ SetAvailable

Spec == Init /\ [][Next]_vars

\* Workers poll as long as the process runs, and time passes.
Fairness ==
  /\ \A w \in Workers : WF_vars(WorkerStep(w))
  /\ \A j \in Jobs : WF_vars(RetryDue(j)) /\ WF_vars(LeaseRunsOut(j)) /\ WF_vars(Expire(j))

FairSpec == Spec /\ Fairness
-----------------------------------------------------------------------------
(***************************************************************************)
(* The outbox keeps Delivery's promise.                                    *)
(***************************************************************************)
Phase(r) ==
  CASE r.status = "NONE" -> "absent"
    [] r.status \in Open -> "queued"
    [] r.status = "SENT" -> "delivered"
    [] OTHER -> "dropped"

Abstract == INSTANCE Delivery WITH
  phase <- [j \in Jobs |-> Phase(row[j])],
  content <- [j \in Jobs |-> subject[j].link]

\* A message is reported SENT only after the relay has accepted it with its
\* current link, and this report is only taken back when the link is replaced,
\* by one that is queued or one that is handed out on the screen (markSent under
\* the lease token, against resends while a worker still sends the old link).
KeepsPromise == Abstract!AbstractSpec

\* Without crashes, suspensions and lost answers nobody gets a message twice:
\* leases keep the workers apart, and a claim that was released, cancelled or
\* replaced by a resend has sent nothing.
NoNeedlessDuplicate ==
  [][\A w \in Workers :
       worker[w].stage = "checked" /\ worker'[w].stage = "accepted"
         => worker[w].link \notin accepted[worker[w].job] \/ faults > 0]_vars

\* Once delivery stays available every queued message is settled: sent,
\* given up, cancelled or expired.  The public-join queue is left out: see
\* JoinMessagesSettle.
MessagesSettle ==
  <>[]available /\ queue # "join" =>
    \A j \in Jobs : row[j].status \in Open ~> row[j].status \in Settled

\* "Sender failures are retried durably": with delivery available and no
\* further faults every registration message is settled as well.
JoinMessagesSettle ==
  <>[]available /\ queue = "join" =>
    \A j \in Jobs : row[j].status \in Open ~> row[j].status \in Settled
=============================================================================
