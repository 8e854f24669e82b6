---------------------------- MODULE OutboxProofs ----------------------------
(***************************************************************************)
(* Proofs about module Outbox, for every set of jobs and workers and every *)
(* bound: the outbox implements Delivery, and without faults nobody gets a *)
(* message twice.                                                          *)
(***************************************************************************)
EXTENDS Outbox, TLAPS

Types ==
  /\ queue \in Queues
  /\ row \in [Jobs -> Row]
  /\ subject \in [Jobs -> Subject]
  /\ worker \in [Workers -> Busy \cup {Idle}]
  /\ available \in BOOLEAN
  /\ accepted \in [Jobs -> SUBSET Nat]
  /\ faults \in Nat

\* What a worker has in hand: a message that was queued, in its current
\* wording or an older one; while its lease lasts, in the current one; and
\* the relay has it when the worker believes so.
Grip(w) ==
  worker[w] # Idle =>
    LET j == worker[w].job
    IN  /\ row[j].status # "NONE"
        /\ worker[w].link <= subject[j].link
        /\ Holds(w, j) => worker[w].link = subject[j].link
        /\ worker[w].stage = "accepted" => worker[w].link \in accepted[j]

PromiseInv == Types /\ \A w \in Workers : Grip(w)

-----------------------------------------------------------------------------
(***************************************************************************)
(* The operators on rows.                                                  *)
(***************************************************************************)

\* Giving up a lease keeps the attempts and ends in the status asked for.
LEMMA UnleasedRow ==
  ASSUME NEW r \in Row, NEW s \in {"NONE"} \cup Open \cup Settled
  PROVE  /\ Unleased(r, s) \in Row
         /\ Unleased(r, s).status = s
         /\ Unleased(r, s).attempts = r.attempts
         /\ Unleased(r, s).lease = None
         /\ ~Unleased(r, s).lapsed
BY DEF Unleased, Row

LEMMA UncountedRow ==
  ASSUME NEW r \in Row
  PROVE  /\ Uncounted(r) \in Row
         /\ Uncounted(r).status = r.status
         /\ Uncounted(r).lease = r.lease
         /\ Uncounted(r).lapsed = r.lapsed
BY OutboxAssumption DEF Uncounted, Row

\* Maintenance recovers, gives up, cancels or expires rows; it never touches
\* one whose lease still runs unless its message is cancelled or expired, and
\* settles nothing as sent.
LEMMA MaintainedRow ==
  ASSUME queue \in Queues, NEW r \in Row, NEW s \in Subject
  PROVE  LET m == Maintained(r, s)
         IN  /\ m \in Row
             /\ m.status = "SENDING" => m = r
             /\ r.status \notin Open => Phase(m) = Phase(r)
             /\ r.status \in Open => Phase(m) \in {"queued", "dropped"}
             /\ r.status = "NONE" <=> m.status = "NONE"
<1> USE UnleasedRow DEF Open, Settled, Phase
<1>1. CASE queue = "invitation"
  BY <1>1 DEF Maintained, InvitationMaintained, Lapsed, Row
<1>2. CASE queue = "notification"
  BY <1>2 DEF Maintained, NotificationMaintained, Lapsed, Row
<1>3. CASE queue = "security"
  BY <1>3 DEF Maintained, SecurityMaintained, Lapsed, Row
<1>4. CASE queue = "join"
  BY <1>4 DEF Maintained, JoinMaintained, Lapsed, Row
<1>5. CASE queue = "push"
  BY <1>5 DEF Maintained, PushMaintained, Lapsed, Row
<1> QED BY <1>1, <1>2, <1>3, <1>4, <1>5 DEF Queues

\* How a claim can end, for each queue: the row is released, retried, given
\* up or cancelled, and sent only after the relay has accepted the message.
Outcomes(how) ==
  IF how = "sent" THEN {"SENT"}
  ELSE IF how = "released" THEN {"PENDING"}
  ELSE IF how \in {"inadmissible", "gone"} THEN {"FAILED", "CANCELLED"}
  ELSE {"PENDING", "FAILED", "EXPIRED"}

LEMMA ProcessedRow ==
  ASSUME queue \in Queues, NEW r \in Row, NEW n \in 1 .. MaxAttempts,
         NEW how \in Endings, how \in {"gone", "late"} => queue = "push"
  PROVE  /\ Processed(how, r, n) \in Row
         /\ Processed(how, r, n).status \in Outcomes(how)
         /\ queue = "invitation" /\ Processed(how, r, n).status = "FAILED" => how = "failed"
<1> USE UnleasedRow, UncountedRow DEF Open, Settled, Outcomes
<1>1. CASE queue = "invitation"
  <2>0. Processed(how, r, n) = InvitationProcessed(how, r, n)
    BY <1>1 DEF Processed
  <2>1. CASE how = "inadmissible"
    BY <1>1, <2>0, <2>1 DEF InvitationProcessed, InvitationCancelled
  <2>2. CASE how = "sent"
    BY <1>1, <2>0, <2>2 DEF InvitationProcessed, InvitationSent
  <2>3. CASE how = "failed"
    BY <1>1, <2>0, <2>3 DEF InvitationProcessed, InvitationFailed
  <2>4. CASE how = "released"
    BY <1>1, <2>0, <2>4 DEF InvitationProcessed, InvitationReleased
  <2> QED BY <1>1, <2>1, <2>2, <2>3, <2>4 DEF Endings
<1>2. CASE queue = "notification"
  <2>0. Processed(how, r, n) = NotificationProcessed(how, r, n)
    BY <1>2 DEF Processed
  <2>1. CASE how = "inadmissible"
    BY <1>2, <2>0, <2>1 DEF NotificationProcessed, NotificationDenied
  <2>2. CASE how = "sent"
    BY <1>2, <2>0, <2>2 DEF NotificationProcessed, NotificationSent
  <2>3. CASE how = "failed"
    BY <1>2, <2>0, <2>3 DEF NotificationProcessed, NotificationFailed
  <2>4. CASE how = "released"
    BY <1>2, <2>0, <2>4 DEF NotificationProcessed, NotificationReleased
  <2> QED BY <1>2, <2>1, <2>2, <2>3, <2>4 DEF Endings
<1>3. CASE queue = "security"
  <2>0. Processed(how, r, n) = SecurityProcessed(how, r, n)
    BY <1>3 DEF Processed
  <2>1. CASE how = "inadmissible"
    BY <1>3, <2>0, <2>1 DEF SecurityProcessed, SecurityCancelled
  <2>2. CASE how = "sent"
    BY <1>3, <2>0, <2>2 DEF SecurityProcessed, SecuritySent
  <2>3. CASE how = "failed"
    BY <1>3, <2>0, <2>3 DEF SecurityProcessed, SecurityFailed
  <2>4. CASE how = "released"
    BY <1>3, <2>0, <2>4 DEF SecurityProcessed, SecurityReleased
  <2> QED BY <1>3, <2>1, <2>2, <2>3, <2>4 DEF Endings
<1>4. CASE queue = "join"
  <2>0. Processed(how, r, n) = JoinProcessed(how, r, n)
    BY <1>4 DEF Processed
  <2>1. CASE how = "inadmissible"
    BY <1>4, <2>0, <2>1 DEF JoinProcessed, JoinCancelled
  <2>2. CASE how = "sent"
    BY <1>4, <2>0, <2>2 DEF JoinProcessed, JoinSent
  <2>3. CASE how = "failed"
    BY <1>4, <2>0, <2>3 DEF JoinProcessed, JoinFailed
  <2>4. CASE how = "released"
    BY <1>4, <2>0, <2>4 DEF JoinProcessed, JoinReleased
  <2> QED BY <1>4, <2>1, <2>2, <2>3, <2>4 DEF Endings
<1>5. CASE queue = "push"
  <2>0. Processed(how, r, n) = PushProcessed(how, r, n)
    BY <1>5 DEF Processed
  <2>1. CASE how = "inadmissible"
    BY <1>5, <2>0, <2>1 DEF PushProcessed, PushTerminal
  <2>2. CASE how = "sent"
    BY <1>5, <2>0, <2>2 DEF PushProcessed, PushSent
  <2>3. CASE how = "failed"
    BY <1>5, <2>0, <2>3 DEF PushProcessed, PushFailed, PushTerminal
  <2>4. CASE how = "released"
    BY <1>5, <2>0, <2>4 DEF PushProcessed, PushReleased
  <2>5. CASE how = "gone"
    BY <1>5, <2>0, <2>5 DEF PushProcessed, PushTerminal
  <2>6. CASE how = "late"
    <3>1. PushProcessed(how, r, n) = PushFailed(r, n, TRUE)
      BY <2>6 DEF PushProcessed
    <3> QED BY <1>5, <2>0, <2>6, <3>1 DEF PushFailed, PushTerminal
  <2> QED BY <1>5, <2>1, <2>2, <2>3, <2>4, <2>5, <2>6 DEF Endings
<1> QED BY <1>1, <1>2, <1>3, <1>4, <1>5 DEF Queues

\* A row that may be claimed is open and, after maintenance, not another
\* worker's.
LEMMA ClaimableRow ==
  ASSUME queue \in Queues, NEW r \in Row, Claimable(r)
  PROVE  r.status = "PENDING" \/ (queue = "invitation" /\ Lapsed(r))
<1>1. CASE queue = "invitation"
  BY <1>1 DEF Claimable, InvitationClaimable
<1>2. CASE queue = "notification"
  BY <1>2 DEF Claimable, NotificationClaimable
<1>3. CASE queue = "security"
  BY <1>3 DEF Claimable, SecurityClaimable
<1>4. CASE queue = "join"
  BY <1>4 DEF Claimable, JoinClaimable
<1>5. CASE queue = "push"
  BY <1>5 DEF Claimable, PushClaimable
<1> QED BY <1>1, <1>2, <1>3, <1>4, <1>5 DEF Queues

LEMMA SubjectKept ==
  ASSUME NEW s \in Subject
  PROVE  SubjectMaintained(s) \in Subject /\ SubjectMaintained(s).link = s.link
BY DEF SubjectMaintained, Subject

-----------------------------------------------------------------------------
(***************************************************************************)
(* The steps of a worker.                                                  *)
(***************************************************************************)

\* What a claim does, apart from the line: every row is maintained, and the
\* worker may take a row that was open.
LEMMA ClaimStep ==
  ASSUME PromiseInv, NEW w \in Workers, ClaimNext(w)
  PROVE  /\ row' \in [Jobs -> Row]
         /\ subject' \in [Jobs -> Subject]
         /\ worker' \in [Workers -> Busy \cup {Idle}]
         /\ worker[w] = Idle
         /\ UNCHANGED <<queue, available, accepted, faults>>
         /\ \A j \in Jobs : /\ subject'[j].link = subject[j].link
                            /\ row[j].status \notin Open => Phase(row'[j]) = Phase(row[j])
                            /\ row[j].status \in Open => Phase(row'[j]) \in {"queued", "dropped"}
         /\ \/ /\ worker' = worker
               /\ \A j \in Jobs : row'[j] = Maintained(row[j], subject[j])
            \/ \E j \in Jobs :
                 /\ row[j].status \in Open
                 /\ row'[j].status = "SENDING" /\ row'[j].lease = w /\ ~row'[j].lapsed
                 /\ worker' = [worker EXCEPT ![w] =
                      [stage |-> "claimed", job |-> j, attempts |-> row'[j].attempts,
                       link |-> subject[j].link]]
                 /\ Maintained(row[j], subject[j]).status = "PENDING"
                      \/ (queue = "invitation" /\ Lapsed(Maintained(row[j], subject[j])))
                 /\ \A i \in Jobs \ {j} : row'[i] = Maintained(row[i], subject[i])
<1> DEFINE rows == [j \in Jobs |-> Maintained(row[j], subject[j])]
           due == Due(rows)
<1>1. /\ worker[w] = Idle
      /\ subject' = [j \in Jobs |-> SubjectMaintained(subject[j])]
      /\ UNCHANGED <<queue, available, accepted, faults>>
  BY DEF ClaimNext
<1>2. rows \in [Jobs -> Row]
  BY MaintainedRow DEF PromiseInv, Types
<1>3. /\ subject' \in [Jobs -> Subject]
      /\ \A j \in Jobs : subject'[j].link = subject[j].link
  BY <1>1, SubjectKept DEF PromiseInv, Types
<1>4. \A j \in Jobs : /\ row[j].status \notin Open => Phase(rows[j]) = Phase(row[j])
                      /\ row[j].status \in Open => Phase(rows[j]) \in {"queued", "dropped"}
  BY MaintainedRow DEF PromiseInv, Types
<1>5. CASE row' = rows /\ UNCHANGED worker
  BY <1>1, <1>2, <1>3, <1>4, <1>5 DEF PromiseInv, Types
<1>6. CASE \E j \in Jobs :
             /\ NextInLine(j, due, rows)
             /\ ~Rejected(rows[j])
             /\ row' = [rows EXCEPT ![j] = Claimed(@, w)]
             /\ worker' = [worker EXCEPT ![w] =
                  [stage |-> "claimed", job |-> j, attempts |-> rows[j].attempts + 1,
                   link |-> subject[j].link]]
  <2>1. PICK j \in Jobs :
             /\ NextInLine(j, due, rows)
             /\ ~Rejected(rows[j])
             /\ row' = [rows EXCEPT ![j] = Claimed(@, w)]
             /\ worker' = [worker EXCEPT ![w] =
                  [stage |-> "claimed", job |-> j, attempts |-> rows[j].attempts + 1,
                   link |-> subject[j].link]]
    BY <1>6
  <2>2. Claimable(rows[j])
    BY <2>1 DEF NextInLine
  <2>3. /\ rows[j] \in Row /\ rows[j] = Maintained(row[j], subject[j])
        /\ queue \in Queues /\ row[j] \in Row /\ subject[j] \in Subject
    BY <1>2 DEF PromiseInv, Types
  <2>4. rows[j].status = "PENDING" \/ (queue = "invitation" /\ Lapsed(rows[j]))
    BY <2>2, <2>3, ClaimableRow
  <2>5. rows[j].status \in Open
    BY <2>4 DEF Open, Lapsed
  <2>6. row[j].status \in Open
    BY <2>3, <2>5, MaintainedRow DEF Open, Phase, Row, Settled
  <2>7. /\ Claimed(rows[j], w) \in Row
        /\ Claimed(rows[j], w).attempts = rows[j].attempts + 1
        /\ rows[j].attempts + 1 \in 1 .. MaxAttempts
        /\ Claimed(rows[j], w).status = "SENDING"
        /\ Claimed(rows[j], w).lease = w /\ ~Claimed(rows[j], w).lapsed
    BY <2>1, <2>3, OutboxAssumption DEF Claimed, Row, Rejected, Open
  <2>8. row'[j] = Claimed(rows[j], w) /\ \A i \in Jobs \ {j} : row'[i] = rows[i]
    BY <2>1, <1>2
  <2>9. row' \in [Jobs -> Row]
    BY <2>1, <2>7, <1>2
  <2>10. worker' \in [Workers -> Busy \cup {Idle}]
    BY <2>1, <2>3, <2>7 DEF PromiseInv, Types, Busy, Subject
  <2>11. \A i \in Jobs : /\ row[i].status \notin Open => Phase(row'[i]) = Phase(row[i])
                         /\ row[i].status \in Open => Phase(row'[i]) \in {"queued", "dropped"}
    <3>1. Phase(row'[j]) = "queued"
      BY <2>7, <2>8 DEF Phase, Open
    <3> QED BY <3>1, <2>6, <2>8, <1>4
  <2> QED BY <1>1, <1>3, <2>1, <2>3, <2>4, <2>6, <2>7, <2>8, <2>9, <2>10, <2>11
<1> QED BY <1>5, <1>6 DEF ClaimNext

\* The end of a claim changes the row only while the worker holds it.
LEMMA EndStep ==
  ASSUME PromiseInv, NEW w \in Workers, worker[w] # Idle, NEW how \in Endings,
         how \in {"gone", "late"} => queue = "push", End(w, how)
  PROVE  LET j == worker[w].job
         IN  /\ j \in Jobs
             /\ row' \in [Jobs -> Row]
             /\ worker' = [worker EXCEPT ![w] = Idle]
             /\ \A i \in Jobs \ {j} : row'[i] = row[i]
             /\ ~Holds(w, j) => row' = row
             /\ Holds(w, j) =>
                  /\ row[j].status = "SENDING"
                  /\ row'[j].status \in Outcomes(how)
                  /\ queue = "invitation" /\ row'[j].status = "FAILED" => how = "failed"
<1> DEFINE j == worker[w].job
<1>1. worker[w] \in Busy /\ j \in Jobs /\ worker[w].attempts \in 1 .. MaxAttempts
  BY DEF PromiseInv, Types, Busy
<1>2. /\ Processed(how, row[j], worker[w].attempts) \in Row
      /\ Processed(how, row[j], worker[w].attempts).status \in Outcomes(how)
      /\ queue = "invitation" /\ Processed(how, row[j], worker[w].attempts).status = "FAILED"
           => how = "failed"
  BY <1>1, ProcessedRow DEF PromiseInv, Types
<1>3. CASE Holds(w, j)
  <2>1. row' = [row EXCEPT ![j] = Processed(how, @, worker[w].attempts)]
    BY <1>3 DEF End
  <2>2. row[j].status = "SENDING" /\ worker' = [worker EXCEPT ![w] = Idle]
    BY <1>3 DEF End, Holds
  <2> QED BY <1>1, <1>2, <1>3, <2>1, <2>2 DEF PromiseInv, Types
<1>4. CASE ~Holds(w, j)
  BY <1>1, <1>4 DEF End, PromiseInv, Types
<1> QED BY <1>3, <1>4

\* A worker that takes no part in a step keeps its grip, provided the step
\* neither removes the row, nor gives the worker a lease it did not have, nor
\* renews the message while it has one.
LEMMA GripKept ==
  ASSUME Types, Types', NEW w \in Workers, Grip(w), worker'[w] = worker[w],
         \A j \in Jobs : /\ row[j].status # "NONE" => row'[j].status # "NONE"
                         /\ subject[j].link <= subject'[j].link
                         /\ accepted[j] \subseteq accepted'[j]
                         /\ row'[j].status = "SENDING" /\ row'[j].lease = w =>
                              /\ row[j].status = "SENDING" /\ row[j].lease = w
                              /\ subject'[j].link = subject[j].link
  PROVE  Grip(w)'
<1>1. CASE worker[w] = Idle
  BY <1>1 DEF Grip
<1>2. CASE worker[w] # Idle
  <2>1. /\ worker[w].job \in Jobs /\ worker[w].link \in Nat
        /\ subject[worker[w].job].link \in Nat /\ subject'[worker[w].job].link \in Nat
    BY <1>2, OutboxAssumption DEF Types, Busy, Subject
  <2> QED BY <1>2, <2>1 DEF Grip, Holds
<1> QED BY <1>1, <1>2

\* The end of a claim keeps everybody's grip.
LEMMA EndKeepsPromiseInv ==
  ASSUME PromiseInv, NEW w \in Workers, worker[w] # Idle, NEW how \in Endings,
         how \in {"gone", "late"} => queue = "push", End(w, how),
         UNCHANGED <<queue, available, accepted>>, faults' \in Nat,
         subject' \in [Jobs -> Subject],
         \A j \in Jobs : subject'[j].link = subject[j].link
  PROVE  PromiseInv'
<1> DEFINE j == worker[w].job
<1>1. /\ j \in Jobs
      /\ row' \in [Jobs -> Row]
      /\ worker' = [worker EXCEPT ![w] = Idle]
      /\ \A i \in Jobs \ {j} : row'[i] = row[i]
      /\ ~Holds(w, j) => row' = row
      /\ Holds(w, j) => row[j].status = "SENDING" /\ row'[j].status \in Outcomes(how)
  BY EndStep
<1>2. Types'
  BY <1>1 DEF PromiseInv, Types
<1>3. Outcomes(how) \cap {"NONE", "SENDING"} = {}
  BY DEF Outcomes
<1>4. Grip(w)'
  BY <1>1 DEF Grip, PromiseInv, Types
<1>5. ASSUME NEW v \in Workers, v # w
      PROVE  Grip(v)'
  <2>1. worker'[v] = worker[v] /\ Grip(v) /\ Types
    BY <1>1, <1>5 DEF PromiseInv, Types
  <2>2. ASSUME NEW i \in Jobs
        PROVE  /\ row[i].status # "NONE" => row'[i].status # "NONE"
               /\ subject[i].link <= subject'[i].link
               /\ accepted[i] \subseteq accepted'[i]
               /\ row'[i].status = "SENDING" /\ row'[i].lease = v =>
                    /\ row[i].status = "SENDING" /\ row[i].lease = v
                    /\ subject'[i].link = subject[i].link
    <3>1. row'[i] = row[i] \/ row'[i].status \notin {"NONE", "SENDING"}
      BY <1>1, <1>3
    <3>2. subject[i].link <= subject'[i].link
      BY OutboxAssumption DEF PromiseInv, Types, Subject
    <3> QED BY <3>1, <3>2
  <2> QED BY <1>2, <2>1, <2>2, GripKept
<1> QED BY <1>2, <1>4, <1>5 DEF PromiseInv

\* A new or renewed row belongs to nobody.
LEMMA FreshRow == Fresh \in Row /\ Fresh.status = "PENDING" /\ Fresh.lease = None
BY OutboxAssumption DEF Fresh, Row, Open

\* What a withdrawal makes of the row: it is left alone or leaves the queue.
LEMMA WithdrawnRow ==
  ASSUME PromiseInv, NEW j \in Jobs, Withdraw(j)
  PROVE  /\ row' \in [Jobs -> Row]
         /\ \A i \in Jobs \ {j} : row'[i] = row[i]
         /\ row'[j] = row[j] \/
              /\ row[j].status \in Open \cup {"FAILED"}
              /\ row'[j].status \in {"CANCELLED", "FAILED", "EXPIRED"}
              /\ queue = "invitation" => row'[j].status # "FAILED"
              /\ queue \in {"notification", "push"} => row[j].status \in Open
<1> USE UnleasedRow DEF Open, Settled
<1>0. row[j] \in Row /\ row \in [Jobs -> Row] /\ queue \in Queues
  BY DEF PromiseInv, Types
<1>1. CASE queue = "invitation"
  <2>1. row' = [row EXCEPT ![j] = InvitationRevoked(@)]
    BY <1>1 DEF Withdraw
  <2> QED BY <1>0, <1>1, <2>1 DEF InvitationRevoked, Ended
<1>2. CASE queue = "notification"
  <2>1. row' = [row EXCEPT ![j] = PlanningDisabled(@)]
    BY <1>2 DEF Withdraw
  <2> QED BY <1>0, <1>2, <2>1 DEF PlanningDisabled, Ended
<1>3. CASE queue = "security"
  <2>1. row' = [row EXCEPT ![j] = ActionInvalidated(@)]
    BY <1>3 DEF Withdraw
  <2> QED BY <1>0, <1>3, <2>1 DEF ActionInvalidated, Ended
<1>4. CASE queue = "join"
  <2>1. row' = [row EXCEPT ![j] = JoinLinkInvalidated(@)]
    BY <1>4 DEF Withdraw
  <2> QED BY <1>0, <1>4, <2>1 DEF JoinLinkInvalidated, Ended
<1>5. CASE queue = "push"
  <2>1. row' = [row EXCEPT ![j] = DeviceReassigned(@)]
    BY <1>5 DEF Withdraw
  <2> QED BY <1>0, <1>5, <2>1 DEF DeviceReassigned, Ended
<1> QED BY <1>0, <1>1, <1>2, <1>3, <1>4, <1>5 DEF Queues

\* A producer queues a message, renews it, or ends it.
LEMMA ProducerStep ==
  ASSUME PromiseInv, NEW j \in Jobs, Producer(j)
  PROVE  /\ UNCHANGED <<queue, worker, available, accepted, faults>>
         /\ row' \in [Jobs -> Row]
         /\ subject' \in [Jobs -> Subject]
         /\ \A i \in Jobs \ {j} : row'[i] = row[i] /\ subject'[i] = subject[i]
         /\ \/ /\ row[j].status = "NONE" \/ (queue = "invitation" /\ row[j].status = "FAILED")
               /\ row'[j] = Fresh /\ subject' = subject
            \/ /\ row'[j] = Fresh
               /\ subject'[j].link = subject[j].link + 1
            \/ /\ row[j].status \notin Open
               /\ row'[j].status = IF row[j].status = "NONE" THEN "NONE" ELSE "CANCELLED"
               /\ subject'[j].link = subject[j].link + 1
            \/ /\ row'[j] = row[j] \/
                    /\ row[j].status \in Open \cup {"FAILED"}
                    /\ row'[j].status \in {"CANCELLED", "FAILED", "EXPIRED"}
                    /\ queue = "invitation" => row'[j].status # "FAILED"
               /\ subject'[j].link = subject[j].link
<1> USE FreshRow DEF PromiseInv, Types
<1>1. CASE Queue(j)
  BY <1>1 DEF Queue
<1>2. CASE RetryInvitationEmail(j)
  BY <1>2 DEF RetryInvitationEmail
<1>3. CASE ResendInvitationEmail(j) \/ ResendPublicJoinVerification(j)
  <2>1. /\ UNCHANGED <<queue, worker, available, accepted, faults>>
        /\ Renewed(j) \/ (row[j].status \notin Open /\ LinkHandedOut(j))
    BY <1>3 DEF ResendInvitationEmail, ResendPublicJoinVerification
  <2>2. NewLink(j)
    BY <2>1 DEF Renewed, LinkHandedOut
  <2>3. subject[j].link + 1 \in 0 .. MaxRenewals
    BY <2>2, OutboxAssumption DEF NewLink, Subject
  <2>4. /\ subject' \in [Jobs -> Subject] /\ subject'[j].link = subject[j].link + 1
        /\ \A i \in Jobs \ {j} : subject'[i] = subject[i]
    BY <2>2, <2>3 DEF NewLink, Subject
  <2>5. CASE Renewed(j)
    BY <2>1, <2>4, <2>5 DEF Renewed
  <2>6. CASE row[j].status \notin Open /\ LinkHandedOut(j)
    <3>1. row' = [row EXCEPT ![j] = IF @.status = "NONE" THEN @ ELSE Unleased(@, "CANCELLED")]
      BY <2>6 DEF LinkHandedOut
    <3>2. Unleased(row[j], "CANCELLED") \in Row /\ Unleased(row[j], "CANCELLED").status = "CANCELLED"
      BY UnleasedRow DEF Settled
    <3> QED BY <2>1, <2>4, <2>6, <3>1, <3>2
  <2> QED BY <2>1, <2>5, <2>6
<1>4. CASE Withdraw(j)
  <2>1. /\ UNCHANGED <<queue, worker, available, accepted, faults>>
        /\ subject' = [subject EXCEPT ![j].open = FALSE]
    BY <1>4 DEF Withdraw
  <2> QED BY <1>4, <2>1, WithdrawnRow DEF Subject
<1>5. CASE SetPreference(j)
  BY <1>5 DEF SetPreference, Subject
<1> QED BY <1>1, <1>2, <1>3, <1>4, <1>5 DEF Producer

-----------------------------------------------------------------------------
(***************************************************************************)
(* The invariant behind the refinement.                                    *)
(***************************************************************************)
LEMMA PromiseInvInit == Init => PromiseInv
BY OutboxAssumption DEF Init, PromiseInv, Types, Grip, Row, Subject, Idle, Open, Settled

LEMMA ClaimKeepsPromiseInv ==
  ASSUME PromiseInv, NEW w \in Workers, ClaimNext(w)
  PROVE  PromiseInv'
<1>1. /\ row' \in [Jobs -> Row]
      /\ subject' \in [Jobs -> Subject]
      /\ worker' \in [Workers -> Busy \cup {Idle}]
      /\ worker[w] = Idle
      /\ UNCHANGED <<queue, available, accepted, faults>>
      /\ \A j \in Jobs : subject'[j].link = subject[j].link
  BY ClaimStep
<1>2. Types'
  BY <1>1 DEF PromiseInv, Types
<1>3. ASSUME NEW j \in Jobs
      PROVE  /\ Maintained(row[j], subject[j]).status = "SENDING" =>
                  Maintained(row[j], subject[j]) = row[j]
             /\ row[j].status = "NONE" <=> Maintained(row[j], subject[j]).status = "NONE"
             /\ subject[j].link <= subject[j].link
  BY MaintainedRow, OutboxAssumption DEF PromiseInv, Types, Subject
<1>4. CASE worker' = worker /\ \A j \in Jobs : row'[j] = Maintained(row[j], subject[j])
  <2>1. ASSUME NEW v \in Workers PROVE Grip(v)'
    <3>1. worker'[v] = worker[v] /\ Grip(v) /\ Types
      BY <1>4 DEF PromiseInv
    <3> QED BY <1>1, <1>2, <1>3, <1>4, <3>1, GripKept
  <2> QED BY <1>2, <2>1 DEF PromiseInv
<1>5. CASE \E j \in Jobs :
             /\ row[j].status \in Open
             /\ row'[j].status = "SENDING" /\ row'[j].lease = w
             /\ worker' = [worker EXCEPT ![w] =
                  [stage |-> "claimed", job |-> j, attempts |-> row'[j].attempts,
                   link |-> subject[j].link]]
             /\ \A i \in Jobs \ {j} : row'[i] = Maintained(row[i], subject[i])
  <2>1. PICK j \in Jobs :
             /\ row[j].status \in Open
             /\ row'[j].status = "SENDING" /\ row'[j].lease = w
             /\ worker' = [worker EXCEPT ![w] =
                  [stage |-> "claimed", job |-> j, attempts |-> row'[j].attempts,
                   link |-> subject[j].link]]
             /\ \A i \in Jobs \ {j} : row'[i] = Maintained(row[i], subject[i])
    BY <1>5
  <2>2. Grip(w)'
    <3>1. worker'[w].job = j /\ worker'[w].stage = "claimed" /\ worker'[w].link = subject[j].link
      BY <2>1 DEF PromiseInv, Types
    <3> QED BY <1>1, <1>3, <2>1, <3>1 DEF Grip
  <2>3. ASSUME NEW v \in Workers, v # w
        PROVE  Grip(v)'
    <3>1. worker'[v] = worker[v] /\ Grip(v) /\ Types
      BY <2>1, <2>3 DEF PromiseInv, Types
    <3>2. ASSUME NEW i \in Jobs
          PROVE  /\ row[i].status # "NONE" => row'[i].status # "NONE"
                 /\ row'[i].status = "SENDING" /\ row'[i].lease = v =>
                      row[i].status = "SENDING" /\ row[i].lease = v
      BY <1>3, <2>1, <2>3
    <3> QED BY <1>1, <1>2, <1>3, <3>1, <3>2, GripKept
  <2> QED BY <1>2, <2>2, <2>3 DEF PromiseInv
<1> QED BY <1>4, <1>5, ClaimStep

\* A step that changes only one worker, the relay's record and the faults.
LEMMA StageKeepsPromiseInv ==
  ASSUME PromiseInv, NEW w \in Workers, worker[w] # Idle,
         NEW next \in Busy \cup {Idle},
         worker' = [worker EXCEPT ![w] = next],
         next # Idle => /\ next.job = worker[w].job /\ next.link = worker[w].link
                        /\ next.stage = "accepted" => worker[w].link \in accepted'[worker[w].job],
         accepted' \in [Jobs -> SUBSET Nat],
         \A j \in Jobs : accepted[j] \subseteq accepted'[j],
         UNCHANGED <<queue, row, subject, available>>, faults' \in Nat
  PROVE  PromiseInv'
<1>1. Types'
  BY DEF PromiseInv, Types
<1>2. Grip(w)'
  <2>1. worker'[w] = next
    BY DEF PromiseInv, Types
  <2>2. Grip(w)
    BY DEF PromiseInv
  <2> QED BY <2>1, <2>2 DEF Grip, Holds
<1>3. ASSUME NEW v \in Workers, v # w PROVE Grip(v)'
  <2>1. worker'[v] = worker[v] /\ Grip(v) /\ Types
    BY <1>3 DEF PromiseInv, Types
  <2>2. \A j \in Jobs : subject[j].link <= subject[j].link
    BY OutboxAssumption DEF PromiseInv, Types, Subject
  <2> QED BY <1>1, <2>1, <2>2, GripKept
<1> QED BY <1>1, <1>2, <1>3 DEF PromiseInv

\* The stage of a busy worker.
LEMMA BusyWorker ==
  ASSUME Types, NEW w \in Workers
  PROVE  /\ worker[w] = Idle <=> worker[w].stage = "idle"
         /\ worker[w] # Idle => /\ worker[w] \in Busy
                                /\ worker[w].job \in Jobs /\ worker[w].link \in Nat
                                /\ worker[w].attempts \in 1 .. MaxAttempts
         /\ \A stage \in {"checked", "accepted", "refused", "unanswered"} :
              worker[w] # Idle => [worker[w] EXCEPT !.stage = stage] \in Busy
BY OutboxAssumption DEF Types, Busy, Idle

LEMMA WorkerKeepsPromiseInv ==
  ASSUME PromiseInv, NEW w \in Workers, WorkerStep(w) \/ Abandon(w)
  PROVE  PromiseInv'
<1> USE OutboxAssumption
<1>0. Types /\ faults \in Nat
  BY DEF PromiseInv, Types
<1>1. CASE ClaimNext(w)
  BY <1>1, ClaimKeepsPromiseInv
<1>2. CASE Check(w)
  <2>1. worker[w] # Idle /\ UNCHANGED <<queue, available, accepted, faults>>
    BY <1>0, <1>2, BusyWorker DEF Check
  <2>2. CASE /\ worker' = [worker EXCEPT ![w].stage = "checked"]
             /\ UNCHANGED <<row, line, subject>>
    <3>1. worker' = [worker EXCEPT ![w] = [worker[w] EXCEPT !.stage = "checked"]]
      BY <2>2
    <3>2. [worker[w] EXCEPT !.stage = "checked"] \in Busy
      BY <1>0, <2>1, BusyWorker
    <3> QED BY <2>1, <2>2, <3>1, <3>2, <1>0, StageKeepsPromiseInv DEF Types, Busy
  <2>3. CASE End(w, "inadmissible") /\ (subject' = subject
                 \/ subject' = [subject EXCEPT ![worker[w].job].open = FALSE])
    <3>0. ASSUME subject' = [subject EXCEPT ![worker[w].job].open = FALSE]
          PROVE  subject' \in [Jobs -> Subject] /\ \A j \in Jobs : subject'[j].link = subject[j].link
      BY <3>0, <1>0 DEF Types, Subject
    <3>1. subject' \in [Jobs -> Subject] /\ \A j \in Jobs : subject'[j].link = subject[j].link
      BY <2>3, <3>0, <1>0 DEF Types
    <3> QED BY <1>0, <2>1, <2>3, <3>1, EndKeepsPromiseInv DEF Endings
  <2> QED BY <1>2, <2>2, <2>3 DEF Check
<1>3. CASE SendAccepted(w)
  <2>1. worker[w] # Idle /\ worker[w].job \in Jobs /\ worker[w].link \in Nat
    BY <1>0, <1>3, BusyWorker DEF SendAccepted
  <2>2. worker' = [worker EXCEPT ![w] = [worker[w] EXCEPT !.stage = "accepted"]]
    BY <1>3 DEF SendAccepted
  <2>3. [worker[w] EXCEPT !.stage = "accepted"] \in Busy
    BY <1>0, <2>1, BusyWorker
  <2>4. /\ accepted' \in [Jobs -> SUBSET Nat]
        /\ \A j \in Jobs : accepted[j] \subseteq accepted'[j]
        /\ worker[w].link \in accepted'[worker[w].job]
    BY <1>3, <2>1, <1>0 DEF SendAccepted, Left, Types
  <2>5. UNCHANGED <<queue, row, subject, available, faults>>
    BY <1>3 DEF SendAccepted
  <2> QED BY <1>0, <2>1, <2>2, <2>3, <2>4, <2>5, StageKeepsPromiseInv DEF Busy
<1>4. CASE SendRefused(w)
  <2>1. worker[w] # Idle /\ worker[w].job \in Jobs /\ worker[w].link \in Nat
    BY <1>0, <1>4, BusyWorker DEF SendRefused
  <2>2. worker' = [worker EXCEPT ![w] = [worker[w] EXCEPT !.stage = "refused"]]
    BY <1>4 DEF SendRefused
  <2>3. [worker[w] EXCEPT !.stage = "refused"] \in Busy
    BY <1>0, <2>1, BusyWorker
  <2>4. UNCHANGED <<queue, row, subject, available, accepted, faults>>
    BY <1>4 DEF SendRefused
  <2> QED BY <1>0, <2>1, <2>2, <2>3, <2>4, StageKeepsPromiseInv DEF Busy, Types
<1>5. CASE SendUnanswered(w)
  <2>1. worker[w] # Idle /\ worker[w].job \in Jobs /\ worker[w].link \in Nat
    BY <1>0, <1>5, BusyWorker DEF SendUnanswered
  <2>2. worker' = [worker EXCEPT ![w] = [worker[w] EXCEPT !.stage = "unanswered"]]
    BY <1>5 DEF SendUnanswered
  <2>3. [worker[w] EXCEPT !.stage = "unanswered"] \in Busy
    BY <1>0, <2>1, BusyWorker
  <2>4. /\ accepted' \in [Jobs -> SUBSET Nat]
        /\ \A j \in Jobs : accepted[j] \subseteq accepted'[j]
    BY <1>5, <2>1, <1>0 DEF SendUnanswered, Left, Types
  <2>5. UNCHANGED <<queue, row, subject, available>> /\ faults' \in Nat
    BY <1>0, <1>5 DEF SendUnanswered
  <2> QED BY <1>0, <2>1, <2>2, <2>3, <2>4, <2>5, StageKeepsPromiseInv DEF Busy
<1>6. CASE SendGone(w)
  <2>1. worker[w] # Idle /\ UNCHANGED <<queue, available, accepted, faults>>
    BY <1>0, <1>6, BusyWorker DEF SendGone
  <2>2. queue = "push" /\ End(w, "gone") /\ subject' = [subject EXCEPT ![worker[w].job].open = FALSE]
    BY <1>6 DEF SendGone
  <2>3. subject' \in [Jobs -> Subject] /\ \A j \in Jobs : subject'[j].link = subject[j].link
    BY <2>2, <1>0 DEF Types, Subject
  <2> QED BY <1>0, <2>1, <2>2, <2>3, EndKeepsPromiseInv DEF Endings
<1>7. CASE MarkSent(w)
  <2>1. worker[w] # Idle /\ UNCHANGED <<queue, subject, available, accepted, faults>> /\ End(w, "sent")
    BY <1>0, <1>7, BusyWorker DEF MarkSent
  <2> QED BY <1>0, <2>1, EndKeepsPromiseInv DEF Endings, Types
<1>8. CASE RecordFailure(w)
  <2>1. worker[w] # Idle /\ UNCHANGED <<queue, subject, available, accepted, faults>>
    BY <1>0, <1>8, BusyWorker DEF RecordFailure
  <2>2. PICK how \in {"failed", "late"} : (how = "late" => queue = "push") /\ End(w, how)
    BY <1>8 DEF RecordFailure
  <2> QED BY <1>0, <2>1, <2>2, EndKeepsPromiseInv DEF Endings, Types
<1>9. CASE Release(w)
  <2>0. UNCHANGED <<queue, subject, available, accepted>> /\ End(w, "released")
    BY <1>9, Zenon DEF Release
  <2>1. worker[w].stage # "idle" /\ (faults' = faults \/ faults' = faults + 1)
    BY <1>9, Zenon DEF Release
  <2>2. worker[w] # Idle
    BY <1>0, <2>1, BusyWorker
  <2>3. faults' \in Nat
    BY <1>0, <2>1
  <2> QED BY <1>0, <2>0, <2>2, <2>3, EndKeepsPromiseInv DEF Endings, Types
<1>10. CASE Abandon(w)
  <2>1. /\ worker[w] # Idle
        /\ worker' = [worker EXCEPT ![w] = Idle]
        /\ faults' \in Nat
        /\ UNCHANGED <<queue, row, line, subject, available, accepted>>
    BY <1>0, <1>10 DEF Abandon
  <2> QED BY <1>0, <2>1, StageKeepsPromiseInv DEF Types
<1> QED BY <1>1, <1>2, <1>3, <1>4, <1>5, <1>6, <1>7, <1>8, <1>9, <1>10 DEF WorkerStep

LEMMA JobKeepsPromiseInv ==
  ASSUME PromiseInv, NEW j \in Jobs, RetryDue(j) \/ LeaseRunsOut(j) \/ Expire(j) \/ Producer(j)
  PROVE  PromiseInv'
<1>0. Types /\ \A w \in Workers : Grip(w)
  BY DEF PromiseInv
<1>1. \A i \in Jobs : subject[i].link \in Nat
  BY <1>0, OutboxAssumption DEF Types, Subject
<1>2. CASE RetryDue(j)
  <2>1. UNCHANGED <<queue, row, subject, worker, available, accepted, faults>>
    BY <1>2 DEF RetryDue
  <2> QED BY <2>1 DEF PromiseInv, Types, Grip, Holds
<1>3. CASE LeaseRunsOut(j)
  <2>1. /\ row' = [row EXCEPT ![j].lapsed = TRUE]
        /\ UNCHANGED <<queue, subject, worker, available, accepted>>
        /\ faults' \in Nat
    BY <1>3, <1>0 DEF LeaseRunsOut, Types
  <2>2. Types'
    BY <1>0, <2>1 DEF Types, Row
  <2>3. \A i \in Jobs : row'[i].status = row[i].status /\ row'[i].lease = row[i].lease
    BY <1>0, <2>1 DEF Types, Row
  <2> QED BY <1>0, <1>1, <2>1, <2>2, <2>3, GripKept DEF PromiseInv
<1>4. CASE Expire(j)
  <2>1. /\ subject' = [subject EXCEPT ![j].expired = TRUE]
        /\ UNCHANGED <<queue, row, worker, available, accepted, faults>>
    BY <1>4 DEF Expire
  <2>2. Types' /\ \A i \in Jobs : subject'[i].link = subject[i].link
    BY <1>0, <2>1 DEF Types, Subject
  <2> QED BY <1>0, <1>1, <2>1, <2>2, GripKept DEF PromiseInv
<1>5. CASE Producer(j)
  <2>1. Types'
    BY <1>0, <1>5, ProducerStep DEF Types
  <2>2. ASSUME NEW i \in Jobs, NEW w \in Workers
        PROVE  /\ row[i].status # "NONE" => row'[i].status # "NONE"
               /\ subject[i].link <= subject'[i].link
               /\ row'[i].status = "SENDING" /\ row'[i].lease = w =>
                    /\ row[i].status = "SENDING" /\ row[i].lease = w
                    /\ subject'[i].link = subject[i].link
    BY <1>1, <1>5, ProducerStep, FreshRow DEF Open
  <2>3. UNCHANGED <<worker, accepted>>
    BY <1>5, ProducerStep
  <2> QED BY <1>0, <2>1, <2>2, <2>3, GripKept DEF PromiseInv
<1> QED BY <1>2, <1>3, <1>4, <1>5

LEMMA PromiseInvStep == PromiseInv /\ [Next]_vars => PromiseInv'
<1> SUFFICES ASSUME PromiseInv, [Next]_vars PROVE PromiseInv'
  OBVIOUS
<1>1. ASSUME NEW w \in Workers, WorkerStep(w) \/ Abandon(w) PROVE PromiseInv'
  BY <1>1, WorkerKeepsPromiseInv
<1>2. ASSUME NEW j \in Jobs, RetryDue(j) \/ LeaseRunsOut(j) \/ Expire(j) \/ Producer(j)
      PROVE  PromiseInv'
  BY <1>2, JobKeepsPromiseInv
<1>3. CASE SetAvailable
  BY <1>3 DEF SetAvailable, PromiseInv, Types, Grip, Holds
<1>4. CASE UNCHANGED vars
  BY <1>4 DEF vars, PromiseInv, Types, Grip, Holds
<1> QED BY <1>1, <1>2, <1>3, <1>4 DEF Next

\* Workers hold what they claimed: the types of all tables, and that a worker
\* whose lease lasts has the message in its current wording.
THEOREM WorkersHoldTheirClaims == Spec => []PromiseInv
BY PromiseInvInit, PromiseInvStep, PTL DEF Spec

-----------------------------------------------------------------------------
(***************************************************************************)
(* The refinement: every step is a step of Delivery or changes nothing     *)
(* that Delivery sees.                                                     *)
(***************************************************************************)
LEMMA PhaseOf ==
  ASSUME NEW r \in Row
  PROVE  /\ r.status = "NONE" <=> Phase(r) = "absent"
         /\ r.status \in Open <=> Phase(r) = "queued"
         /\ r.status = "SENT" <=> Phase(r) = "delivered"
         /\ r.status \in {"FAILED", "CANCELLED", "EXPIRED"} <=> Phase(r) = "dropped"
BY DEF Phase, Row, Open, Settled

PhaseMap == [j \in Jobs |-> Phase(row[j])]
ContentMap == [j \in Jobs |-> subject[j].link]

\* Several messages are given up, or none.
LEMMA DropStep ==
  ASSUME \A j \in Jobs : Phase(row'[j]) # Phase(row[j]) =>
             Phase(row[j]) = "queued" /\ Phase(row'[j]) = "dropped",
         \A j \in Jobs : subject'[j].link = subject[j].link,
         accepted' = accepted
  PROVE  [Abstract!AbstractNext]_(Abstract!abstractVars)
<1> DEFINE given == {j \in Jobs : Phase(row'[j]) # Phase(row[j])}
<1>1. ContentMap' = ContentMap
  BY DEF ContentMap
<1>2. PhaseMap' = [j \in Jobs |-> IF j \in given THEN "dropped" ELSE PhaseMap[j]]
  BY DEF PhaseMap
<1>3. \A j \in given : PhaseMap[j] = "queued"
  BY DEF PhaseMap
<1>4. Abstract!Drop(given)
  BY <1>1, <1>2, <1>3 DEF Abstract!Drop, PhaseMap, ContentMap
<1> QED BY <1>4 DEF Abstract!AbstractNext

\* A step that changes no row, link or acceptance.
LEMMA UnseenStep ==
  ASSUME \A j \in Jobs : row'[j].status = row[j].status /\ subject'[j].link = subject[j].link,
         accepted' = accepted
  PROVE  [Abstract!AbstractNext]_(Abstract!abstractVars)
<1>1. \A j \in Jobs : Phase(row'[j]) = Phase(row[j])
  BY DEF Phase
<1> QED BY <1>1, DropStep

\* A claim that ends without the message being sent gives it up or not.
LEMMA EndRefines ==
  ASSUME PromiseInv, NEW w \in Workers, worker[w] # Idle, NEW how \in Endings \ {"sent"},
         how \in {"gone", "late"} => queue = "push", End(w, how), accepted' = accepted,
         \A j \in Jobs : subject'[j].link = subject[j].link
  PROVE  [Abstract!AbstractNext]_(Abstract!abstractVars)
<1> DEFINE j == worker[w].job
<1>1. /\ j \in Jobs /\ row' \in [Jobs -> Row]
      /\ \A i \in Jobs \ {j} : row'[i] = row[i]
      /\ ~Holds(w, j) => row' = row
      /\ Holds(w, j) => row[j].status = "SENDING" /\ row'[j].status \in Outcomes(how)
  BY EndStep
<1>2. Outcomes(how) \subseteq {"PENDING", "FAILED", "CANCELLED", "EXPIRED"}
  BY DEF Outcomes
<1>3. row[j] \in Row /\ row'[j] \in Row
  BY <1>1 DEF PromiseInv, Types
<1>4. ASSUME Holds(w, j)
      PROVE  Phase(row[j]) = "queued" /\ Phase(row'[j]) \in {"queued", "dropped"}
  BY <1>1, <1>2, <1>3, <1>4, PhaseOf DEF Open
<1> QED BY <1>1, <1>4, DropStep

\* A message is reported sent: its current wording was accepted.
LEMMA MarkSentRefines ==
  ASSUME PromiseInv, NEW w \in Workers, MarkSent(w)
  PROVE  [Abstract!AbstractNext]_(Abstract!abstractVars)
<1> DEFINE j == worker[w].job
<1>1. worker[w] # Idle /\ UNCHANGED <<subject, accepted>> /\ End(w, "sent") /\ worker[w].stage = "accepted"
  BY BusyWorker DEF MarkSent, PromiseInv
<1>2. /\ j \in Jobs /\ row' \in [Jobs -> Row]
      /\ \A i \in Jobs \ {j} : row'[i] = row[i]
      /\ ~Holds(w, j) => row' = row
      /\ Holds(w, j) => row[j].status = "SENDING" /\ row'[j].status = "SENT"
  BY <1>1, EndStep DEF Endings, Outcomes
<1>3. row[j] \in Row /\ row'[j] \in Row
  BY <1>2 DEF PromiseInv, Types
<1>4. CASE ~Holds(w, j)
  BY <1>1, <1>2, <1>4, UnseenStep
<1>5. CASE Holds(w, j)
  <2>1. Phase(row[j]) = "queued" /\ Phase(row'[j]) = "delivered"
    BY <1>2, <1>3, <1>5, PhaseOf DEF Open
  <2>2. subject[j].link \in accepted[j]
    <3>1. Grip(w)
      BY DEF PromiseInv
    <3> QED BY <1>1, <1>5, <3>1 DEF Grip
  <2>3. /\ PhaseMap[j] = "queued" /\ ContentMap[j] \in accepted[j]
        /\ ContentMap' = ContentMap
    BY <1>1, <1>2, <2>1, <2>2 DEF PhaseMap, ContentMap
  <2>4. PhaseMap' = [PhaseMap EXCEPT ![j] = "delivered"]
    BY <1>2, <2>1 DEF PhaseMap
  <2>5. Abstract!Deliver(j)
    BY <1>1, <2>3, <2>4 DEF Abstract!Deliver, PhaseMap, ContentMap
  <2> QED BY <1>2, <2>5 DEF Abstract!AbstractNext
<1> QED BY <1>4, <1>5

\* The relay accepts a message, perhaps in an older wording.
LEMMA AcceptRefines ==
  ASSUME PromiseInv, NEW w \in Workers, worker[w] # Idle, Left(w), UNCHANGED <<row, subject>>
  PROVE  [Abstract!AbstractNext]_(Abstract!abstractVars)
<1> DEFINE j == worker[w].job
<1>1. j \in Jobs /\ worker[w].link \in Nat /\ row[j] \in Row /\ subject[j] \in Subject
  BY BusyWorker DEF PromiseInv, Types
<1>2. row[j].status # "NONE" /\ worker[w].link <= subject[j].link
  BY DEF PromiseInv, Grip
<1>3. subject[j].link \in Nat
  BY <1>1, OutboxAssumption DEF Subject
<1>4. PhaseMap[j] # "absent" /\ worker[w].link \in 0 .. ContentMap[j]
  BY <1>1, <1>2, <1>3, PhaseOf DEF PhaseMap, ContentMap
<1>5. PhaseMap' = PhaseMap /\ ContentMap' = ContentMap
  BY DEF PhaseMap, ContentMap
<1>6. accepted' = [accepted EXCEPT ![j] = @ \cup {worker[w].link}]
  BY DEF Left
<1>7. Abstract!Accept(j)
  BY <1>4, <1>5, <1>6 DEF Abstract!Accept, PhaseMap, ContentMap
<1> QED BY <1>1, <1>7 DEF Abstract!AbstractNext

LEMMA ClaimRefines ==
  ASSUME PromiseInv, NEW w \in Workers, ClaimNext(w)
  PROVE  [Abstract!AbstractNext]_(Abstract!abstractVars)
<1>1. \A j \in Jobs : row[j] \in Row
  BY DEF PromiseInv, Types
<1>2. /\ accepted' = accepted
      /\ \A j \in Jobs : /\ subject'[j].link = subject[j].link
                         /\ row[j].status \notin Open => Phase(row'[j]) = Phase(row[j])
                         /\ row[j].status \in Open => Phase(row'[j]) \in {"queued", "dropped"}
  BY ClaimStep
<1>3. \A j \in Jobs : row[j].status \in Open => Phase(row[j]) = "queued"
  BY <1>1, PhaseOf
<1> QED BY <1>2, <1>3, DropStep

LEMMA WorkerRefines ==
  ASSUME PromiseInv, NEW w \in Workers, WorkerStep(w) \/ Abandon(w)
  PROVE  [Abstract!AbstractNext]_(Abstract!abstractVars)
<1>0. Types
  BY DEF PromiseInv
<1>1. CASE ClaimNext(w)
  BY <1>1, ClaimRefines
<1>2. CASE Check(w)
  <2>1. worker[w] # Idle /\ accepted' = accepted
    BY <1>0, <1>2, BusyWorker DEF Check
  <2>2. CASE UNCHANGED <<row, line, subject>>
    BY <2>1, <2>2, UnseenStep
  <2>3. CASE End(w, "inadmissible") /\ (subject' = subject
                 \/ subject' = [subject EXCEPT ![worker[w].job].open = FALSE])
    <3>1. \A j \in Jobs : subject'[j].link = subject[j].link
      BY <2>3, <1>0 DEF Types, Subject
    <3> QED BY <2>1, <2>3, <3>1, EndRefines DEF Endings
  <2> QED BY <1>2, <2>2, <2>3 DEF Check
<1>3. CASE SendAccepted(w)
  BY <1>0, <1>3, BusyWorker, AcceptRefines DEF SendAccepted
<1>4. CASE SendRefused(w)
  BY <1>4, UnseenStep DEF SendRefused
<1>5. CASE SendUnanswered(w)
  BY <1>0, <1>5, BusyWorker, AcceptRefines DEF SendUnanswered
<1>6. CASE SendGone(w)
  <2>1. worker[w] # Idle /\ accepted' = accepted
    BY <1>0, <1>6, BusyWorker DEF SendGone
  <2>2. queue = "push" /\ End(w, "gone") /\ subject' = [subject EXCEPT ![worker[w].job].open = FALSE]
    BY <1>6 DEF SendGone
  <2>3. \A j \in Jobs : subject'[j].link = subject[j].link
    BY <2>2, <1>0 DEF Types, Subject
  <2> QED BY <2>1, <2>2, <2>3, EndRefines DEF Endings
<1>7. CASE MarkSent(w)
  BY <1>7, MarkSentRefines
<1>8. CASE RecordFailure(w)
  <2>1. worker[w] # Idle /\ UNCHANGED <<subject, accepted>>
    BY <1>0, <1>8, BusyWorker DEF RecordFailure
  <2>2. PICK how \in {"failed", "late"} : (how = "late" => queue = "push") /\ End(w, how)
    BY <1>8 DEF RecordFailure
  <2> QED BY <2>1, <2>2, EndRefines DEF Endings
<1>9. CASE Release(w)
  <2>1. UNCHANGED <<subject, accepted>> /\ End(w, "released") /\ worker[w].stage # "idle"
    BY <1>9, Zenon DEF Release
  <2>2. worker[w] # Idle
    BY <1>0, <2>1, BusyWorker
  <2> QED BY <2>1, <2>2, EndRefines DEF Endings
<1>10. CASE Abandon(w)
  BY <1>10, UnseenStep DEF Abandon
<1> QED BY <1>1, <1>2, <1>3, <1>4, <1>5, <1>6, <1>7, <1>8, <1>9, <1>10 DEF WorkerStep

LEMMA ProducerRefines ==
  ASSUME PromiseInv, NEW j \in Jobs, Producer(j)
  PROVE  [Abstract!AbstractNext]_(Abstract!abstractVars)
<1>1. /\ accepted' = accepted
      /\ row[j] \in Row /\ row'[j] \in Row
      /\ \A i \in Jobs \ {j} : row'[i] = row[i] /\ subject'[i] = subject[i]
  BY ProducerStep DEF PromiseInv, Types
<1>2. CASE /\ row[j].status \in {"NONE", "FAILED"}
           /\ row'[j] = Fresh /\ subject' = subject
  <2>1. Phase(row[j]) \in {"absent", "dropped"} /\ Phase(row'[j]) = "queued"
    BY <1>1, <1>2, FreshRow, PhaseOf DEF Open
  <2>2. PhaseMap[j] \in {"absent", "dropped"} /\ ContentMap' = ContentMap
    BY <1>2, <2>1 DEF PhaseMap, ContentMap
  <2>3. PhaseMap' = [PhaseMap EXCEPT ![j] = "queued"]
    BY <1>1, <2>1 DEF PhaseMap
  <2>4. Abstract!Enqueue(j)
    BY <1>1, <2>2, <2>3 DEF Abstract!Enqueue, PhaseMap, ContentMap
  <2> QED BY <2>4 DEF Abstract!AbstractNext
<1>3. CASE row'[j] = Fresh /\ subject'[j].link = subject[j].link + 1
  <2>1. Phase(row'[j]) = "queued"
    BY <1>1, <1>3, FreshRow, PhaseOf DEF Open
  <2>2. PhaseMap' = [PhaseMap EXCEPT ![j] = "queued"]
    BY <1>1, <2>1 DEF PhaseMap
  <2>3. ContentMap' = [ContentMap EXCEPT ![j] = @ + 1]
    BY <1>1, <1>3 DEF ContentMap
  <2>4. Abstract!Renew(j)
    BY <1>1, <2>2, <2>3 DEF Abstract!Renew, PhaseMap, ContentMap
  <2> QED BY <2>4 DEF Abstract!AbstractNext
<1>4. CASE /\ row'[j] = row[j] \/ /\ row[j].status \in Open \cup {"FAILED"}
                                  /\ row'[j].status \in {"CANCELLED", "FAILED", "EXPIRED"}
           /\ subject'[j].link = subject[j].link
  <2>1. \/ Phase(row'[j]) = Phase(row[j])
        \/ Phase(row[j]) = "queued" /\ Phase(row'[j]) = "dropped"
    <3>1. CASE row'[j] = row[j]
      BY <3>1
    <3>2. CASE row[j].status \in Open /\ row'[j].status \in {"CANCELLED", "FAILED", "EXPIRED"}
      BY <1>1, <3>2, PhaseOf
    <3>3. CASE row[j].status = "FAILED" /\ row'[j].status \in {"CANCELLED", "FAILED", "EXPIRED"}
      BY <1>1, <3>3, PhaseOf
    <3> QED BY <1>4, <3>1, <3>2, <3>3
  <2> QED BY <1>1, <1>4, <2>1, DropStep
<1>5. CASE /\ row[j].status \notin Open
           /\ row'[j].status = IF row[j].status = "NONE" THEN "NONE" ELSE "CANCELLED"
           /\ subject'[j].link = subject[j].link + 1
  <2>1. /\ Phase(row[j]) # "queued"
        /\ Phase(row'[j]) = IF Phase(row[j]) = "absent" THEN "absent" ELSE "dropped"
    BY <1>1, <1>5, PhaseOf
  <2>2. /\ PhaseMap[j] # "queued"
        /\ PhaseMap' = [PhaseMap EXCEPT ![j] = IF @ = "absent" THEN "absent" ELSE "dropped"]
    BY <1>1, <2>1 DEF PhaseMap
  <2>3. ContentMap' = [ContentMap EXCEPT ![j] = @ + 1]
    BY <1>1, <1>5 DEF ContentMap
  <2>4. Abstract!Replace(j)
    BY <1>1, <2>2, <2>3 DEF Abstract!Replace, PhaseMap, ContentMap
  <2> QED BY <2>4 DEF Abstract!AbstractNext
<1> QED BY <1>2, <1>3, <1>4, <1>5, ProducerStep

LEMMA RefinementStep ==
  PromiseInv /\ [Next]_vars => [Abstract!AbstractNext]_(Abstract!abstractVars)
<1> SUFFICES ASSUME PromiseInv, [Next]_vars
             PROVE  [Abstract!AbstractNext]_(Abstract!abstractVars)
  OBVIOUS
<1>1. ASSUME NEW w \in Workers, WorkerStep(w) \/ Abandon(w)
      PROVE  [Abstract!AbstractNext]_(Abstract!abstractVars)
  BY <1>1, WorkerRefines
<1>2. ASSUME NEW j \in Jobs, RetryDue(j) \/ LeaseRunsOut(j) \/ Expire(j) \/ Producer(j)
      PROVE  [Abstract!AbstractNext]_(Abstract!abstractVars)
  <2>1. CASE RetryDue(j)
    BY <2>1, UnseenStep DEF RetryDue
  <2>2. CASE LeaseRunsOut(j)
    <3>1. /\ row' = [row EXCEPT ![j].lapsed = TRUE]
          /\ UNCHANGED <<subject, accepted>>
      BY <2>2 DEF LeaseRunsOut
    <3>2. \A i \in Jobs : row'[i].status = row[i].status
      BY <3>1 DEF PromiseInv, Types, Row
    <3> QED BY <3>1, <3>2, UnseenStep
  <2>3. CASE Expire(j)
    <3>1. subject' = [subject EXCEPT ![j].expired = TRUE] /\ UNCHANGED <<row, accepted>>
      BY <2>3 DEF Expire
    <3>2. \A i \in Jobs : subject'[i].link = subject[i].link
      BY <3>1 DEF PromiseInv, Types, Subject
    <3> QED BY <3>1, <3>2, UnseenStep
  <2>4. CASE Producer(j)
    BY <2>4, ProducerRefines
  <2> QED BY <1>2, <2>1, <2>2, <2>3, <2>4
<1>3. CASE SetAvailable
  BY <1>3, UnseenStep DEF SetAvailable
<1>4. CASE UNCHANGED vars
  BY <1>4, UnseenStep DEF vars
<1> QED BY <1>1, <1>2, <1>3, <1>4 DEF Next

\* The outbox implements Delivery: a message is reported sent only after the
\* relay has accepted its current wording, and this report is only taken back
\* when the link is replaced, by one that is queued or handed out on the screen,
\* for any number of messages and workers and through any faults (claimNext,
\* markSent and the producers' updates).
THEOREM OutboxImplementsDelivery == Spec => KeepsPromise
<1>1. Init => Abstract!AbstractInit
  <2> SUFFICES ASSUME Init PROVE Abstract!AbstractInit
    OBVIOUS
  <2>1. \A j \in Jobs : row[j].status = "NONE" /\ subject[j].link = 0
    BY DEF Init
  <2>2. \A j \in Jobs : Phase(row[j]) = "absent"
    BY <2>1, Zenon DEF Phase, Open
  <2>3. PhaseMap = [j \in Jobs |-> "absent"] /\ ContentMap = [j \in Jobs |-> 0]
    BY <2>1, <2>2 DEF PhaseMap, ContentMap
  <2> QED BY <2>3 DEF Init, Abstract!AbstractInit, PhaseMap, ContentMap
<1>2. PromiseInv /\ [Next]_vars => [Abstract!AbstractNext]_(Abstract!abstractVars)
  BY RefinementStep
<1> QED BY <1>1, <1>2, WorkersHoldTheirClaims, PTL DEF Spec, KeepsPromise, Abstract!AbstractSpec
-----------------------------------------------------------------------------
(***************************************************************************)
(* Without faults.  The invariant speaks of the states reached before the  *)
(* first crash, suspension or lost answer.                                 *)
(***************************************************************************)

\* The message is settled for good under its present link: only an invitation
\* that was given up can be queued again without a new one.
Done(j) == row[j].status \in Settled /\ (queue = "invitation" => row[j].status # "FAILED")

\* A lease is held by a worker that is at work on the message; and when the
\* relay has the present wording, then the holder knows, or nothing is to be
\* sent any more.
CalmJob(j) ==
  /\ accepted[j] \subseteq 0 .. subject[j].link
  /\ row[j].status = "SENDING" =>
       row[j].lease \in Workers /\ Working(row[j].lease, j) /\ ~row[j].lapsed
  /\ subject[j].link \in accepted[j] =>
       Done(j) \/ (row[j].status = "SENDING" /\ worker[row[j].lease].stage = "accepted")

\* A worker which lost its claim has an outdated wording or a message that is
\* settled, and until the relay accepts its message nobody else has sent it.
CalmWorker(w) ==
  worker[w] # Idle =>
    LET j == worker[w].job
    IN  /\ worker[w].stage # "unanswered"
        /\ worker[w].stage # "accepted" => worker[w].link \notin accepted[j]
        /\ worker[w].link = subject[j].link => Holds(w, j) \/ Done(j)

\* Two workers never have the same wording of a message.
Apart(v, w) ==
  worker[v] # Idle /\ worker[w] # Idle /\ worker[v].job = worker[w].job
    => worker[v].link # worker[w].link

CalmState ==
  /\ \A j \in Jobs : CalmJob(j)
  /\ \A w \in Workers : CalmWorker(w)
  /\ \A v, w \in Workers : v # w => Apart(v, w)

Calm == faults = 0 => CalmState

\* A step that leaves the row alone or settles it.
Eased(j) ==
  \/ row'[j] = row[j]
  \/ /\ row'[j].status \in Settled
     /\ queue = "invitation" => row[j].status = "PENDING" \/ row'[j].status # "FAILED"

\* Maintenance leaves a row whose lease has not lapsed alone or settles it,
\* and gives up no invitation that a worker has.
LEMMA MaintainedCalm ==
  ASSUME queue \in Queues, NEW r \in Row, NEW s \in Subject, ~Lapsed(r)
  PROVE  LET m == Maintained(r, s)
         IN  m = r \/ /\ m.status \in Settled
                      /\ queue = "invitation" => r.status = "PENDING"
<1> USE UnleasedRow DEF Open, Settled
<1>1. CASE queue = "invitation"
  BY <1>1 DEF Maintained, InvitationMaintained, Lapsed, Row
<1>2. CASE queue = "notification"
  BY <1>2 DEF Maintained, NotificationMaintained, Lapsed, Row
<1>3. CASE queue = "security"
  BY <1>3 DEF Maintained, SecurityMaintained, Lapsed, Row
<1>4. CASE queue = "join"
  BY <1>4 DEF Maintained, JoinMaintained, Lapsed, Row
<1>5. CASE queue = "push"
  BY <1>5 DEF Maintained, PushMaintained, Lapsed, Row
<1> QED BY <1>1, <1>2, <1>3, <1>4, <1>5 DEF Queues

LEMMA CalmJobKept ==
  ASSUME NEW j \in Jobs, CalmJob(j), Eased(j), queue' = queue,
         subject'[j].link = subject[j].link, accepted'[j] = accepted[j],
         row[j].status = "SENDING" => worker'[row[j].lease] = worker[row[j].lease]
  PROVE  CalmJob(j)'
<1>1. accepted'[j] \subseteq 0 .. subject'[j].link
  BY DEF CalmJob
<1>2. CASE row'[j] = row[j]
  BY <1>1, <1>2 DEF CalmJob, Done, Working
<1>3. CASE row'[j].status \in Settled
  BY <1>1, <1>3, Zenon DEF CalmJob, Done, Working, Eased, Settled
<1> QED BY <1>2, <1>3 DEF Eased

LEMMA CalmWorkerKept ==
  ASSUME NEW w \in Workers, CalmWorker(w), worker'[w] = worker[w], queue' = queue,
         worker[w] # Idle => /\ Eased(worker[w].job)
                             /\ subject'[worker[w].job].link = subject[worker[w].job].link
                             /\ accepted'[worker[w].job] = accepted[worker[w].job]
  PROVE  CalmWorker(w)'
<1> DEFINE j == worker[w].job
<1>1. CASE worker[w] # Idle
  <2>1. CASE row'[j] = row[j]
    BY <1>1, <2>1 DEF CalmWorker, Holds, Done
  <2>2. CASE /\ row'[j].status \in Settled
             /\ queue = "invitation" => row[j].status = "PENDING" \/ row'[j].status # "FAILED"
    BY <1>1, <2>2, Zenon DEF CalmWorker, Holds, Done, Settled
  <2> QED BY <1>1, <2>1, <2>2 DEF Eased
<1>2. CASE worker[w] = Idle
  BY <1>2 DEF CalmWorker
<1> QED BY <1>1, <1>2

\* A step that leaves the workers alone and renews nothing.
LEMMA CalmKept ==
  ASSUME CalmState, Types, queue' = queue, worker' = worker, accepted' = accepted,
         \A j \in Jobs : Eased(j) /\ subject'[j].link = subject[j].link
  PROVE  CalmState'
<1>1. ASSUME NEW j \in Jobs PROVE CalmJob(j)'
  BY CalmJobKept DEF CalmState
<1>2. ASSUME NEW w \in Workers PROVE CalmWorker(w)'
  <2>1. worker[w] # Idle => worker[w].job \in Jobs
    BY BusyWorker
  <2> QED BY <2>1, CalmWorkerKept DEF CalmState
<1>3. ASSUME NEW v \in Workers, NEW w \in Workers, v # w PROVE Apart(v, w)'
  BY <1>3 DEF CalmState, Apart
<1> QED BY <1>1, <1>2, <1>3 DEF CalmState

LEMMA ClaimKeepsCalm ==
  ASSUME PromiseInv, CalmState, NEW w \in Workers, ClaimNext(w)
  PROVE  CalmState'
<1>0. Types
  BY DEF PromiseInv
<1>1. /\ worker[w] = Idle /\ queue' = queue /\ accepted' = accepted
      /\ \A j \in Jobs : subject'[j].link = subject[j].link
  BY ClaimStep
<1>2. ASSUME NEW j \in Jobs
      PROVE  LET m == Maintained(row[j], subject[j])
             IN  m = row[j] \/ /\ m.status \in Settled
                               /\ queue = "invitation" => row[j].status = "PENDING"
  <2>1. ~Lapsed(row[j])
    BY DEF CalmState, CalmJob, Lapsed
  <2> QED BY <2>1, <1>0, MaintainedCalm DEF Types
<1>3. CASE worker' = worker /\ \A j \in Jobs : row'[j] = Maintained(row[j], subject[j])
  <2>1. \A j \in Jobs : Eased(j)
    BY <1>2, <1>3 DEF Eased
  <2> QED BY <1>0, <1>1, <1>3, <2>1, CalmKept
<1>4. CASE \E j \in Jobs :
             /\ row'[j].status = "SENDING" /\ row'[j].lease = w /\ ~row'[j].lapsed
             /\ worker' = [worker EXCEPT ![w] =
                  [stage |-> "claimed", job |-> j, attempts |-> row'[j].attempts,
                   link |-> subject[j].link]]
             /\ Maintained(row[j], subject[j]).status = "PENDING"
                  \/ (queue = "invitation" /\ Lapsed(Maintained(row[j], subject[j])))
             /\ \A i \in Jobs \ {j} : row'[i] = Maintained(row[i], subject[i])
  <2>1. PICK j \in Jobs :
             /\ row'[j].status = "SENDING" /\ row'[j].lease = w /\ ~row'[j].lapsed
             /\ worker' = [worker EXCEPT ![w] =
                  [stage |-> "claimed", job |-> j, attempts |-> row'[j].attempts,
                   link |-> subject[j].link]]
             /\ Maintained(row[j], subject[j]).status = "PENDING"
                  \/ (queue = "invitation" /\ Lapsed(Maintained(row[j], subject[j])))
             /\ \A i \in Jobs \ {j} : row'[i] = Maintained(row[i], subject[i])
    BY <1>4
  <2>2. /\ worker'[w] # Idle
        /\ worker'[w].job = j /\ worker'[w].stage = "claimed" /\ worker'[w].link = subject[j].link
        /\ \A v \in Workers \ {w} : worker'[v] = worker[v]
    BY <1>0, <2>1 DEF Types, Idle
  <2>3. row[j].status = "PENDING"
    <3>1. CalmJob(j)
      BY DEF CalmState
    <3> QED BY <1>2, <2>1, <3>1, Zenon DEF Lapsed, Settled, CalmJob
  <2>4. ~Done(j) /\ subject[j].link \notin accepted[j]
    BY <2>3 DEF CalmState, CalmJob, Done, Settled
  <2>5. ASSUME NEW v \in Workers, worker[v] # Idle, worker[v].job = j
        PROVE  worker[v].link # subject[j].link
    BY <2>3, <2>4, <2>5 DEF CalmState, CalmWorker, Holds
  <2>6. ASSUME NEW i \in Jobs, i # j PROVE Eased(i)
    BY <1>2, <2>1, <2>6 DEF Eased
  <2>7. ASSUME NEW i \in Jobs PROVE CalmJob(i)'
    <3>1. CASE i = j
      <4>1. accepted'[j] \subseteq 0 .. subject'[j].link
        BY <1>1 DEF CalmState, CalmJob
      <4>2. row'[j].lease \in Workers /\ Working(w, j)'
        BY <2>1, <2>2 DEF Working
      <4> QED BY <1>1, <2>1, <2>4, <3>1, <4>1, <4>2 DEF CalmJob
    <3>2. CASE i # j
      <4>1. row[i].status = "SENDING" => row[i].lease \in Workers \ {w}
        BY <1>1 DEF CalmState, CalmJob, Working
      <4> QED BY <1>1, <2>2, <2>6, <3>2, <4>1, CalmJobKept DEF CalmState
    <3> QED BY <3>1, <3>2
  <2>8. ASSUME NEW v \in Workers PROVE CalmWorker(v)'
    <3>1. CASE v = w
      BY <1>1, <2>1, <2>2, <2>4, <3>1 DEF CalmWorker, Holds
    <3>2. CASE v # w /\ worker[v] # Idle /\ worker[v].job = j
      BY <1>1, <2>2, <2>5, <3>2 DEF CalmState, CalmWorker
    <3>3. CASE v # w /\ ~(worker[v] # Idle /\ worker[v].job = j)
      <4>1. worker[v] # Idle => worker[v].job \in Jobs
        BY <1>0, BusyWorker
      <4> QED BY <1>1, <2>2, <2>6, <3>3, <4>1, CalmWorkerKept DEF CalmState
    <3> QED BY <3>1, <3>2, <3>3
  <2>9. ASSUME NEW u \in Workers, NEW v \in Workers, u # v PROVE Apart(u, v)'
    BY <2>2, <2>5, <2>9 DEF CalmState, Apart
  <2> QED BY <2>7, <2>8, <2>9 DEF CalmState
<1> QED BY <1>3, <1>4, ClaimStep

\* The end of a claim: nobody else has the message under the same link.
LEMMA EndKeepsCalm ==
  ASSUME PromiseInv, CalmState, NEW w \in Workers, worker[w] # Idle, NEW how \in Endings,
         how \in {"gone", "late"} => queue = "push", End(w, how),
         worker[w].stage = "accepted" <=> how = "sent",
         queue' = queue, accepted' = accepted,
         \A j \in Jobs : subject'[j].link = subject[j].link
  PROVE  CalmState'
<1>0. Types /\ Grip(w)
  BY DEF PromiseInv
<1>j. PICK j \in Jobs : j = worker[w].job
  BY <1>0, BusyWorker
<1>1. /\ worker' = [worker EXCEPT ![w] = Idle]
      /\ \A i \in Jobs \ {j} : row'[i] = row[i]
      /\ ~Holds(w, j) => row' = row
      /\ Holds(w, j) => row'[j].status \in Outcomes(how)
  BY <1>j, EndStep
<1>2. worker'[w] = Idle /\ \A v \in Workers \ {w} : worker'[v] = worker[v]
  BY <1>0, <1>1 DEF Types
<1>3. ASSUME NEW i \in Jobs, i # j \/ ~Holds(w, j) PROVE CalmJob(i)'
  <2>1. row'[i] = row[i]
    BY <1>1, <1>3
  <2>2. row[i].status = "SENDING" => row[i].lease \in Workers \ {w}
    BY <1>j, <1>3 DEF CalmState, CalmJob, Working, Holds
  <2> QED BY <1>2, <2>1, <2>2, CalmJobKept DEF CalmState, Eased
<1>4. CASE ~Holds(w, j)
  <2>1. ASSUME NEW v \in Workers PROVE CalmWorker(v)'
    <3>1. CASE v = w
      BY <1>2, <3>1 DEF CalmWorker
    <3>2. CASE v # w
      <4>1. worker[v] # Idle => worker[v].job \in Jobs
        BY <1>0, BusyWorker
      <4> QED BY <1>1, <1>2, <1>4, <3>2, <4>1, CalmWorkerKept DEF CalmState, Eased
    <3> QED BY <3>1, <3>2
  <2>2. ASSUME NEW u \in Workers, NEW v \in Workers, u # v PROVE Apart(u, v)'
    BY <1>2, <2>2 DEF CalmState, Apart
  <2> QED BY <1>3, <1>4, <2>1, <2>2 DEF CalmState
<1>5. CASE Holds(w, j)
  <2>1. worker[w].link = subject[j].link
    BY <1>j, <1>0, <1>5 DEF Grip
  <2>2. row'[j].status # "SENDING" /\ (how = "sent" => row'[j].status = "SENT")
    BY <1>1, <1>5 DEF Outcomes
  <2>3. how # "sent" => subject[j].link \notin accepted[j]
    BY <1>j, <2>1 DEF CalmState, CalmWorker
  <2>4. CalmJob(j)'
    <3>1. accepted'[j] \subseteq 0 .. subject'[j].link
      BY <1>1 DEF CalmState, CalmJob
    <3>2. how = "sent" => Done(j)'
      BY <2>2 DEF Done, Settled
    <3> QED BY <1>1, <2>2, <2>3, <3>1, <3>2 DEF CalmJob
  <2>5. ASSUME NEW v \in Workers PROVE CalmWorker(v)'
    <3>1. CASE v = w
      BY <1>2, <3>1 DEF CalmWorker
    <3>2. CASE v # w /\ worker[v] # Idle /\ worker[v].job = j
      <4>1. worker[v].link # subject[j].link
        BY <1>j, <2>1, <3>2 DEF CalmState, Apart
      <4> QED BY <1>1, <1>2, <3>2, <4>1 DEF CalmState, CalmWorker
    <3>3. CASE v # w /\ ~(worker[v] # Idle /\ worker[v].job = j)
      <4>1. worker[v] # Idle => worker[v].job \in Jobs
        BY <1>0, BusyWorker
      <4> QED BY <1>1, <1>2, <3>3, <4>1, CalmWorkerKept DEF CalmState, Eased
    <3> QED BY <3>1, <3>2, <3>3
  <2>6. ASSUME NEW u \in Workers, NEW v \in Workers, u # v PROVE Apart(u, v)'
    BY <1>2, <2>6 DEF CalmState, Apart
  <2> QED BY <1>3, <2>4, <2>5, <2>6 DEF CalmState
<1> QED BY <1>4, <1>5

\* A worker goes on: the subject admits the message, or the relay answers.
LEMMA StageKeepsCalm ==
  ASSUME PromiseInv, CalmState, NEW w \in Workers, worker[w] # Idle,
         worker[w].stage # "accepted",
         NEW stage \in {"checked", "accepted", "refused"},
         worker' = [worker EXCEPT ![w] = [worker[w] EXCEPT !.stage = stage]],
         stage = "accepted" => Left(w),
         stage # "accepted" => accepted' = accepted,
         UNCHANGED <<queue, row, subject>>
  PROVE  CalmState'
<1>0. Types /\ Grip(w) /\ CalmWorker(w) /\ worker[w] \in Busy /\ worker[w].link \in Nat
  BY BusyWorker DEF PromiseInv, CalmState
<1>j. PICK j \in Jobs : j = worker[w].job
  BY <1>0, BusyWorker
<1>1. /\ worker'[w].stage = stage /\ worker'[w].job = j /\ worker'[w].link = worker[w].link
      /\ \A v \in Workers \ {w} : worker'[v] = worker[v]
  BY <1>j, <1>0 DEF Types, Busy
<1>2. worker'[w] # Idle
  BY <1>1 DEF Idle
<1>3. \A i \in Jobs : i # j => accepted'[i] = accepted[i]
  BY <1>j, <1>0 DEF Left, Types
<1>4. /\ stage = "accepted" => accepted'[j] = accepted[j] \cup {worker[w].link}
      /\ stage # "accepted" => accepted'[j] = accepted[j]
  BY <1>j, <1>0 DEF Left, Types
<1>5. ASSUME NEW v \in Workers, v # w, worker[v] # Idle, worker[v].job = j
      PROVE  worker[v].link # worker[w].link
  BY <1>j, <1>5 DEF CalmState, Apart
<1>6. ASSUME NEW i \in Jobs PROVE CalmJob(i)'
  <2>1. CASE i # j
    <3>1. row[i].status = "SENDING" => row[i].lease \in Workers \ {w}
      BY <1>j, <2>1 DEF CalmState, CalmJob, Working
    <3> QED BY <1>1, <1>3, <2>1, <3>1, CalmJobKept DEF CalmState, Eased
  <2>2. CASE i = j
    <3>0. CalmJob(j)
      BY DEF CalmState
    <3>1. accepted'[j] \subseteq 0 .. subject'[j].link
      <4>1. worker[w].link <= subject[j].link /\ subject[j].link \in Nat
        BY <1>j, <1>0, OutboxAssumption DEF Grip, Types, Subject
      <4>2. accepted[j] \subseteq 0 .. subject[j].link
        BY <3>0 DEF CalmJob
      <4> QED BY <1>0, <1>4, <4>1, <4>2
    <3>2. row'[j].status = "SENDING" =>
            row'[j].lease \in Workers /\ Working(row[j].lease, j)' /\ ~row'[j].lapsed
      BY <1>1, <1>2, <3>0 DEF CalmJob, Working
    <3>3. CASE subject[j].link \in accepted[j]
      <4>1. row[j].status = "SENDING" /\ worker[row[j].lease].stage = "accepted" =>
              worker'[row[j].lease].stage = "accepted"
        BY <1>1, <3>0 DEF CalmJob
      <4> QED BY <2>2, <3>0, <3>1, <3>2, <3>3, <4>1 DEF CalmJob, Done
    <3>4. CASE subject[j].link \notin accepted[j] /\ subject[j].link \in accepted'[j]
      <4>1. stage = "accepted" /\ subject[j].link = worker[w].link
        BY <1>4, <3>4
      <4>2. Holds(w, j) \/ Done(j)
        BY <1>j, <1>0, <4>1 DEF CalmWorker
      <4>3. Holds(w, j) => row'[j].status = "SENDING" /\ worker'[row'[j].lease].stage = "accepted"
        BY <1>1, <4>1 DEF Holds
      <4> QED BY <2>2, <3>1, <3>2, <4>2, <4>3 DEF CalmJob, Done
    <3>5. CASE subject[j].link \notin accepted'[j]
      BY <2>2, <3>1, <3>2, <3>5 DEF CalmJob
    <3> QED BY <3>3, <3>4, <3>5
  <2> QED BY <2>1, <2>2
<1>7. ASSUME NEW v \in Workers PROVE CalmWorker(v)'
  <2>1. CASE v = w
    <3>1. worker'[w].stage # "unanswered"
      BY <1>1
    <3>2. stage # "accepted" => worker[w].link \notin accepted'[j]
      BY <1>j, <1>0, <1>4 DEF CalmWorker
    <3>3. worker[w].link = subject'[j].link => Holds(w, j)' \/ Done(j)'
      BY <1>j, <1>0 DEF CalmWorker, Holds, Done
    <3> QED BY <1>1, <2>1, <3>1, <3>2, <3>3 DEF CalmWorker, Done, Holds
  <2>2. CASE v # w
    <3>1. worker[v] # Idle /\ worker[v].job = j /\ worker[v].link \notin accepted[j] =>
            worker[v].link \notin accepted'[j]
      BY <1>4, <1>5, <2>2
    <3>2. CASE worker[v] # Idle /\ worker[v].job = j
      BY <1>1, <2>2, <3>1, <3>2 DEF CalmState, CalmWorker, Holds, Done
    <3>3. CASE ~(worker[v] # Idle /\ worker[v].job = j)
      <4>1. worker[v] # Idle => worker[v].job \in Jobs
        BY <1>0, BusyWorker
      <4> QED BY <1>1, <1>3, <2>2, <3>3, <4>1, CalmWorkerKept DEF CalmState, Eased
    <3> QED BY <3>2, <3>3
  <2> QED BY <2>1, <2>2
<1>8. ASSUME NEW u \in Workers, NEW v \in Workers, u # v PROVE Apart(u, v)'
  BY <1>j, <1>1, <1>5, <1>8 DEF CalmState, Apart
<1> QED BY <1>6, <1>7, <1>8 DEF CalmState

LEMMA WorkerKeepsCalm ==
  ASSUME PromiseInv, CalmState, NEW w \in Workers, WorkerStep(w), faults' = faults
  PROVE  CalmState'
<1>0. Types /\ faults \in Nat /\ CalmWorker(w)
  BY DEF PromiseInv, Types, CalmState
<1>1. CASE ClaimNext(w)
  BY <1>1, ClaimKeepsCalm
<1>2. CASE Check(w)
  <2>1. worker[w] # Idle /\ UNCHANGED <<queue, accepted>> /\ worker[w].stage = "claimed"
    BY <1>0, <1>2, BusyWorker DEF Check
  <2>2. CASE /\ worker' = [worker EXCEPT ![w].stage = "checked"]
             /\ UNCHANGED <<row, line, subject>>
    <3>1. worker' = [worker EXCEPT ![w] = [worker[w] EXCEPT !.stage = "checked"]]
      BY <2>2
    <3> QED BY <2>1, <2>2, <3>1, StageKeepsCalm
  <2>3. CASE End(w, "inadmissible") /\ (subject' = subject
                 \/ subject' = [subject EXCEPT ![worker[w].job].open = FALSE])
    <3>1. \A j \in Jobs : subject'[j].link = subject[j].link
      BY <2>3, <1>0 DEF Types, Subject
    <3> QED BY <2>1, <2>3, <3>1, EndKeepsCalm DEF Endings
  <2> QED BY <1>2, <2>2, <2>3 DEF Check
<1>3. CASE SendAccepted(w)
  <2>1. worker[w] # Idle /\ worker[w].stage = "checked"
    BY <1>0, <1>3, BusyWorker DEF SendAccepted
  <2>2. /\ worker' = [worker EXCEPT ![w] = [worker[w] EXCEPT !.stage = "accepted"]]
        /\ Left(w) /\ UNCHANGED <<queue, row, subject>>
    BY <1>3 DEF SendAccepted
  <2> QED BY <2>1, <2>2, StageKeepsCalm
<1>4. CASE SendRefused(w)
  <2>1. worker[w] # Idle /\ worker[w].stage = "checked"
    BY <1>0, <1>4, BusyWorker DEF SendRefused
  <2>2. /\ worker' = [worker EXCEPT ![w] = [worker[w] EXCEPT !.stage = "refused"]]
        /\ accepted' = accepted /\ UNCHANGED <<queue, row, subject>>
    BY <1>4 DEF SendRefused
  <2> QED BY <2>1, <2>2, StageKeepsCalm
<1>5. CASE SendUnanswered(w)
  BY <1>0, <1>5 DEF SendUnanswered
<1>6. CASE SendGone(w)
  <2>1. /\ worker[w] # Idle /\ UNCHANGED <<queue, accepted>> /\ worker[w].stage = "checked"
    BY <1>0, <1>6, BusyWorker DEF SendGone
  <2>2. queue = "push" /\ End(w, "gone") /\ subject' = [subject EXCEPT ![worker[w].job].open = FALSE]
    BY <1>6 DEF SendGone
  <2>3. \A j \in Jobs : subject'[j].link = subject[j].link
    BY <2>2, <1>0 DEF Types, Subject
  <2> QED BY <2>1, <2>2, <2>3, EndKeepsCalm DEF Endings
<1>7. CASE MarkSent(w)
  <2>1. /\ worker[w] # Idle /\ UNCHANGED <<queue, subject, accepted>> /\ End(w, "sent")
        /\ worker[w].stage = "accepted"
    BY <1>0, <1>7, BusyWorker DEF MarkSent
  <2> QED BY <2>1, EndKeepsCalm DEF Endings
<1>8. CASE RecordFailure(w)
  <2>1. /\ worker[w] # Idle /\ UNCHANGED <<queue, subject, accepted>>
        /\ worker[w].stage \in {"refused", "unanswered"}
    BY <1>0, <1>8, BusyWorker DEF RecordFailure
  <2>2. PICK how \in {"failed", "late"} : (how = "late" => queue = "push") /\ End(w, how)
    BY <1>8 DEF RecordFailure
  <2> QED BY <2>1, <2>2, EndKeepsCalm DEF Endings
<1>9. CASE Release(w)
  <2>0. UNCHANGED <<queue, subject, accepted>> /\ End(w, "released")
    BY <1>9, Zenon DEF Release
  <2>1. worker[w].stage # "idle" /\ worker[w].stage # "accepted"
    BY <1>9, Zenon DEF Release
  <2>2. worker[w] # Idle
    BY <1>0, <2>1, BusyWorker
  <2> QED BY <2>0, <2>1, <2>2, EndKeepsCalm DEF Endings
<1> QED BY <1>1, <1>2, <1>3, <1>4, <1>5, <1>6, <1>7, <1>8, <1>9 DEF WorkerStep

\* A producer queues a message that nobody has sent, or renews it.
LEMMA ProducerKeepsCalm ==
  ASSUME PromiseInv, CalmState, NEW j \in Jobs, Producer(j)
  PROVE  CalmState'
<1>0. Types /\ CalmJob(j) /\ subject[j].link \in Nat
  BY OutboxAssumption DEF PromiseInv, CalmState, Types, Subject
<1>1. /\ UNCHANGED <<queue, worker, accepted>>
      /\ \A i \in Jobs \ {j} : row'[i] = row[i] /\ subject'[i] = subject[i]
  BY ProducerStep
<1>2. CASE /\ row'[j] = row[j] \/
                /\ row[j].status \in Open \cup {"FAILED"}
                /\ row'[j].status \in {"CANCELLED", "FAILED", "EXPIRED"}
                /\ queue = "invitation" => row'[j].status # "FAILED"
           /\ subject'[j].link = subject[j].link
  <2>1. \A i \in Jobs : Eased(i) /\ subject'[i].link = subject[i].link
    BY <1>1, <1>2 DEF Eased, Settled
  <2> QED BY <1>0, <1>1, <2>1, CalmKept
<1>3. CASE /\ row'[j].status # "SENDING" /\ subject'[j].link \notin accepted[j]
           /\ subject'[j].link >= subject[j].link /\ subject'[j].link \in Nat
           /\ \A w \in Workers : worker[w] # Idle /\ worker[w].job = j => worker[w].link # subject'[j].link
  <2>1. ASSUME NEW i \in Jobs PROVE CalmJob(i)'
    <3>1. CASE i = j
      <4>1. accepted'[j] \subseteq 0 .. subject'[j].link
        BY <1>0, <1>1, <1>3 DEF CalmJob
      <4> QED BY <1>1, <1>3, <3>1, <4>1 DEF CalmJob
    <3>2. CASE i # j
      BY <1>1, <3>2, CalmJobKept DEF CalmState, Eased
    <3> QED BY <3>1, <3>2
  <2>2. ASSUME NEW w \in Workers PROVE CalmWorker(w)'
    <3>1. CASE worker[w] # Idle /\ worker[w].job = j
      BY <1>1, <1>3, <3>1 DEF CalmState, CalmWorker
    <3>2. CASE ~(worker[w] # Idle /\ worker[w].job = j)
      <4>1. worker[w] # Idle => worker[w].job \in Jobs
        BY <1>0, BusyWorker
      <4> QED BY <1>1, <3>2, <4>1, CalmWorkerKept DEF CalmState, Eased
    <3> QED BY <3>1, <3>2
  <2>3. ASSUME NEW v \in Workers, NEW w \in Workers, v # w PROVE Apart(v, w)'
    BY <1>1, <2>3 DEF CalmState, Apart
  <2> QED BY <2>1, <2>2, <2>3 DEF CalmState
<1>4. CASE /\ row[j].status = "NONE" \/ (queue = "invitation" /\ row[j].status = "FAILED")
           /\ row'[j] = Fresh /\ subject' = subject
  <2>1. ~Done(j) /\ row[j].status # "SENDING"
    BY <1>4 DEF Done, Settled
  <2>2. subject[j].link \notin accepted[j]
    BY <1>0, <2>1 DEF CalmJob
  <2>3. ASSUME NEW w \in Workers, worker[w] # Idle, worker[w].job = j
        PROVE  worker[w].link # subject[j].link
    BY <2>1, <2>3 DEF CalmState, CalmWorker, Holds
  <2> QED BY <1>0, <1>3, <1>4, <2>2, <2>3, FreshRow
<1>5. CASE row'[j].status # "SENDING" /\ subject'[j].link = subject[j].link + 1
  <2>1. subject'[j].link \notin accepted[j]
    BY <1>0, <1>5 DEF CalmJob
  <2>2. ASSUME NEW w \in Workers, worker[w] # Idle, worker[w].job = j
        PROVE  worker[w].link # subject'[j].link
    <3>1. worker[w].link <= subject[j].link /\ worker[w].link \in Nat
      BY <1>0, <2>2, BusyWorker DEF PromiseInv, Grip
    <3> QED BY <1>0, <1>5, <3>1
  <2> QED BY <1>0, <1>3, <1>5, <2>1, <2>2
<1> QED BY <1>2, <1>4, <1>5, ProducerStep, FreshRow

LEMMA CalmStep == PromiseInv /\ Calm /\ [Next]_vars => Calm'
<1> SUFFICES ASSUME PromiseInv, Calm, [Next]_vars, faults' = 0 PROVE CalmState'
  BY DEF Calm
<1>0. Types /\ faults \in Nat
  BY DEF PromiseInv, Types
<1>1. ASSUME NEW w \in Workers, WorkerStep(w) PROVE CalmState'
  <2>1. faults' = faults \/ faults' = faults + 1
    BY <1>0, <1>1, Zenon DEF WorkerStep, ClaimNext, Check, SendAccepted, SendRefused,
       SendUnanswered, SendGone, MarkSent, RecordFailure, Release
  <2> QED BY <1>0, <1>1, <2>1, WorkerKeepsCalm DEF Calm
<1>2. ASSUME NEW w \in Workers, Abandon(w) PROVE CalmState'
  BY <1>0, <1>2 DEF Abandon
<1>3. ASSUME NEW j \in Jobs, RetryDue(j) PROVE CalmState'
  BY <1>0, <1>3, CalmKept DEF RetryDue, Calm, Eased
<1>4. ASSUME NEW j \in Jobs, LeaseRunsOut(j) PROVE CalmState'
  <2>1. faults = 0 => Working(row[j].lease, j)
    BY <1>4 DEF Calm, CalmState, CalmJob, LeaseRunsOut
  <2> QED BY <1>0, <1>4, <2>1 DEF LeaseRunsOut
<1>5. ASSUME NEW j \in Jobs, Expire(j) PROVE CalmState'
  <2>1. UNCHANGED <<queue, row, worker, accepted, faults>> /\ subject' = [subject EXCEPT ![j].expired = TRUE]
    BY <1>5 DEF Expire
  <2>2. \A i \in Jobs : subject'[i].link = subject[i].link
    BY <1>0, <2>1 DEF Types, Subject
  <2> QED BY <1>0, <2>1, <2>2, CalmKept DEF Calm, Eased
<1>6. ASSUME NEW j \in Jobs, Producer(j) PROVE CalmState'
  <2>1. faults' = faults
    BY <1>6, ProducerStep
  <2> QED BY <1>6, <2>1, ProducerKeepsCalm DEF Calm
<1>7. CASE SetAvailable
  BY <1>0, <1>7, CalmKept DEF SetAvailable, Calm, Eased
<1>8. CASE UNCHANGED vars
  BY <1>0, <1>8, CalmKept DEF vars, Calm, Eased
<1> QED BY <1>1, <1>2, <1>3, <1>4, <1>5, <1>6, <1>7, <1>8 DEF Next

LEMMA CalmInit == Init => Calm
BY OutboxAssumption DEF Init, Calm, CalmState, CalmJob, CalmWorker, Apart, Idle

LEMMA SendsOnce ==
  ASSUME PromiseInv, Calm, NEW w \in Workers,
         worker[w].stage = "checked", worker'[w].stage = "accepted"
  PROVE  worker[w].link \notin accepted[worker[w].job] \/ faults > 0
<1>1. worker[w] # Idle /\ faults \in Nat
  BY BusyWorker DEF PromiseInv, Types
<1> QED BY <1>1 DEF Calm, CalmState, CalmWorker

\* Before the first crash, suspension or lost answer nobody gets a message
\* twice, for any number of messages and workers: the leases of claimNext
\* keep the workers apart, and every way a claim is given back (release,
\* failure, cancellation, resend) leaves nothing sent under its link.
THEOREM NobodyGetsAMessageTwice == Spec => NoNeedlessDuplicate
<1>1. Spec => []Calm
  BY CalmInit, CalmStep, WorkersHoldTheirClaims, PTL DEF Spec
<1>2. PromiseInv /\ Calm /\ [Next]_vars =>
        [\A w \in Workers :
           worker[w].stage = "checked" /\ worker'[w].stage = "accepted"
             => worker[w].link \notin accepted[worker[w].job] \/ faults > 0]_vars
  BY SendsOnce
<1> QED BY <1>1, <1>2, WorkersHoldTheirClaims, PTL DEF Spec, NoNeedlessDuplicate
=============================================================================
