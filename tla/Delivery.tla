------------------------------ MODULE Delivery ------------------------------
(***************************************************************************)
(* What a durable outbox promises its producers, whatever its leases, its  *)
(* retries and its crashes: a message that is reported delivered was       *)
(* accepted by the relay in its current wording, and this report is only   *)
(* taken back together with the secret link the message was sent with.     *)
(***************************************************************************)
EXTENDS Naturals

CONSTANT Jobs            \* messages

VARIABLES
  phase,                 \* absent, queued, delivered or dropped
  content,               \* the generation of the message's secret link
  accepted               \* the generations the relay has accepted

abstractVars == <<phase, content, accepted>>

AbstractInit ==
  /\ phase = [j \in Jobs |-> "absent"]
  /\ content = [j \in Jobs |-> 0]
  /\ accepted = [j \in Jobs |-> {}]

\* A producer queues a message for the first time, or a dropped one again.
Enqueue(j) ==
  /\ phase[j] \in {"absent", "dropped"}
  /\ phase' = [phase EXCEPT ![j] = "queued"]
  /\ UNCHANGED <<content, accepted>>

\* A producer replaces the secret link and queues the message with it.
Renew(j) ==
  /\ phase' = [phase EXCEPT ![j] = "queued"]
  /\ content' = [content EXCEPT ![j] = @ + 1]
  /\ UNCHANGED accepted

\* A producer replaces the secret link and does not queue the message: what
\* was reported of the old link is void, and nothing may be under way.
Replace(j) ==
  /\ phase[j] # "queued"
  /\ phase' = [phase EXCEPT ![j] = IF @ = "absent" THEN "absent" ELSE "dropped"]
  /\ content' = [content EXCEPT ![j] = @ + 1]
  /\ UNCHANGED accepted

\* The relay accepts the message: at any time, for a worker may be late, and
\* in an older wording, for a worker may have read it before it was renewed.
Accept(j) ==
  /\ phase[j] # "absent"
  /\ \E generation \in 0 .. content[j] :
       accepted' = [accepted EXCEPT ![j] = @ \cup {generation}]
  /\ UNCHANGED <<phase, content>>

Deliver(j) ==
  /\ phase[j] = "queued"
  /\ content[j] \in accepted[j]
  /\ phase' = [phase EXCEPT ![j] = "delivered"]
  /\ UNCHANGED <<content, accepted>>

\* Messages are given up, several at a time.
Drop(given) ==
  /\ \A j \in given : phase[j] = "queued"
  /\ phase' = [j \in Jobs |-> IF j \in given THEN "dropped" ELSE phase[j]]
  /\ UNCHANGED <<content, accepted>>

AbstractNext ==
  \/ \E j \in Jobs : Enqueue(j) \/ Renew(j) \/ Replace(j) \/ Accept(j) \/ Deliver(j)
  \/ \E given \in SUBSET Jobs : Drop(given)

AbstractSpec == AbstractInit /\ [][AbstractNext]_abstractVars
=============================================================================
