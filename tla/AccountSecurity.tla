--------------------------- MODULE AccountSecurity ---------------------------
(***************************************************************************)
(* Accounts, their sessions and the one-time actions that reset a password *)
(* or change a mailbox.  A command reads and verifies credentials outside  *)
(* the transaction that writes, so the two are separate steps here and any *)
(* other command may come between them.                                    *)
(***************************************************************************)
EXTENDS Integers, Sequences, FiniteSets

CONSTANTS
  Users, Emails, Passwords,
  SessionLifetime, ActionLifetime,   \* in the steps of the clock
  MaxHour, MaxRequests, MaxActions, MaxSessions, MaxChanges   \* bounds

ASSUME AccountsAssumption ==
  /\ {SessionLifetime, ActionLifetime, MaxHour, MaxRequests, MaxActions, MaxSessions, MaxChanges} \subseteq Nat
  /\ Cardinality(Users) <= Cardinality(Emails)

VARIABLES
  account,          \* users: mailbox, password hash, number of sensitive changes
  sessions,         \* rows of sessions
  securityActions,  \* rows of account_security_actions with their mail
  requests,         \* commands that have read and not yet written
  hour

accountVars == <<account, sessions, securityActions, requests, hour>>

\* A hash is salted: a password set again does not give the old hash.
Hash(password, salt) == [password |-> password, salt |-> salt]
NoTarget == "none"

AccountsInit ==
  /\ account \in [Users -> [email : Emails, hash : {Hash(p, 0) : p \in Passwords}, changes : {0}]]
  /\ \A u, v \in Users : account[u].email = account[v].email => u = v
  /\ sessions = {}
  /\ securityActions = <<>>
  /\ requests = {}
  /\ hour = 0

VerifyPassword(u, password) == account[u].hash.password = password
AccountActor(u) == \E s \in sessions : s.user = u /\ s.expires > hour

Request(kind, u, target, new) ==
  [kind |-> kind, user |-> u, source |-> account[u].email, hash |-> account[u].hash, target |-> target, new |-> new]

Receive(r) ==
  /\ Cardinality(requests) < MaxRequests
  /\ requests' = requests \cup {r}
  /\ UNCHANGED <<account, sessions, securityActions, hour>>

Login(u, password) ==
  /\ VerifyPassword(u, password)
  /\ Receive(Request("LOGIN", u, NoTarget, password))

CreateSession(r) ==
  /\ r.kind = "LOGIN"
  /\ \E id \in 1 .. MaxSessions :
       /\ \A s \in sessions : s.id # id
       /\ sessions' = sessions \cup
            {[id |-> id, user |-> r.user, expires |-> hour + SessionLifetime, since |-> account[r.user].changes]}
  /\ requests' = requests \ {r}
  /\ UNCHANGED <<account, securityActions, hour>>

Open(a) == a.state = "OPEN"
Closed(a, state) == [a EXCEPT !.state = state, !.mail = IF @ = "PENDING" THEN "CANCELLED" ELSE @]

\* Of one user, and of one kind unless the kind is ANY.
InvalidateAccountActions(acts, u, kind) ==
  [i \in DOMAIN acts |->
     IF Open(acts[i]) /\ acts[i].user = u /\ kind \in {"ANY", acts[i].kind}
       THEN Closed(acts[i], "INVALID") ELSE acts[i]]

InvalidateExpiredEmailTarget(acts, target) ==
  [i \in DOMAIN acts |->
     IF Open(acts[i]) /\ acts[i].target = target /\ acts[i].expires <= hour
       THEN Closed(acts[i], "INVALID") ELSE acts[i]]

\* Mutant of FinishSensitiveAccountChange: a change keeps the sessions that
\* were opened before it.
FinishKeepsSessions(u, acts) ==
  /\ securityActions' = InvalidateAccountActions(acts, u, "ANY")
  /\ UNCHANGED sessions

\* acts has the action the change consumed, if any, already closed.
FinishSensitiveAccountChange(u, acts) ==
  /\ securityActions' = InvalidateAccountActions(acts, u, "ANY")
  /\ sessions' = {s \in sessions : s.user # u}

ReadPasswordChange(u, current, new) ==
  /\ AccountActor(u)
  /\ VerifyPassword(u, current)
  /\ new # current
  /\ Receive(Request("PASSWORD", u, NoTarget, new))

\* Writes only over the hash that was verified; otherwise a conflict.
ChangePassword(r) ==
  LET u == r.user
  IN  /\ r.kind = "PASSWORD"
      /\ requests' = requests \ {r}
      /\ UNCHANGED hour
      /\ IF account[u].hash = r.hash
           THEN /\ account[u].changes < MaxChanges
                /\ account' = [account EXCEPT ![u].hash = Hash(r.new, account[u].changes + 1), ![u].changes = @ + 1]
                /\ FinishSensitiveAccountChange(u, securityActions)
           ELSE UNCHANGED <<account, sessions, securityActions>>

StartPasswordReset(email) ==
  \E u \in Users :
    /\ account[u].email = email
    /\ Receive(Request("PASSWORD_RESET", u, NoTarget, NoTarget))

StartEmailChange(u, target) ==
  /\ AccountActor(u)
  /\ \A v \in Users : account[v].email # target
  /\ Receive(Request("EMAIL_CHANGE", u, target, NoTarget))

\* The unique index over open targets; a user's own open action is closed first.
TargetTaken(acts, target) == \E i \in DOMAIN acts : Open(acts[i]) /\ acts[i].target = target

PersistAccountSecurityAction(r) ==
  LET u       == r.user
      expired == IF r.kind = "EMAIL_CHANGE" THEN InvalidateExpiredEmailTarget(securityActions, r.target)
                 ELSE securityActions
      acts    == InvalidateAccountActions(expired, u, r.kind)
      current == account[u].email = r.source /\ account[u].hash = r.hash
      blocked == r.kind = "EMAIL_CHANGE" /\ TargetTaken(acts, r.target)
  IN  /\ r.kind \in {"PASSWORD_RESET", "EMAIL_CHANGE"}
      /\ requests' = requests \ {r}
      /\ UNCHANGED <<account, sessions, hour>>
      /\ IF current /\ ~blocked
           THEN /\ Len(acts) < MaxActions
                /\ securityActions' = Append(acts,
                     [kind |-> r.kind, user |-> u, source |-> r.source, target |-> r.target, hash |-> r.hash,
                      expires |-> hour + ActionLifetime, state |-> "OPEN", mail |-> "PENDING"])
           ELSE UNCHANGED securityActions

LoadOpenAccountAction(i, kind) ==
  LET a == securityActions[i]
  IN  a.kind = kind /\ Open(a) /\ a.expires > hour /\ account[a.user].email = a.source

Consumed(i) == [securityActions EXCEPT ![i] = Closed(@, "CONSUMED")]

ConfirmPasswordReset(i, new) ==
  LET u == securityActions[i].user
  IN  /\ LoadOpenAccountAction(i, "PASSWORD_RESET")
      /\ account[u].changes < MaxChanges
      /\ account' = [account EXCEPT ![u].hash = Hash(new, account[u].changes + 1), ![u].changes = @ + 1]
      /\ FinishSensitiveAccountChange(u, Consumed(i))
      /\ UNCHANGED <<requests, hour>>

\* A mailbox another account has taken meanwhile is a conflict.
ConfirmEmailChange(i) ==
  LET a == securityActions[i]
  IN  /\ LoadOpenAccountAction(i, "EMAIL_CHANGE")
      /\ \A v \in Users : account[v].email # a.target
      /\ account[a.user].changes < MaxChanges
      /\ account' = [account EXCEPT ![a.user].email = a.target, ![a.user].changes = @ + 1]
      /\ FinishSensitiveAccountChange(a.user, Consumed(i))
      /\ UNCHANGED <<requests, hour>>

\* The outbox worker; its claims and retries are the subject of Outbox.
SendSecurityMail(i) ==
  /\ Open(securityActions[i])
  /\ securityActions[i].mail = "PENDING"
  /\ securityActions' = [securityActions EXCEPT ![i].mail = "SENT"]
  /\ UNCHANGED <<account, sessions, requests, hour>>

Logout(s) ==
  /\ sessions' = sessions \ {s}
  /\ UNCHANGED <<account, securityActions, requests, hour>>

\* An expired session is deleted when it is presented.
Authenticate(s) ==
  /\ s.expires <= hour
  /\ sessions' = sessions \ {s}
  /\ UNCHANGED <<account, securityActions, requests, hour>>

CleanupExpired ==
  /\ sessions' = {s \in sessions : s.expires > hour}
  /\ UNCHANGED <<account, securityActions, requests, hour>>

Hour ==
  /\ hour < MaxHour
  /\ hour' = hour + 1
  /\ UNCHANGED <<account, sessions, securityActions, requests>>

AccountsNext ==
  \/ \E u \in Users, p \in Passwords : Login(u, p)
  \/ \E u \in Users, p, q \in Passwords : ReadPasswordChange(u, p, q)
  \/ \E e \in Emails : StartPasswordReset(e)
  \/ \E u \in Users, e \in Emails : StartEmailChange(u, e)
  \/ \E r \in requests : CreateSession(r) \/ ChangePassword(r) \/ PersistAccountSecurityAction(r)
  \/ \E i \in DOMAIN securityActions, q \in Passwords : ConfirmPasswordReset(i, q)
  \/ \E i \in DOMAIN securityActions : ConfirmEmailChange(i) \/ SendSecurityMail(i)
  \/ \E s \in sessions : Logout(s) \/ Authenticate(s)
  \/ CleanupExpired
  \/ Hour

AccountsSpec == AccountsInit /\ [][AccountsNext]_accountVars
-----------------------------------------------------------------------------
\* What a change of password or mailbox leaves behind (ChangePassword, the two
\* confirmations): no session older than the change, no open action that was
\* requested under the former password or sent to the former mailbox, and no
\* mail of an action that is closed; an address is wanted by one open action
\* and a user has one open action of a kind, whatever overlapped.
ChangeRevokesEverything ==
  /\ \A s \in sessions : s.since = account[s.user].changes
  /\ \A i \in DOMAIN securityActions :
       LET a == securityActions[i]
       IN  IF Open(a)
             THEN /\ a.source = account[a.user].email /\ a.hash = account[a.user].hash
                  /\ \A j \in DOMAIN securityActions \ {i} : Open(securityActions[j]) =>
                       /\ <<a.user, a.kind>> # <<securityActions[j].user, securityActions[j].kind>>
                       /\ a.target = NoTarget \/ a.target # securityActions[j].target
             ELSE a.mail # "PENDING"
=============================================================================
