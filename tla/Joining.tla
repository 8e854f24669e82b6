------------------------------- MODULE Joining -------------------------------
(***************************************************************************)
(* How people come into a group and leave it: invitations, claims of       *)
(* temporary guests, the public join link with its registrations, and the  *)
(* archive.  Every command is one transaction; between the preview of an   *)
(* invitation and its acceptance anything may happen.  Expiry is a step of *)
(* its own that may come at any time.  Permissions are in Roles, delivery  *)
(* of the messages in Outbox.                                              *)
(***************************************************************************)
EXTENDS Integers, Sequences, FiniteSets, SequencesExt

CONSTANTS
  Mailboxes, GuestNames, RoleSets,
  DefaultRoles,     \* the set that holds the group's default role alone
  Identities,       \* bound: users
  MaxMembers, MaxInvitations, MaxRegistrations, MaxLinkVersion, MaxTokens   \* bounds

ASSUME JoiningAssumption ==
  /\ {MaxMembers, MaxInvitations, MaxRegistrations, MaxLinkVersion, MaxTokens} \subseteq Nat
  /\ DefaultRoles \in RoleSets /\ {} \notin RoleSets /\ 0 \notin Identities

VARIABLES
  identity,       \* users: NONE, GUEST, ACCOUNT or INACTIVE, with the mailbox
  members,        \* rows of memberships with their role assignments
  invitations,    \* rows of invitations with their role assignments
  form,           \* an invitation form in a browser
  link,           \* the row of public_join_links
  registrations   \* rows of public_join_registrations

joinVars == <<identity, members, invitations, form, link, registrations>>

NoMailbox == "none"
NoForm == [invitation |-> 0, token |-> 0, expected |-> "NEW"]

JoinInit ==
  /\ identity = [u \in Identities |-> [kind |-> "NONE", email |-> NoMailbox]]
  /\ members = <<>>
  /\ invitations = <<>>
  /\ form = NoForm
  /\ link = [enabled |-> FALSE, version |-> 0, token |-> 0, fresh |-> FALSE]
  /\ registrations = <<>>

Accounts(email) == {u \in Identities : identity[u].kind = "ACCOUNT" /\ identity[u].email = email}
Active == {m \in DOMAIN members : members[m].status = "ACTIVE"}
Guests == {m \in Active : identity[members[m].user].kind = "GUEST"}
MembershipsOf(u) == {m \in DOMAIN members : members[m].user = u}
Pending(i) == invitations[i].state = "OPEN"
Current(i) == Pending(i) /\ invitations[i].fresh

\* A new row of users.
Fresh(u) == identity[u].kind = "NONE" /\ \A v \in Identities : v < u => identity[v].kind # "NONE"
Identified(u, kind, email) == identity' = [identity EXCEPT ![u] = [kind |-> kind, email |-> email]]

Joined(u, roles, name) == [user |-> u, status |-> "ACTIVE", roles |-> roles, name |-> name]
NoName == "none"

-----------------------------------------------------------------------------
(* Invitations.                                                            *)

\* Mutant of Competing: expired invitations that were renewed are overlooked.
CompetingLater(i, email) == \E j \in DOMAIN invitations : j > i /\ Current(j) /\ invitations[j].email = email

\* Another current invitation for the mailbox, by the query and the trigger.
Competing(i, email) == \E j \in DOMAIN invitations \ {i} : Current(j) /\ invitations[j].email = email

\* claim is the membership of a temporary guest, or 0.
CreateInvitation(email, roles, claim) ==
  /\ Len(invitations) < MaxInvitations
  /\ \A m \in Active : identity[members[m].user].email # email
  /\ ~Competing(0, email)
  /\ claim # 0 =>
       /\ claim \in Guests
       /\ \A i \in DOMAIN invitations : Current(i) => invitations[i].claim # claim
  /\ \E bound \in IF Accounts(email) = {} THEN {0} ELSE Accounts(email) :
       invitations' = Append(invitations,
         [email |-> email, roles |-> roles, claim |-> claim, bound |-> bound, token |-> 1,
          state |-> "OPEN", fresh |-> TRUE])
  /\ UNCHANGED <<identity, members, form, link, registrations>>

UpdateInvitation(i, roles) ==
  /\ Current(i)
  /\ invitations' = [invitations EXCEPT ![i].roles = roles]
  /\ UNCHANGED <<identity, members, form, link, registrations>>

\* Renews the expiry of an expired invitation as well.
ResendInvitationEmail(i) ==
  /\ Pending(i)
  /\ ~Competing(i, invitations[i].email)
  /\ invitations[i].token < MaxTokens
  /\ invitations' = [invitations EXCEPT ![i].token = @ + 1, ![i].fresh = TRUE]
  /\ UNCHANGED <<identity, members, form, link, registrations>>

RevokeInvitation(i) ==
  /\ Pending(i)
  /\ invitations' = [invitations EXCEPT ![i].state = "REVOKED"]
  /\ UNCHANGED <<identity, members, form, link, registrations>>

ExpireInvitation(i) ==
  /\ Current(i)
  /\ invitations' = [invitations EXCEPT ![i].fresh = FALSE]
  /\ UNCHANGED <<identity, members, form, link, registrations>>

\* The account an invitation is for: the bound one, else by its mailbox.
InvitationAccounts(i) ==
  IF invitations[i].bound # 0
    THEN {u \in {invitations[i].bound} : identity[u].kind = "ACCOUNT"}
    ELSE Accounts(invitations[i].email)
AccountState(i) == IF InvitationAccounts(i) = {} THEN "NEW" ELSE "EXISTING"

PreviewInvitation(i) ==
  /\ Current(i)
  /\ form' = [invitation |-> i, token |-> invitations[i].token, expected |-> AccountState(i)]
  /\ UNCHANGED <<identity, members, invitations, link, registrations>>

BindOpenInvitations(invs, email, u) ==
  [j \in DOMAIN invs |->
     IF invs[j].state = "OPEN" /\ invs[j].bound = 0 /\ invs[j].email = email
       THEN [invs[j] EXCEPT !.bound = u] ELSE invs[j]]

\* Bind first: the accepted invitation is still open then.
Accepted(i, u) ==
  [BindOpenInvitations(invitations, invitations[i].email, u) EXCEPT ![i].state = "ACCEPTED"]

\* A new row, or the archived one again: its assignments fell with the archive.
JoinInvitationMembership(u, roles) ==
  LET mine == {m \in MembershipsOf(u) : members[m].status # "DELETED"}
  IN  IF mine = {}
        THEN /\ Len(members) < MaxMembers
             /\ members' = Append(members, Joined(u, roles, NoName))
        ELSE \E m \in mine :
             /\ members[m].status = "ARCHIVED"
             /\ members' = [members EXCEPT ![m].status = "ACTIVE", ![m].roles = @ \cup roles]

\* The password of an existing account is verified; a new account gets one.
AcceptStandard(i) ==
  LET inv == invitations[i]
  IN  /\ inv.claim = 0
      /\ IF AccountState(i) = "EXISTING"
           THEN \E u \in InvitationAccounts(i) :
                  /\ JoinInvitationMembership(u, inv.roles)
                  /\ invitations' = Accepted(i, u)
                  /\ UNCHANGED identity
           ELSE /\ inv.bound = 0
                /\ \E u \in Identities :
                     /\ Fresh(u)
                     /\ Identified(u, "ACCOUNT", inv.email)
                     /\ JoinInvitationMembership(u, inv.roles)
                     /\ invitations' = Accepted(i, u)

\* The guest's membership is kept: its identity becomes the account, or the
\* membership moves to the account that exists and the identity goes.
AcceptClaim(i) ==
  LET inv == invitations[i]
      guest == members[inv.claim].user
  IN  /\ inv.claim \in Guests
      /\ IF AccountState(i) = "EXISTING"
           THEN \E u \in InvitationAccounts(i) :
                  /\ MembershipsOf(u) = {}
                  /\ members' = [members EXCEPT ![inv.claim] = Joined(u, inv.roles, NoName)]
                  /\ Identified(guest, "INACTIVE", NoMailbox)
                  /\ invitations' = Accepted(i, u)
           ELSE /\ inv.bound = 0
                /\ Identified(guest, "ACCOUNT", inv.email)
                /\ members' = [members EXCEPT ![inv.claim] = Joined(guest, inv.roles, NoName)]
                /\ invitations' = Accepted(i, guest)

AcceptInvitation ==
  LET i == form.invitation
  IN  /\ i # 0
      /\ Current(i)
      /\ invitations[i].token = form.token
      /\ AccountState(i) = form.expected
      /\ AcceptStandard(i) \/ AcceptClaim(i)
      /\ form' = NoForm
      /\ UNCHANGED <<link, registrations>>

-----------------------------------------------------------------------------
(* Temporary guests, archive and deletion.                                 *)

NameTaken(name, except) == \E m \in Active \ {except} : members[m].name = name

CreateTemporaryGuest(name) ==
  /\ Len(members) < MaxMembers
  /\ ~NameTaken(name, 0)
  /\ \E u \in Identities :
       /\ Fresh(u)
       /\ Identified(u, "GUEST", NoMailbox)
       /\ members' = Append(members, Joined(u, {}, name))
  /\ UNCHANGED <<invitations, form, link, registrations>>

RenameTemporaryGuest(m, name) ==
  /\ m \in Guests
  /\ ~NameTaken(name, m)
  /\ members' = [members EXCEPT ![m].name = name]
  /\ UNCHANGED <<identity, invitations, form, link, registrations>>

RevokeMemberClaimInvitations(m) ==
  [i \in DOMAIN invitations |->
     IF Pending(i) /\ invitations[i].claim = m THEN [invitations[i] EXCEPT !.state = "REVOKED"]
     ELSE invitations[i]]

\* Mutant of Archived: the assignments stay with the archived membership.
ArchivedWithRoles(member) == [member EXCEPT !.status = "ARCHIVED"]

\* A trigger removes the role assignments.
Archived(member) == [member EXCEPT !.status = "ARCHIVED", !.roles = {}]

ArchiveMember(m) ==
  /\ m \in Active
  /\ members' = [members EXCEPT ![m] = Archived(@)]
  /\ invitations' = RevokeMemberClaimInvitations(m)
  /\ UNCHANGED <<identity, form, link, registrations>>

ReactivateAccount(m, roles) ==
  /\ members[m].status = "ARCHIVED"
  /\ identity[members[m].user].kind = "ACCOUNT"
  /\ members' = [members EXCEPT ![m].status = "ACTIVE", ![m].roles = @ \cup roles]
  /\ UNCHANGED <<identity, invitations, form, link, registrations>>

ReactivateGuest(m, name) ==
  /\ members[m].status = "ARCHIVED"
  /\ identity[members[m].user].kind = "GUEST"
  /\ ~NameTaken(name, m)
  /\ members' = [members EXCEPT ![m].status = "ACTIVE", ![m].name = name]
  /\ UNCHANGED <<identity, invitations, form, link, registrations>>

\* With a balance of zero.  An account is detached from the row, which gets
\* an inactive identity without credentials instead; 0 stands for it.
PermanentlyDeleteMember(m) ==
  LET u == members[m].user
      guest == identity[u].kind = "GUEST"
  IN  /\ members[m].status = "ARCHIVED"
      /\ members' = [members EXCEPT ![m] =
           [user |-> IF guest THEN u ELSE 0, status |-> "DELETED", roles |-> {}, name |-> NoName]]
      /\ identity' = IF guest THEN [identity EXCEPT ![u].kind = "INACTIVE"] ELSE identity
      /\ invitations' = RevokeMemberClaimInvitations(m)
      /\ UNCHANGED <<form, link, registrations>>

\* AccountSecurity: an account moves to another mailbox.
MoveMailbox(u, email) ==
  /\ identity[u].kind = "ACCOUNT"
  /\ Accounts(email) = {}
  /\ Identified(u, "ACCOUNT", email)
  /\ UNCHANGED <<members, invitations, form, link, registrations>>

-----------------------------------------------------------------------------
(* The public join link.                                                   *)

Registered(r) == registrations[r].state = "OPEN"
LinkOpen == link.enabled /\ link.fresh

\* Mutant of InvalidatePublicJoinRegistrations: pending registrations stay.
KeepPublicJoinRegistrations == registrations

InvalidatePublicJoinRegistrations ==
  [r \in DOMAIN registrations |->
     IF Registered(r) THEN [registrations[r] EXCEPT !.state = "INVALID"] ELSE registrations[r]]

\* A change of the lifetime keeps the token; everything else issues or drops one.
PutPublicJoinLink(enabled) ==
  LET rotate == enabled /\ ~LinkOpen
  IN  /\ link.version < MaxLinkVersion
      /\ link' = [enabled |-> enabled, version |-> link.version + 1, fresh |-> enabled,
                  token |-> IF rotate THEN link.token + 1 ELSE link.token]
      /\ registrations' = IF ~enabled \/ rotate THEN InvalidatePublicJoinRegistrations ELSE registrations
      /\ UNCHANGED <<identity, members, invitations, form>>

RotatePublicJoinLink ==
  /\ LinkOpen
  /\ link.version < MaxLinkVersion
  /\ link' = [link EXCEPT !.version = @ + 1, !.token = @ + 1]
  /\ registrations' = InvalidatePublicJoinRegistrations
  /\ UNCHANGED <<identity, members, invitations, form>>

\* A registration expires with its link at the latest.
ExpireLink ==
  /\ LinkOpen
  /\ link' = [link EXCEPT !.fresh = FALSE]
  /\ registrations' = [r \in DOMAIN registrations |->
       IF registrations[r].version = link.version THEN [registrations[r] EXCEPT !.fresh = FALSE]
       ELSE registrations[r]]
  /\ UNCHANGED <<identity, members, invitations, form>>

\* The transaction repeats every check made before it.
StartPublicJoinRegistration(email) ==
  /\ LinkOpen
  /\ Accounts(email) = {}
  /\ Len(registrations) < MaxRegistrations
  /\ registrations' = Append(
       [r \in DOMAIN registrations |->
          IF Registered(r) /\ registrations[r].email = email
            THEN [registrations[r] EXCEPT !.state = "INVALID"] ELSE registrations[r]],
       [email |-> email, version |-> link.version, token |-> link.token, mailed |-> 1,
        state |-> "OPEN", fresh |-> TRUE])
  /\ UNCHANGED <<identity, members, invitations, form, link>>

Confirmable(r) == Registered(r) /\ registrations[r].fresh /\ registrations[r].version = link.version

\* A new verification token replaces the one mailed before.
ResendPublicJoinVerification(r) ==
  /\ LinkOpen
  /\ Confirmable(r)
  /\ registrations[r].mailed < MaxTokens
  /\ registrations' = [registrations EXCEPT ![r].mailed = @ + 1]
  /\ UNCHANGED <<identity, members, invitations, form, link>>

ConfirmPublicJoinRegistration(r) ==
  LET email == registrations[r].email
  IN  /\ Confirmable(r)
      /\ LinkOpen
      /\ Accounts(email) = {}
      /\ Len(members) < MaxMembers
      /\ \E u \in Identities :
           /\ Fresh(u)
           /\ Identified(u, "ACCOUNT", email)
           /\ members' = Append(members, Joined(u, DefaultRoles, NoName))
      /\ registrations' = [registrations EXCEPT ![r].state = "CONSUMED"]
      /\ UNCHANGED <<invitations, form, link>>

\* By a signed-in account; an active member is left as it is.
AcceptPublicJoinLink(u) ==
  LET mine == {m \in MembershipsOf(u) : members[m].status # "DELETED"}
  IN  /\ LinkOpen
      /\ identity[u].kind = "ACCOUNT"
      /\ IF mine = {}
           THEN /\ Len(members) < MaxMembers
                /\ members' = Append(members, Joined(u, DefaultRoles, NoName))
           ELSE \E m \in mine :
                /\ members[m].status = "ARCHIVED"
                /\ members' = [members EXCEPT ![m].status = "ACTIVE", ![m].roles = DefaultRoles]
      /\ UNCHANGED <<identity, invitations, form, link, registrations>>

JoinNext ==
  \/ \E e \in Mailboxes, r \in RoleSets, c \in 0 .. Len(members) : CreateInvitation(e, r, c)
  \/ \E i \in DOMAIN invitations :
       \/ \E r \in RoleSets : UpdateInvitation(i, r)
       \/ ResendInvitationEmail(i) \/ RevokeInvitation(i) \/ ExpireInvitation(i) \/ PreviewInvitation(i)
  \/ AcceptInvitation
  \/ \E n \in GuestNames : CreateTemporaryGuest(n)
  \/ \E m \in DOMAIN members :
       \/ \E n \in GuestNames : RenameTemporaryGuest(m, n) \/ ReactivateGuest(m, n)
       \/ \E r \in RoleSets : ReactivateAccount(m, r)
       \/ ArchiveMember(m) \/ PermanentlyDeleteMember(m)
  \/ \E u \in Identities : AcceptPublicJoinLink(u) \/ \E e \in Mailboxes : MoveMailbox(u, e)
  \/ \E enabled \in BOOLEAN : PutPublicJoinLink(enabled)
  \/ RotatePublicJoinLink \/ ExpireLink
  \/ \E e \in Mailboxes : StartPublicJoinRegistration(e)
  \/ \E r \in DOMAIN registrations : ResendPublicJoinVerification(r) \/ ConfirmPublicJoinRegistration(r)

JoinSpec == JoinInit /\ [][JoinNext]_joinVars
-----------------------------------------------------------------------------
\* Accepting an invitation makes exactly one active member, with the roles the
\* invitation has and no other, whatever the person was before; a claim keeps
\* the guest's membership, and with it the money (AcceptInvitation).
AcceptanceGivesInvitedRoles ==
  [][\A i \in DOMAIN invitations : Pending(i) /\ invitations'[i].state = "ACCEPTED" =>
       \E m \in DOMAIN members' :
         /\ members'[m].status = "ACTIVE" /\ members'[m].roles = invitations[i].roles
         /\ invitations[i].claim \in {0, m}
         /\ invitations[i].bound \in {0, members'[m].user}
         /\ \A n \in DOMAIN members \ {m} : members'[n] = members[n]]_joinVars

\* Whatever is renewed, renamed, archived or rotated: a mailbox has one current
\* invitation and one account; a person has one membership; members with an
\* account have roles and guests, archived and deleted ones none; guests have
\* distinct names; and a registration that can be confirmed belongs to the
\* link as it is published now.
MembershipsConsistent ==
  /\ \A i, j \in DOMAIN invitations :
       Current(i) /\ Current(j) /\ invitations[i].email = invitations[j].email => i = j
  /\ \A e \in Mailboxes : Cardinality(Accounts(e)) <= 1
  /\ \A u \in Identities : Cardinality({m \in MembershipsOf(u) : members[m].status # "DELETED"}) <= 1
  /\ \A m \in DOMAIN members :
       (members[m].roles # {}) <=> (m \in Active \ Guests)
  /\ \A m, n \in Guests : members[m].name = members[n].name => m = n
  /\ \A r \in DOMAIN registrations : Confirmable(r) => link.enabled /\ registrations[r].token = link.token
=============================================================================
