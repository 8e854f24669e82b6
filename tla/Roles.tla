-------------------------------- MODULE Roles --------------------------------
(***************************************************************************)
(* Roles of a group, their permission grants, who holds them, and the      *)
(* system administrators.  Every command checks permissions in the         *)
(* transaction that writes; what its author saw is an earlier step, and    *)
(* the version read then is compared in the transaction.                   *)
(***************************************************************************)
EXTENDS Integers, FiniteSets

CONSTANTS
  Persons, Creator,      \* accounts, and the one that created the group
  GuestPersons,          \* identities without credentials
  CustomRoles,           \* identifiers CreateRole may issue, each once
  GrantSets,             \* the grants a command may ask for
  RoleChoices,           \* the role sets a command may ask for
  MaxCommands            \* bound

ASSUME RolesAssumption ==
  /\ Creator \in Persons /\ GuestPersons \cap Persons = {}
  /\ \A choice \in RoleChoices : IsFiniteSet(choice)
  /\ MaxCommands \in Nat

VARIABLES
  roles,            \* rows of roles with their grants, by identifier
  holder,           \* memberships: status, assigned roles, assignment version
  invitation,       \* one invitation: state, freshness, roles, assignment version
  defaultRole,      \* group_settings.default_role_id
  administrators,   \* system_role_assignments
  edit,             \* what an administrator has on the screen
  by,               \* whose command the last step was
  commands

roleVars == <<roles, holder, invitation, defaultRole, administrators, edit, by, commands>>

Administrator == "GROUP_ADMINISTRATOR"
Template == "MEMBER"
LegacySelfPayment == "LEGACY_SELF_PAYMENT"
GA == "GROUP_ADMINISTRATION"
MM == "MEMBER_MANAGEMENT"
RM == "ROLE_MANAGEMENT"
Core == {GA, MM, RM}
Nobody == "nobody"
NoEdit == [kind |-> "NONE", id |-> Nobody, version |-> 0, seen |-> {}]

\* The permissions that bring others with them.
ImpliedPermissions ==
  [p \in {MM, "FINANCE_MANAGEMENT", "MANAGE_EXTERNAL_ACCOUNTS"} |->
     CASE p = MM -> {"VIEW_MEMBER_DIRECTORY"}
       [] p = "FINANCE_MANAGEMENT" -> {"MANAGE_EXTERNAL_ACCOUNTS"}
       [] p = "MANAGE_EXTERNAL_ACCOUNTS" -> {"VIEW_EXTERNAL_ACCOUNTS"}]

\* Chains of implication have two links at most.
ExpandPermissions(permissions) ==
  LET Step(s) == s \cup UNION {ImpliedPermissions[p] : p \in s \cap DOMAIN ImpliedPermissions}
  IN  Step(Step(permissions))

Existing == DOMAIN roles
Grants(set) == UNION {roles[r].grants : r \in set \cap Existing}

EffectiveGrants(m) == IF holder[m].status = "ACTIVE" THEN ExpandPermissions(Grants(holder[m].roles)) ELSE {}
Can(m, permission) == permission \in EffectiveGrants(m)

\* Group trigger and the Go seed agree; only the grants that matter here.
SeedGroupRoles ==
  /\ roles = [r \in {Administrator, Template} |->
       [grants |-> IF r = Administrator THEN Core ELSE {}, version |-> 1]]
  /\ holder = [m \in Persons \cup GuestPersons |->
       [status |-> IF m = Creator \/ m \in GuestPersons THEN "ACTIVE" ELSE "NONE",
        roles |-> IF m = Creator THEN {Administrator} ELSE {}, version |-> 1]]

RolesInit ==
  /\ SeedGroupRoles
  /\ invitation = [state |-> "NONE", fresh |-> FALSE, roles |-> {}, version |-> 1]
  /\ defaultRole = Template
  /\ administrators = {Creator}
  /\ edit = NoEdit
  /\ by = Nobody
  /\ commands = 0

Command(a) ==
  /\ commands < MaxCommands
  /\ commands' = commands + 1
  /\ by' = a

-----------------------------------------------------------------------------
(* What is on the screen, until it is submitted with success.              *)

ListRoles(r) ==
  /\ commands < MaxCommands
  /\ r \in Existing
  /\ edit' = [kind |-> "ROLE", id |-> r, version |-> roles[r].version, seen |-> roles[r].grants]
  /\ UNCHANGED <<roles, holder, invitation, defaultRole, administrators, by, commands>>

ListMemberAssignments(m) ==
  /\ commands < MaxCommands
  /\ holder[m].status = "ACTIVE"
  /\ edit' = [kind |-> "MEMBER", id |-> m, version |-> holder[m].version, seen |-> holder[m].roles]
  /\ UNCHANGED <<roles, holder, invitation, defaultRole, administrators, by, commands>>

ListInvitationAssignments ==
  /\ commands < MaxCommands
  /\ invitation.state = "OPEN" /\ invitation.fresh
  /\ edit' = [kind |-> "INVITATION", id |-> Nobody, version |-> invitation.version, seen |-> invitation.roles]
  /\ UNCHANGED <<roles, holder, invitation, defaultRole, administrators, by, commands>>

-----------------------------------------------------------------------------
(* Roles.                                                                  *)

InsertRole(r, grants) ==
  [x \in Existing \cup {r} |-> IF x = r THEN [grants |-> grants, version |-> 1] ELSE roles[x]]

CreateRole(a, r, grants) ==
  /\ Can(a, RM)
  /\ GA \in grants => Can(a, GA)
  /\ r \notin Existing
  /\ roles' = InsertRole(r, grants)
  /\ Command(a)
  /\ UNCHANGED <<holder, invitation, defaultRole, administrators, edit>>

\* The default role is what public joins and claims get without further checks.
UpdateRole(a, grants) ==
  LET r == edit.id
  IN  /\ edit.kind = "ROLE" /\ r \in Existing
      /\ Can(a, RM)
      /\ roles[r].version = edit.version
      /\ (r = Administrator \/ (GA \in roles[r].grants) # (GA \in grants)) => Can(a, GA)
      /\ r = Administrator => Core \subseteq grants
      /\ r = defaultRole => grants \cap {GA, MM} = {}
      /\ roles' = [roles EXCEPT ![r] = [grants |-> grants, version |-> @.version + 1]]
      /\ Command(a)
      /\ edit' = NoEdit
      /\ UNCHANGED <<holder, invitation, defaultRole, administrators>>

\* Active members and current invitations keep a role alive; what an expired
\* invitation has of it is deleted with it.
DeleteRole(a) ==
  LET r == edit.id
  IN  /\ edit.kind = "ROLE" /\ r \in Existing
      /\ Can(a, RM)
      /\ roles[r].version = edit.version
      /\ r # Administrator
      /\ GA \in roles[r].grants => Can(a, GA)
      /\ \A m \in DOMAIN holder : holder[m].status = "ACTIVE" => r \notin holder[m].roles
      /\ ~(invitation.state = "OPEN" /\ invitation.fresh /\ r \in invitation.roles)
      /\ r # defaultRole
      /\ roles' = [x \in Existing \ {r} |-> roles[x]]
      /\ invitation' = IF r \in invitation.roles
           THEN [invitation EXCEPT !.roles = @ \ {r}, !.version = @ + 1] ELSE invitation
      /\ Command(a)
      /\ edit' = NoEdit
      /\ UNCHANGED <<holder, defaultRole, administrators>>

\* One of the group settings, behind ROLE_MANAGEMENT or GROUP_ADMINISTRATION.
ValidateDefaultRole(r) == r \in Existing /\ roles[r].grants \cap {GA, MM} = {}

UpdateDefaultRole(a, r) ==
  /\ Can(a, RM) \/ Can(a, GA)
  /\ ValidateDefaultRole(r)
  /\ r # defaultRole
  /\ defaultRole' = r
  /\ Command(a)
  /\ UNCHANGED <<roles, holder, invitation, administrators, edit>>

-----------------------------------------------------------------------------
(* Assignments.                                                            *)

AssignmentTouchesAdministration(previous, next) ==
  \E r \in (previous \ next) \cup (next \ previous) : r \in Existing /\ GA \in roles[r].grants

\* Mutant of RequireAssignmentChangePermissions: managing members is enough.
RequireMemberManagement(a, previous, next) == Can(a, MM)

RequireAssignmentChangePermissions(a, previous, next) ==
  /\ Can(a, MM)
  /\ ((Administrator \in previous) # (Administrator \in next)
        \/ AssignmentTouchesAdministration(previous, next)) => Can(a, GA)

ReservedAdministrators == {m \in DOMAIN holder : holder[m].status = "ACTIVE" /\ Administrator \in holder[m].roles}

ValidateAssignedRoles(existing, next) == next # {} /\ next \subseteq existing

\* Mutant of Reassigned: the version is left to the caller.
ReassignedQuietly(row, next) == [row EXCEPT !.roles = next]

\* The version grows with every row inserted or deleted.
Reassigned(row, next) ==
  [row EXCEPT !.roles = next,
              !.version = @ + Cardinality(row.roles \ next) + Cardinality(next \ row.roles)]

\* The checks common to the assignment commands for members.
MemberChangeAllowed(a, m, next) ==
  /\ holder[m].status = "ACTIVE"
  /\ m \notin GuestPersons
  /\ edit.kind = "MEMBER" /\ edit.id = m /\ holder[m].version = edit.version
  /\ RequireAssignmentChangePermissions(a, holder[m].roles, next)
  /\ Administrator \in holder[m].roles /\ Administrator \notin next => Cardinality(ReservedAdministrators) > 1

ReplaceMemberRoles(a, m, next) ==
  /\ MemberChangeAllowed(a, m, next)
  /\ ValidateAssignedRoles(Existing, next)
  /\ holder' = [holder EXCEPT ![m] = Reassigned(@, next)]
  /\ Command(a)
  /\ edit' = NoEdit
  /\ UNCHANGED <<roles, invitation, defaultRole, administrators>>

\* Labels of the deprecated interface; roles it does not know are kept.
LegacyAssignmentRoleIDs(current, labels) == labels \cup (current \ {Administrator, LegacySelfPayment})

EnsureLegacySelfPaymentRole(labels) ==
  IF LegacySelfPayment \in labels /\ LegacySelfPayment \notin Existing
    THEN InsertRole(LegacySelfPayment, {}) ELSE roles

\* For temporary guests it is a trigger that refuses the assignment.
UpdatePermissions(a, m, labels) ==
  LET next == LegacyAssignmentRoleIDs(holder[m].roles, labels)
  IN  /\ MemberChangeAllowed(a, m, next)
      /\ roles' = EnsureLegacySelfPaymentRole(labels)
      /\ ValidateAssignedRoles(DOMAIN roles', next)
      /\ holder' = [holder EXCEPT ![m] = Reassigned(@, next)]
      /\ Command(a)
      /\ edit' = NoEdit
      /\ UNCHANGED <<invitation, defaultRole, administrators>>

ReplaceInvitationRoles(a, next) ==
  /\ invitation.state = "OPEN" /\ invitation.fresh
  /\ edit.kind = "INVITATION" /\ invitation.version = edit.version
  /\ RequireAssignmentChangePermissions(a, invitation.roles, next)
  /\ ValidateAssignedRoles(Existing, next)
  /\ invitation' = Reassigned(invitation, next)
  /\ Command(a)
  /\ edit' = NoEdit
  /\ UNCHANGED <<roles, holder, defaultRole, administrators>>

CreateInvitationWithRoles(a, next) ==
  /\ invitation.state # "OPEN"
  /\ RequireAssignmentChangePermissions(a, {}, next)
  /\ ValidateAssignedRoles(Existing, next)
  /\ invitation' = Reassigned([invitation EXCEPT !.state = "OPEN", !.fresh = TRUE], next)
  /\ Command(a)
  /\ UNCHANGED <<roles, holder, defaultRole, administrators, edit>>

\* Joining describes the invitation's own life; here it is renewed or runs out.
RenewInvitation(a) ==
  /\ Can(a, MM)
  /\ invitation.state = "OPEN" /\ ~invitation.fresh
  /\ invitation' = [invitation EXCEPT !.fresh = TRUE]
  /\ Command(a)
  /\ UNCHANGED <<roles, holder, defaultRole, administrators, edit>>

InvitationExpires ==
  /\ invitation.state = "OPEN" /\ invitation.fresh
  /\ invitation' = [invitation EXCEPT !.fresh = FALSE]
  /\ by' = Nobody
  /\ UNCHANGED <<roles, holder, defaultRole, administrators, edit, commands>>

\* Also the way back for an archived account.
AcceptWithRoles(m) ==
  /\ invitation.state = "OPEN" /\ invitation.fresh /\ invitation.roles # {}
  /\ m \notin GuestPersons /\ holder[m].status # "ACTIVE"
  /\ holder' = [holder EXCEPT ![m] = Reassigned([@ EXCEPT !.status = "ACTIVE"], invitation.roles)]
  /\ invitation' = Reassigned([invitation EXCEPT !.state = "ACCEPTED"], {})
  /\ by' = Nobody
  /\ UNCHANGED <<roles, defaultRole, administrators, edit, commands>>

AcceptPublicJoinLinkWithDefaultRole(m) ==
  /\ m \notin GuestPersons /\ holder[m].status # "ACTIVE"
  /\ holder' = [holder EXCEPT ![m] = Reassigned([@ EXCEPT !.status = "ACTIVE"], {defaultRole})]
  /\ by' = Nobody
  /\ UNCHANGED <<roles, invitation, defaultRole, administrators, edit, commands>>

ArchiveMemberOf(a, m) ==
  /\ Can(a, MM)
  /\ holder[m].status = "ACTIVE"
  /\ GA \in Grants(holder[m].roles) => Can(a, GA)
  /\ m \in ReservedAdministrators => Cardinality(ReservedAdministrators) > 1
  /\ holder' = [holder EXCEPT ![m] = Reassigned([@ EXCEPT !.status = "ARCHIVED"], {})]
  /\ Command(a)
  /\ UNCHANGED <<roles, invitation, defaultRole, administrators, edit>>

\* The default role alone is open to every MEMBER_MANAGEMENT.
ReactivateMemberWithRoles(a, m, next) ==
  /\ Can(a, MM)
  /\ holder[m].status = "ARCHIVED"
  /\ IF m \in GuestPersons THEN next = {} ELSE ValidateAssignedRoles(Existing, next)
  /\ next \in {{}, {defaultRole}} \/ RequireAssignmentChangePermissions(a, {}, next)
  /\ holder' = [holder EXCEPT ![m] = Reassigned([@ EXCEPT !.status = "ACTIVE"], next)]
  /\ Command(a)
  /\ UNCHANGED <<roles, invitation, defaultRole, administrators, edit>>

-----------------------------------------------------------------------------
(* System administrators.                                                  *)

GrantAdministrator(u) ==
  /\ u \in Persons \ administrators
  /\ administrators' = administrators \cup {u}
  /\ Command(Nobody)
  /\ UNCHANGED <<roles, holder, invitation, defaultRole, edit>>

RevokeAdministrator(u) ==
  /\ u \in administrators
  /\ Cardinality(administrators) > 1
  /\ administrators' = administrators \ {u}
  /\ Command(Nobody)
  /\ UNCHANGED <<roles, holder, invitation, defaultRole, edit>>

RolesNext ==
  \/ \E r \in Existing : ListRoles(r)
  \/ \E m \in DOMAIN holder : ListMemberAssignments(m)
  \/ ListInvitationAssignments
  \/ \E a \in Persons :
       \/ \E r \in CustomRoles, g \in GrantSets : CreateRole(a, r, g)
       \/ \E g \in GrantSets \cup {Core} : UpdateRole(a, g)
       \/ DeleteRole(a)
       \/ \E r \in Existing : UpdateDefaultRole(a, r)
       \/ \E m \in DOMAIN holder :
            \/ \E next \in RoleChoices : ReplaceMemberRoles(a, m, next)
            \/ \E next \in RoleChoices \cup {{}} : ReactivateMemberWithRoles(a, m, next)
            \/ \E labels \in {{}, {Administrator}, {LegacySelfPayment}} : UpdatePermissions(a, m, labels)
            \/ ArchiveMemberOf(a, m)
       \/ \E next \in RoleChoices : ReplaceInvitationRoles(a, next) \/ CreateInvitationWithRoles(a, next)
       \/ RenewInvitation(a)
  \/ InvitationExpires
  \/ \E m \in Persons : AcceptWithRoles(m) \/ AcceptPublicJoinLinkWithDefaultRole(m)
  \/ \E u \in Persons : GrantAdministrator(u) \/ RevokeAdministrator(u)

RolesSpec == RolesInit /\ [][RolesNext]_roleVars
-----------------------------------------------------------------------------
AdministrationHolders == {m \in DOMAIN holder : Can(m, GA)}

\* Who may administer the group changes only at the hand of somebody who may:
\* by no edit of a role, replacement, deprecated update, archive, reactivation
\* or setting can others gain GROUP_ADMINISTRATION, take it away, or give it to
\* an invitation (groups/roles.go); and whoever joins by the link gets none.
AdministrationByAdministrators ==
  [][/\ AdministrationHolders' # AdministrationHolders =>
          by' \in AdministrationHolders \/ invitation'.state # invitation.state
     /\ GA \in Grants(invitation.roles)' /\ GA \notin Grants(invitation.roles) => by' \in AdministrationHolders
    ]_roleVars

\* Whatever was archived, revoked, edited or deleted: an active member holds
\* the reserved role with its core grants, and a system administrator remains;
\* credentialed members hold roles, others none, and all they hold exists; and
\* a version still current means that the screen shows what is stored.
AdministratorsRemain ==
  /\ ReservedAdministrators # {} /\ Core \subseteq roles[Administrator].grants
  /\ administrators # {}
  /\ \A m \in DOMAIN holder :
       /\ holder[m].roles \subseteq Existing
       /\ (holder[m].roles # {}) <=> (holder[m].status = "ACTIVE" /\ m \notin GuestPersons)
  /\ edit.kind = "MEMBER" /\ holder[edit.id].version = edit.version => holder[edit.id].roles = edit.seen
  /\ edit.kind = "INVITATION" /\ invitation.version = edit.version => invitation.roles = edit.seen
=============================================================================
