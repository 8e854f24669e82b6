------------------------ MODULE AdministrationProofs ------------------------
(***************************************************************************)
(* Proofs about who administers and with what: the roles of a group        *)
(* (Roles), the credentials of accounts (AccountSecurity), the settings of *)
(* the installation (SystemSettings), groups and their files               *)
(* (GroupLifecycle), who comes into a group and leaves it (Joining), what  *)
(* is sold there (Catalog), and what a restore leaves of it all (Backup).  *)
(***************************************************************************)
EXTENDS Roles, AccountSecurity, SystemSettings, GroupLifecycle, Joining, Catalog, Backup, Counting, SequenceTheorems

(***************************************************************************)
(* Roles.  Beside what AdministratorsRemain says, the invariant needs that *)
(* the default role and the roles of the invitation exist, the default     *)
(* role without administration, and that versions only grow: a version     *)
(* that was on a screen is never used again for other roles.               *)
(***************************************************************************)
Holders  == Persons \cup GuestPersons
RoleKeys == {Administrator, Template, LegacySelfPayment} \cup CustomRoles

HolderRow     == [status : {"NONE", "ACTIVE", "ARCHIVED"}, roles : SUBSET RoleKeys, version : Nat]
InvitationRow == [state : {"NONE", "OPEN", "ACCEPTED"}, fresh : BOOLEAN, roles : SUBSET RoleKeys, version : Nat]

RoleTypes ==
  /\ Existing \subseteq RoleKeys
  /\ holder \in [Holders -> HolderRow]
  /\ invitation \in InvitationRow
  /\ edit.kind = "MEMBER" => edit.id \in Holders
  /\ edit.kind \in {"MEMBER", "INVITATION"} => edit.version \in Nat

\* What a membership holds.
GoodHolder(m) ==
  /\ IsFiniteSet(holder[m].roles)
  /\ holder[m].roles \subseteq Existing
  /\ (holder[m].roles # {}) <=> (holder[m].status = "ACTIVE" /\ m \notin GuestPersons)

GoodInvitation == IsFiniteSet(invitation.roles) /\ invitation.roles \subseteq Existing

Reserved ==
  /\ ReservedAdministrators # {}
  /\ Administrator \in Existing /\ Core \subseteq roles[Administrator].grants

GoodDefault == defaultRole \in Existing /\ roles[defaultRole].grants \cap {GA, MM} = {}

\* An older version, or the roles on the screen.
Shown(row) == edit.version <= row.version /\ (edit.version = row.version => row.roles = edit.seen)

GoodScreen ==
  /\ edit.kind = "MEMBER" => Shown(holder[edit.id])
  /\ edit.kind = "INVITATION" => Shown(invitation)

RolesInv ==
  /\ RoleTypes
  /\ \A m \in Holders : GoodHolder(m)
  /\ GoodInvitation
  /\ Reserved
  /\ GoodDefault
  /\ GoodScreen
  /\ administrators # {}

-----------------------------------------------------------------------------
\* Versions grow by the number of rows inserted and deleted.
LEMMA Bump ==
  ASSUME NEW R, NEW N, IsFiniteSet(R), IsFiniteSet(N)
  PROVE  /\ Cardinality(R \ N) + Cardinality(N \ R) \in Nat
         /\ Cardinality(R \ N) + Cardinality(N \ R) = 0 => R = N
<1>1. IsFiniteSet(R \ N) /\ IsFiniteSet(N \ R)
  BY FS_Difference
<1>2. Cardinality(R \ N) \in Nat /\ Cardinality(N \ R) \in Nat
  BY <1>1, FS_CardinalityType
<1>3. Cardinality(R \ N) = 0 => R \ N = {}
  BY <1>1, FS_EmptySet
<1>4. Cardinality(N \ R) = 0 => N \ R = {}
  BY <1>1, FS_EmptySet
<1>5. ASSUME Cardinality(R \ N) + Cardinality(N \ R) = 0 PROVE R = N
  <2>1. Cardinality(R \ N) = 0 /\ Cardinality(N \ R) = 0
    BY <1>2, <1>5
  <2>2. R \ N = {} /\ N \ R = {}
    BY <1>3, <1>4, <2>1
  <2> QED BY <2>2
<1> QED BY <1>2, <1>5

\* The row an assignment leaves behind.
LEMMA ReassignedRow ==
  ASSUME NEW row, IsFiniteSet(row.roles), NEW next \in SUBSET RoleKeys, IsFiniteSet(next),
         row \in HolderRow \/ row \in InvitationRow
  PROVE  /\ row \in HolderRow =>
              Reassigned(row, next) \in HolderRow /\ Reassigned(row, next).status = row.status
         /\ row \in InvitationRow =>
              /\ Reassigned(row, next) \in InvitationRow
              /\ Reassigned(row, next).state = row.state /\ Reassigned(row, next).fresh = row.fresh
         /\ Reassigned(row, next).roles = next
         /\ Reassigned(row, next).version >= row.version
         /\ Reassigned(row, next).version = row.version => next = row.roles
<1> DEFINE step    == Cardinality(row.roles \ next) + Cardinality(next \ row.roles)
           version == row.version + step
<1>1. step \in Nat /\ (step = 0 => row.roles = next)
  BY Bump
<1>2. row.version \in Nat
  BY DEF HolderRow, InvitationRow
<1>3. Reassigned(row, next) = [row EXCEPT !.roles = next, !.version = version]
  <2>1. version = row.version + Cardinality(row.roles \ next) + Cardinality(next \ row.roles)
    <3>1. Cardinality(row.roles \ next) \in Nat /\ Cardinality(next \ row.roles) \in Nat
      BY FS_Difference, FS_CardinalityType
    <3> QED BY <1>2, <3>1
  <2> QED BY <2>1 DEF Reassigned
<1> HIDE DEF step
<1>4. version \in Nat /\ version >= row.version /\ (version = row.version => next = row.roles)
  BY <1>1, <1>2
<1> HIDE DEF version
<1>5. CASE row \in HolderRow
  BY <1>3, <1>4, <1>5 DEF HolderRow, InvitationRow
<1>6. CASE row \in InvitationRow
  BY <1>3, <1>4, <1>6 DEF HolderRow, InvitationRow
<1> QED BY <1>5, <1>6

\* Of two administrators one is left.
LEMMA AnotherOne ==
  ASSUME NEW S, NEW m, Cardinality(S) > 1
  PROVE  \E k \in S : k # m
<1> SUFFICES ASSUME \A k \in S : k = m PROVE FALSE
  OBVIOUS
<1>1. Cardinality({}) = 0 /\ Cardinality({m}) = 1
  BY FS_EmptySet, FS_Singleton
<1>2. S = {} \/ S = {m}
  OBVIOUS
<1> QED BY <1>1, <1>2

\* No implication leads to GROUP_ADMINISTRATION.
LEMMA NoWayToAdministration ==
  ASSUME NEW S
  PROVE  GA \in ExpandPermissions(S) <=> GA \in S
<1> DEFINE Step(s) == s \cup UNION {ImpliedPermissions[p] : p \in s \cap DOMAIN ImpliedPermissions}
<1>1. ASSUME NEW p \in DOMAIN ImpliedPermissions PROVE GA \notin ImpliedPermissions[p]
  <2>1. DOMAIN ImpliedPermissions = {MM, "FINANCE_MANAGEMENT", "MANAGE_EXTERNAL_ACCOUNTS"}
    BY DEF ImpliedPermissions
  <2>2. /\ ImpliedPermissions[MM] = {"VIEW_MEMBER_DIRECTORY"}
        /\ ImpliedPermissions["FINANCE_MANAGEMENT"] = {"MANAGE_EXTERNAL_ACCOUNTS"}
        /\ ImpliedPermissions["MANAGE_EXTERNAL_ACCOUNTS"] = {"VIEW_EXTERNAL_ACCOUNTS"}
    BY DEF ImpliedPermissions, MM
  <2> QED BY <1>1, <2>1, <2>2 DEF GA
<1>2. \A s : GA \in Step(s) <=> GA \in s
  BY <1>1
<1>3. ExpandPermissions(S) = Step(Step(S))
  BY DEF ExpandPermissions
<1> HIDE DEF Step
<1> QED BY <1>2, <1>3

\* Who may administer the group.
LEMMA CanAdminister ==
  ASSUME NEW m \in DOMAIN holder
  PROVE  Can(m, GA) <=> /\ holder[m].status = "ACTIVE"
                        /\ \E r \in holder[m].roles : r \in Existing /\ GA \in roles[r].grants
<1>1. GA \in Grants(holder[m].roles) <=> \E r \in holder[m].roles : r \in Existing /\ GA \in roles[r].grants
  BY DEF Grants
<1> QED BY <1>1, NoWayToAdministration DEF Can, EffectiveGrants

-----------------------------------------------------------------------------
(***************************************************************************)
(* The invariant of the roles, step by step.                               *)
(***************************************************************************)

\* A screen that is closed shows nothing.
LEMMA ClosedScreen ==
  ASSUME edit' = NoEdit
  PROVE  /\ GoodScreen'
         /\ (edit.kind = "MEMBER" => edit.id \in Holders)'
         /\ (edit.kind \in {"MEMBER", "INVITATION"} => edit.version \in Nat)'
BY DEF NoEdit, GoodScreen

\* Memberships that no step touches.
LEMMA HoldersStay ==
  ASSUME RolesInv, UNCHANGED holder, Existing \subseteq Existing'
  PROVE  /\ holder' \in [Holders -> HolderRow]
         /\ \A m \in Holders : GoodHolder(m)'
         /\ ReservedAdministrators' # {}
<1>1. \A m \in Holders : GoodHolder(m)
  BY DEF RolesInv
<1>2. \A m \in Holders : GoodHolder(m)'
  BY <1>1 DEF GoodHolder
<1>3. ReservedAdministrators' = ReservedAdministrators
  BY DEF ReservedAdministrators
<1> QED BY <1>2, <1>3 DEF RolesInv, RoleTypes, Reserved

LEMMA ScreensKeepInv ==
  ASSUME RolesInv,
         \/ \E r \in Existing : ListRoles(r)
         \/ \E m \in DOMAIN holder : ListMemberAssignments(m)
         \/ ListInvitationAssignments
  PROVE  RolesInv'
<1>1. UNCHANGED <<roles, holder, invitation, defaultRole, administrators>>
  BY DEF ListRoles, ListMemberAssignments, ListInvitationAssignments
<1>2. /\ holder' \in [Holders -> HolderRow]
      /\ \A m \in Holders : GoodHolder(m)'
      /\ ReservedAdministrators' # {}
  BY <1>1, HoldersStay DEF Existing
<1>3. GoodInvitation' /\ Reserved' /\ GoodDefault' /\ administrators' # {}
  BY <1>1, <1>2 DEF RolesInv, GoodInvitation, Reserved, GoodDefault, Existing
<1>4. DOMAIN holder = Holders /\ \A m \in Holders : holder[m].version \in Nat
  BY DEF RolesInv, RoleTypes, HolderRow
<1>5. invitation.version \in Nat
  BY DEF RolesInv, RoleTypes, InvitationRow
<1>6. /\ GoodScreen'
      /\ (edit.kind = "MEMBER" => edit.id \in Holders)'
      /\ (edit.kind \in {"MEMBER", "INVITATION"} => edit.version \in Nat)'
  <2>1. CASE \E r \in Existing : ListRoles(r)
    BY <2>1 DEF ListRoles, GoodScreen
  <2>2. ASSUME NEW m \in DOMAIN holder, ListMemberAssignments(m)
        PROVE  /\ GoodScreen'
               /\ (edit.kind = "MEMBER" => edit.id \in Holders)'
               /\ (edit.kind \in {"MEMBER", "INVITATION"} => edit.version \in Nat)'
    <3>1. edit'.kind = "MEMBER" /\ edit'.id = m /\ edit'.version = holder[m].version
          /\ edit'.seen = holder[m].roles
      BY <2>2 DEF ListMemberAssignments
    <3> QED BY <1>1, <1>4, <3>1 DEF GoodScreen, Shown
  <2>3. CASE ListInvitationAssignments
    BY <1>1, <1>5, <2>3 DEF ListInvitationAssignments, GoodScreen, Shown
  <2> QED BY <2>1, <2>2, <2>3
<1>7. RoleTypes'
  BY <1>1, <1>2, <1>6 DEF RolesInv, RoleTypes, Existing
<1> QED BY <1>2, <1>3, <1>6, <1>7 DEF RolesInv

LEMMA RoleCommandsKeepInv ==
  ASSUME RolesInv, NEW a \in Persons,
         \/ \E r \in CustomRoles, g \in GrantSets : CreateRole(a, r, g)
         \/ \E g \in GrantSets \cup {Core} : UpdateRole(a, g)
         \/ DeleteRole(a)
         \/ \E r \in Existing : UpdateDefaultRole(a, r)
  PROVE  RolesInv'
<1>1. ASSUME NEW r \in CustomRoles, NEW g \in GrantSets, CreateRole(a, r, g) PROVE RolesInv'
  <2>1. /\ roles' = InsertRole(r, g) /\ r \notin Existing
        /\ UNCHANGED <<holder, invitation, defaultRole, administrators, edit>>
    BY <1>1 DEF CreateRole
  <2>2. Existing' = Existing \cup {r} /\ \A x \in Existing : roles'[x] = roles[x]
    BY <2>1 DEF Existing, InsertRole
  <2>3. /\ holder' \in [Holders -> HolderRow]
        /\ \A m \in Holders : GoodHolder(m)'
        /\ ReservedAdministrators' # {}
    BY <2>1, <2>2, HoldersStay
  <2>4. Existing' \subseteq RoleKeys
    BY <2>2 DEF RolesInv, RoleTypes, RoleKeys
  <2>5. RoleTypes' /\ GoodScreen'
    BY <2>1, <2>3, <2>4 DEF RolesInv, RoleTypes, GoodScreen, Shown
  <2>6. GoodInvitation' /\ Reserved' /\ GoodDefault' /\ administrators' # {}
    BY <2>1, <2>2, <2>3 DEF RolesInv, GoodInvitation, Reserved, GoodDefault
  <2> QED BY <2>3, <2>5, <2>6 DEF RolesInv
<1>2. ASSUME NEW g, UpdateRole(a, g) PROVE RolesInv'
  <2> DEFINE r == edit.id
  <2>1. /\ roles' = [roles EXCEPT ![r] = [grants |-> g, version |-> @.version + 1]] /\ r \in Existing
        /\ r = Administrator => Core \subseteq g
        /\ r = defaultRole => g \cap {GA, MM} = {}
        /\ edit' = NoEdit
        /\ UNCHANGED <<holder, invitation, defaultRole, administrators>>
    BY <1>2 DEF UpdateRole
  <2>2. /\ Existing' = Existing
        /\ \A x \in Existing : roles'[x].grants = IF x = r THEN g ELSE roles[x].grants
    BY <2>1 DEF Existing
  <2>3. /\ holder' \in [Holders -> HolderRow]
        /\ \A m \in Holders : GoodHolder(m)'
        /\ ReservedAdministrators' # {}
    BY <2>1, <2>2, HoldersStay
  <2>4. RoleTypes' /\ GoodScreen'
    BY <2>1, <2>2, <2>3, ClosedScreen DEF RolesInv, RoleTypes
  <2>5. GoodInvitation' /\ administrators' # {}
    BY <2>1, <2>2 DEF RolesInv, GoodInvitation
  <2>6. Reserved' /\ GoodDefault'
    BY <2>1, <2>2, <2>3 DEF RolesInv, Reserved, GoodDefault
  <2> QED BY <2>3, <2>4, <2>5, <2>6 DEF RolesInv
<1>3. CASE DeleteRole(a)
  <2> DEFINE r == edit.id
  <2>1. /\ roles' = [x \in Existing \ {r} |-> roles[x]] /\ r # Administrator /\ r # defaultRole
        /\ \A m \in DOMAIN holder : holder[m].status = "ACTIVE" => r \notin holder[m].roles
        /\ invitation' = IF r \in invitation.roles
             THEN [invitation EXCEPT !.roles = @ \ {r}, !.version = @ + 1] ELSE invitation
        /\ edit' = NoEdit
        /\ UNCHANGED <<holder, defaultRole, administrators>>
    BY <1>3 DEF DeleteRole
  <2>2. Existing' = Existing \ {r} /\ \A x \in Existing' : roles'[x] = roles[x]
    BY <2>1 DEF Existing
  <2>3. holder' \in [Holders -> HolderRow] /\ DOMAIN holder = Holders
    BY <2>1 DEF RolesInv, RoleTypes
  <2>4. \A m \in Holders : GoodHolder(m)'
    <3> SUFFICES ASSUME NEW m \in Holders PROVE GoodHolder(m)'
      OBVIOUS
    <3>1. GoodHolder(m)
      BY DEF RolesInv
    <3>2. r \notin holder[m].roles
      BY <2>1, <2>3, <3>1 DEF GoodHolder
    <3> QED BY <2>1, <2>2, <3>1, <3>2 DEF GoodHolder
  <2>5. ReservedAdministrators' # {}
    BY <2>1 DEF RolesInv, Reserved, ReservedAdministrators
  <2>6. invitation' \in InvitationRow /\ GoodInvitation'
    <3>1. CASE r \in invitation.roles
      <4>1. invitation'.roles = invitation.roles \ {r} /\ invitation' \in InvitationRow
        <5> DEFINE left    == invitation.roles \ {r}
                   version == invitation.version + 1
        <5>1. invitation \in InvitationRow
          BY DEF RolesInv, RoleTypes
        <5>2. left \in SUBSET RoleKeys /\ version \in Nat
          BY <5>1 DEF InvitationRow
        <5>3. invitation' = [invitation EXCEPT !.roles = left, !.version = version]
          BY <2>1, <3>1
        <5> HIDE DEF left, version
        <5>4. invitation' \in InvitationRow /\ invitation'.roles = left
          BY <5>1, <5>2, <5>3 DEF InvitationRow
        <5> QED BY <5>4 DEF left
      <4>2. IsFiniteSet(invitation.roles \ {r})
        BY FS_Difference DEF RolesInv, GoodInvitation
      <4> QED BY <2>2, <4>1, <4>2 DEF RolesInv, GoodInvitation
    <3>2. CASE r \notin invitation.roles
      BY <2>1, <2>2, <3>2 DEF RolesInv, RoleTypes, GoodInvitation
    <3> QED BY <3>1, <3>2
  <2>7. RoleTypes' /\ GoodScreen'
    BY <2>1, <2>2, <2>3, <2>6, ClosedScreen DEF RolesInv, RoleTypes
  <2>8. Reserved' /\ GoodDefault' /\ administrators' # {}
    BY <2>1, <2>2, <2>5 DEF RolesInv, Reserved, GoodDefault
  <2> QED BY <2>4, <2>6, <2>7, <2>8 DEF RolesInv
<1>4. ASSUME NEW r \in Existing, UpdateDefaultRole(a, r) PROVE RolesInv'
  <2>1. /\ defaultRole' = r /\ roles[r].grants \cap {GA, MM} = {}
        /\ UNCHANGED <<roles, holder, invitation, administrators, edit>>
    BY <1>4 DEF UpdateDefaultRole, ValidateDefaultRole
  <2>2. Existing' = Existing /\ ReservedAdministrators' = ReservedAdministrators
    BY <2>1 DEF Existing, ReservedAdministrators
  <2>3. \A m \in Holders : GoodHolder(m)'
    BY <2>1, <2>2 DEF RolesInv, GoodHolder
  <2>4. RoleTypes' /\ GoodScreen'
    BY <2>1, <2>2 DEF RolesInv, RoleTypes, GoodScreen, Shown
  <2>5. GoodInvitation' /\ Reserved' /\ GoodDefault' /\ administrators' # {}
    BY <2>1, <2>2 DEF RolesInv, GoodInvitation, Reserved, GoodDefault
  <2> QED BY <2>3, <2>4, <2>5 DEF RolesInv
<1> QED BY <1>1, <1>2, <1>3, <1>4

LEMMA InvitationStepsKeepInv ==
  ASSUME RolesInv,
         \/ \E a \in Persons, next \in RoleChoices :
              ReplaceInvitationRoles(a, next) \/ CreateInvitationWithRoles(a, next)
         \/ \E a \in Persons : RenewInvitation(a)
         \/ InvitationExpires
  PROVE  RolesInv'
<1>1. UNCHANGED <<roles, holder, defaultRole, administrators>>
  BY DEF ReplaceInvitationRoles, CreateInvitationWithRoles, RenewInvitation, InvitationExpires
<1>2. Existing' = Existing /\ \A r \in Existing : roles'[r] = roles[r]
  BY <1>1 DEF Existing
<1>3. /\ holder' \in [Holders -> HolderRow]
      /\ \A m \in Holders : GoodHolder(m)'
      /\ ReservedAdministrators' # {}
  BY <1>1, <1>2, HoldersStay
<1>4. Reserved' /\ GoodDefault' /\ administrators' # {}
  BY <1>1, <1>2, <1>3 DEF RolesInv, Reserved, GoodDefault
<1>5. invitation \in InvitationRow /\ IsFiniteSet(invitation.roles)
  BY DEF RolesInv, RoleTypes, GoodInvitation
<1>6. /\ invitation' \in InvitationRow /\ GoodInvitation'
      /\ invitation'.version >= invitation.version
      /\ invitation'.version = invitation.version => invitation'.roles = invitation.roles
      /\ edit' = edit \/ edit' = NoEdit
  <2>1. ASSUME NEW row \in InvitationRow, row.roles = invitation.roles, row.version = invitation.version,
               NEW next \in RoleChoices, next \subseteq Existing, invitation' = Reassigned(row, next)
        PROVE  /\ invitation' \in InvitationRow /\ GoodInvitation'
               /\ invitation'.version >= invitation.version
               /\ invitation'.version = invitation.version => invitation'.roles = invitation.roles
    <3>1. IsFiniteSet(next)
      BY RolesAssumption
    <3>2. next \in SUBSET RoleKeys
      BY <2>1 DEF RolesInv, RoleTypes
    <3>3. /\ invitation' \in InvitationRow /\ invitation'.roles = next
          /\ invitation'.version >= row.version /\ (invitation'.version = row.version => next = row.roles)
      BY <1>5, <2>1, <3>1, <3>2, ReassignedRow
    <3> QED BY <1>2, <2>1, <3>1, <3>3 DEF GoodInvitation
  <2>2. ASSUME NEW a, NEW next \in RoleChoices, ReplaceInvitationRoles(a, next)
        PROVE  /\ invitation' \in InvitationRow /\ GoodInvitation'
               /\ invitation'.version >= invitation.version
               /\ invitation'.version = invitation.version => invitation'.roles = invitation.roles
               /\ edit' = NoEdit
    BY <1>5, <2>1, <2>2 DEF ReplaceInvitationRoles, ValidateAssignedRoles
  <2>3. ASSUME NEW a, NEW next \in RoleChoices, CreateInvitationWithRoles(a, next)
        PROVE  /\ invitation' \in InvitationRow /\ GoodInvitation'
               /\ invitation'.version >= invitation.version
               /\ invitation'.version = invitation.version => invitation'.roles = invitation.roles
               /\ edit' = edit
    <3> DEFINE row == [invitation EXCEPT !.state = "OPEN", !.fresh = TRUE]
    <3>1. row \in InvitationRow /\ row.roles = invitation.roles /\ row.version = invitation.version
      BY <1>5 DEF InvitationRow
    <3>2. next \subseteq Existing /\ invitation' = Reassigned(row, next) /\ edit' = edit
      BY <2>3 DEF CreateInvitationWithRoles, ValidateAssignedRoles
    <3> HIDE DEF row
    <3> QED BY <2>1, <3>1, <3>2
  <2>4. ASSUME NEW fresh \in BOOLEAN, invitation' = [invitation EXCEPT !.fresh = fresh]
        PROVE  /\ invitation' \in InvitationRow /\ GoodInvitation'
               /\ invitation'.version >= invitation.version
               /\ invitation'.version = invitation.version => invitation'.roles = invitation.roles
    <3>1. invitation' \in InvitationRow /\ invitation'.roles = invitation.roles
          /\ invitation'.version = invitation.version /\ invitation.version \in Nat
      BY <1>5, <2>4 DEF InvitationRow
    <3> QED BY <1>2, <3>1 DEF RolesInv, GoodInvitation
  <2>5. CASE (\E a \in Persons : RenewInvitation(a)) \/ InvitationExpires
    BY <2>4, <2>5 DEF RenewInvitation, InvitationExpires
  <2> QED BY <2>2, <2>3, <2>5
<1>7. RoleTypes' /\ GoodScreen'
  <2>1. CASE edit' = NoEdit
    BY <1>2, <1>3, <1>6, <2>1, ClosedScreen DEF RolesInv, RoleTypes
  <2>2. CASE edit' = edit
    <3>1. RoleTypes'
      BY <1>2, <1>3, <1>6, <2>2 DEF RolesInv, RoleTypes
    <3>2. edit.kind = "INVITATION" =>
            edit.version \in Nat /\ invitation.version \in Nat /\ invitation'.version \in Nat
      BY <1>5, <1>6 DEF RolesInv, RoleTypes, InvitationRow
    <3>3. edit.kind = "INVITATION" => Shown(invitation)'
      BY <1>6, <2>2, <3>2 DEF RolesInv, GoodScreen, Shown
    <3> QED BY <1>1, <2>2, <3>1, <3>3 DEF RolesInv, GoodScreen, Shown
  <2> QED BY <1>6, <2>1, <2>2
<1> QED BY <1>3, <1>4, <1>6, <1>7 DEF RolesInv

\* One membership changes its status and its roles.
HolderMoves(m, status, next) ==
  holder' = [holder EXCEPT ![m] = Reassigned([@ EXCEPT !.status = status], next)]

LEMMA OneHolder ==
  ASSUME RolesInv, NEW m \in Holders, NEW status \in {"NONE", "ACTIVE", "ARCHIVED"},
         NEW next \in SUBSET RoleKeys, IsFiniteSet(next), HolderMoves(m, status, next)
  PROVE  /\ holder' \in [Holders -> HolderRow]
         /\ holder'[m].status = status /\ holder'[m].roles = next
         /\ holder'[m].version >= holder[m].version
         /\ holder'[m].version = holder[m].version => next = holder[m].roles
         /\ \A k \in Holders : k # m => holder'[k] = holder[k]
<1> DEFINE row == [holder[m] EXCEPT !.status = status]
<1>1. holder \in [Holders -> HolderRow] /\ IsFiniteSet(holder[m].roles)
  BY DEF RolesInv, RoleTypes, GoodHolder
<1>2. row \in HolderRow /\ row.roles = holder[m].roles /\ row.version = holder[m].version /\ row.status = status
  BY <1>1 DEF HolderRow
<1>3. holder' = [holder EXCEPT ![m] = Reassigned(row, next)]
  BY DEF HolderMoves
<1> HIDE DEF row
<1>4. /\ Reassigned(row, next) \in HolderRow /\ Reassigned(row, next).status = status
      /\ Reassigned(row, next).roles = next /\ Reassigned(row, next).version >= row.version
      /\ Reassigned(row, next).version = row.version => next = row.roles
  BY <1>1, <1>2, ReassignedRow
<1>5. holder' \in [Holders -> HolderRow] /\ holder'[m] = Reassigned(row, next)
      /\ \A k \in Holders : k # m => holder'[k] = holder[k]
  BY <1>1, <1>3, <1>4
<1> QED BY <1>2, <1>4, <1>5

\* What such a step preserves: another administrator is left, or this one
\* keeps the role; roles may be added meanwhile.
LEMMA HolderStepKeepsInv ==
  ASSUME RolesInv, NEW m \in Holders, NEW status \in {"ACTIVE", "ARCHIVED"},
         NEW next, IsFiniteSet(next), next \subseteq Existing',
         HolderMoves(m, status, next),
         (next # {}) <=> (status = "ACTIVE" /\ m \notin GuestPersons),
         \/ \E k \in ReservedAdministrators : k # m
         \/ m \in ReservedAdministrators => status = "ACTIVE" /\ Administrator \in next,
         Existing \subseteq Existing', Existing' \subseteq RoleKeys, \A r \in Existing : roles'[r] = roles[r],
         invitation' \in InvitationRow, IsFiniteSet(invitation'.roles), invitation'.roles \subseteq Existing,
         invitation'.version >= invitation.version,
         invitation'.version = invitation.version => invitation'.roles = invitation.roles,
         edit' = edit \/ edit' = NoEdit,
         UNCHANGED <<defaultRole, administrators>>
  PROVE  RolesInv'
<1>1. next \in SUBSET RoleKeys
  OBVIOUS
<1>2. /\ holder' \in [Holders -> HolderRow]
      /\ holder'[m].status = status /\ holder'[m].roles = next
      /\ holder'[m].version >= holder[m].version
      /\ holder'[m].version = holder[m].version => next = holder[m].roles
      /\ \A k \in Holders : k # m => holder'[k] = holder[k]
  BY <1>1, OneHolder
<1>3. DOMAIN holder = Holders /\ DOMAIN holder' = Holders
  BY <1>2 DEF RolesInv, RoleTypes
<1>4. \A k \in Holders : GoodHolder(k)'
  <2> SUFFICES ASSUME NEW k \in Holders PROVE GoodHolder(k)'
    OBVIOUS
  <2>1. CASE k = m
    BY <1>2, <2>1 DEF GoodHolder
  <2>2. CASE k # m
    <3>1. GoodHolder(k) /\ holder'[k] = holder[k]
      BY <1>2, <2>2 DEF RolesInv
    <3> QED BY <3>1 DEF GoodHolder
  <2> QED BY <2>1, <2>2
<1>5. ReservedAdministrators' # {}
  <2>1. CASE \E k \in ReservedAdministrators : k # m
    <3>1. PICK k \in ReservedAdministrators : k # m
      BY <2>1
    <3>2. k \in Holders /\ holder'[k] = holder[k] /\ holder[k].status = "ACTIVE" /\ Administrator \in holder[k].roles
      BY <1>2, <1>3, <3>1 DEF ReservedAdministrators
    <3>3. k \in ReservedAdministrators'
      BY <1>3, <3>2 DEF ReservedAdministrators
    <3> QED BY <3>3
  <2>2. CASE ~ \E k \in ReservedAdministrators : k # m
    <3>1. m \in ReservedAdministrators
      BY <2>2 DEF RolesInv, Reserved
    <3>2. m \in ReservedAdministrators'
      BY <1>2, <1>3, <2>2, <3>1 DEF ReservedAdministrators
    <3> QED BY <3>2
  <2> QED BY <2>1, <2>2
<1>6. Reserved' /\ GoodDefault' /\ GoodInvitation' /\ administrators' # {}
  BY <1>5 DEF RolesInv, Reserved, GoodDefault, GoodInvitation
<1>7. RoleTypes' /\ GoodScreen'
  <2>1. CASE edit' = NoEdit
    BY <1>2, <2>1, ClosedScreen DEF RoleTypes
  <2>2. CASE edit' = edit
    <3>1. RoleTypes'
      BY <1>2, <2>2 DEF RolesInv, RoleTypes
    <3>2. edit.kind = "INVITATION" =>
            edit.version \in Nat /\ invitation.version \in Nat /\ invitation'.version \in Nat
      BY DEF RolesInv, RoleTypes, InvitationRow
    <3>3. edit.kind = "INVITATION" => Shown(invitation)'
      BY <2>2, <3>2 DEF RolesInv, GoodScreen, Shown
    <3>4. ASSUME edit.kind = "MEMBER" PROVE Shown(holder[edit.id])'
      <4>1. edit.id \in Holders /\ edit.version \in Nat /\ Shown(holder[edit.id])
        BY <3>4 DEF RolesInv, RoleTypes, GoodScreen
      <4>2. CASE edit.id # m
        BY <1>2, <2>2, <4>1, <4>2 DEF Shown
      <4>3. CASE edit.id = m
        <5>1. holder[m].version \in Nat /\ holder'[m].version \in Nat
          BY <1>2 DEF RolesInv, RoleTypes, HolderRow
        <5> QED BY <1>2, <2>2, <4>1, <4>3, <5>1 DEF Shown
      <4> QED BY <4>2, <4>3
    <3> QED BY <2>2, <3>1, <3>3, <3>4 DEF GoodScreen
  <2> QED BY <2>1, <2>2
<1> QED BY <1>4, <1>6, <1>7 DEF RolesInv

\* Reassigning the roles of an active member keeps the status.
LEMMA ActiveMoves ==
  ASSUME RolesInv, NEW m \in Holders, NEW next, holder[m].status = "ACTIVE",
         holder' = [holder EXCEPT ![m] = Reassigned(@, next)]
  PROVE  HolderMoves(m, "ACTIVE", next)
<1>1. [holder[m] EXCEPT !.status = "ACTIVE"] = holder[m]
  BY DEF RolesInv, RoleTypes, HolderRow
<1> QED BY <1>1 DEF HolderMoves

LEMMA MembershipStepsKeepInv ==
  ASSUME RolesInv, NEW m \in Holders,
         \/ \E a \in Persons :
              \/ \E next \in RoleChoices : ReplaceMemberRoles(a, m, next)
              \/ \E next \in RoleChoices \cup {{}} : ReactivateMemberWithRoles(a, m, next)
              \/ \E labels \in {{}, {Administrator}, {LegacySelfPayment}} : UpdatePermissions(a, m, labels)
              \/ ArchiveMemberOf(a, m)
         \/ AcceptWithRoles(m)
         \/ AcceptPublicJoinLinkWithDefaultRole(m)
  PROVE  RolesInv'
<1>1. /\ DOMAIN holder = Holders /\ IsFiniteSet(holder[m].roles) /\ holder[m].roles \subseteq Existing
      /\ m \in ReservedAdministrators => holder[m].status = "ACTIVE" /\ Administrator \in holder[m].roles
      /\ holder[m].status = "ACTIVE" /\ Administrator \in holder[m].roles => m \in ReservedAdministrators
  BY DEF RolesInv, RoleTypes, GoodHolder, ReservedAdministrators
<1>2. Existing \subseteq RoleKeys /\ invitation \in InvitationRow /\ invitation.version \in Nat
      /\ IsFiniteSet(invitation.roles) /\ invitation.roles \subseteq Existing
      /\ defaultRole \in Existing
  BY DEF RolesInv, RoleTypes, InvitationRow, GoodInvitation, GoodDefault
<1>3. UNCHANGED roles => Existing' = Existing
  BY DEF Existing
<1>4. Cardinality(ReservedAdministrators) > 1 => \E k \in ReservedAdministrators : k # m
  BY AnotherOne
<1>5. \A next \in RoleChoices \cup {{}} : IsFiniteSet(next)
  BY RolesAssumption, FS_EmptySet
<1>6. ASSUME NEW a, NEW next \in RoleChoices, ReplaceMemberRoles(a, m, next) PROVE RolesInv'
  <2>1. /\ holder[m].status = "ACTIVE" /\ m \notin GuestPersons
        /\ Administrator \in holder[m].roles /\ Administrator \notin next => Cardinality(ReservedAdministrators) > 1
        /\ next # {} /\ next \subseteq Existing
        /\ holder' = [holder EXCEPT ![m] = Reassigned(@, next)]
        /\ edit' = NoEdit
        /\ UNCHANGED <<roles, invitation, defaultRole, administrators>>
    BY <1>6 DEF ReplaceMemberRoles, MemberChangeAllowed, ValidateAssignedRoles
  <2>2. HolderMoves(m, "ACTIVE", next)
    BY <2>1, ActiveMoves
  <2> QED BY <1>1, <1>2, <1>3, <1>4, <1>5, <2>1, <2>2, HolderStepKeepsInv
<1>7. ASSUME NEW a, NEW next \in RoleChoices \cup {{}}, ReactivateMemberWithRoles(a, m, next) PROVE RolesInv'
  <2>1. /\ holder[m].status = "ARCHIVED"
        /\ (next # {}) <=> m \notin GuestPersons
        /\ next \subseteq Existing
        /\ HolderMoves(m, "ACTIVE", next)
        /\ UNCHANGED <<roles, invitation, defaultRole, administrators, edit>>
    BY <1>7 DEF ReactivateMemberWithRoles, ValidateAssignedRoles, HolderMoves
  <2>2. m \notin ReservedAdministrators
    BY <1>1, <2>1
  <2> QED BY <1>1, <1>2, <1>3, <1>5, <2>1, <2>2, HolderStepKeepsInv
<1>8. ASSUME NEW a, NEW labels \in {{}, {Administrator}, {LegacySelfPayment}}, UpdatePermissions(a, m, labels)
      PROVE  RolesInv'
  <2> DEFINE next == LegacyAssignmentRoleIDs(holder[m].roles, labels)
  <2>1. /\ holder[m].status = "ACTIVE" /\ m \notin GuestPersons
        /\ Administrator \in holder[m].roles /\ Administrator \notin next => Cardinality(ReservedAdministrators) > 1
        /\ next # {} /\ next \subseteq Existing'
        /\ roles' = EnsureLegacySelfPaymentRole(labels)
        /\ holder' = [holder EXCEPT ![m] = Reassigned(@, next)]
        /\ edit' = NoEdit
        /\ UNCHANGED <<invitation, defaultRole, administrators>>
    BY <1>8 DEF UpdatePermissions, MemberChangeAllowed, ValidateAssignedRoles, Existing
  <2>2. IsFiniteSet(next)
    <3>1. IsFiniteSet(labels)
      <4>1. IsFiniteSet({}) /\ IsFiniteSet({Administrator}) /\ IsFiniteSet({LegacySelfPayment})
        BY FS_EmptySet, FS_Singleton
      <4> QED BY <4>1
    <3>2. IsFiniteSet(holder[m].roles \ {Administrator, LegacySelfPayment})
      BY <1>1, FS_Difference
    <3> QED BY <3>1, <3>2, FS_Union DEF LegacyAssignmentRoleIDs
  <2>3. Existing \subseteq Existing' /\ Existing' \subseteq RoleKeys /\ \A r \in Existing : roles'[r] = roles[r]
    BY <1>2, <2>1 DEF EnsureLegacySelfPaymentRole, InsertRole, Existing, RoleKeys
  <2> HIDE DEF next
  <2>4. HolderMoves(m, "ACTIVE", next)
    BY <2>1, ActiveMoves
  <2> QED BY <1>1, <1>2, <1>4, <2>1, <2>2, <2>3, <2>4, HolderStepKeepsInv
<1>9. ASSUME NEW a, ArchiveMemberOf(a, m) PROVE RolesInv'
  <2>1. /\ m \in ReservedAdministrators => Cardinality(ReservedAdministrators) > 1
        /\ HolderMoves(m, "ARCHIVED", {})
        /\ UNCHANGED <<roles, invitation, defaultRole, administrators, edit>>
    BY <1>9 DEF ArchiveMemberOf, HolderMoves
  <2>2. IsFiniteSet({})
    BY FS_EmptySet
  <2> QED BY <1>1, <1>2, <1>3, <1>4, <2>1, <2>2, HolderStepKeepsInv
<1>10. CASE AcceptWithRoles(m)
  <2> DEFINE row == [invitation EXCEPT !.state = "ACCEPTED"]
  <2>1. /\ m \notin GuestPersons /\ holder[m].status # "ACTIVE" /\ invitation.roles # {}
        /\ HolderMoves(m, "ACTIVE", invitation.roles)
        /\ invitation' = Reassigned(row, {})
        /\ UNCHANGED <<roles, defaultRole, administrators, edit>>
    BY <1>10 DEF AcceptWithRoles, HolderMoves
  <2>2. row \in InvitationRow /\ row.roles = invitation.roles /\ row.version = invitation.version
    BY <1>2 DEF InvitationRow
  <2> HIDE DEF row
  <2>3. IsFiniteSet({}) /\ {} \in SUBSET RoleKeys
    BY FS_EmptySet
  <2>4. /\ invitation' \in InvitationRow /\ invitation'.roles = {} /\ invitation'.version >= invitation.version
        /\ invitation'.version = invitation.version => invitation'.roles = invitation.roles
    BY <1>2, <2>1, <2>2, <2>3, ReassignedRow
  <2> QED BY <1>1, <1>2, <1>3, <2>1, <2>3, <2>4, HolderStepKeepsInv
<1>11. CASE AcceptPublicJoinLinkWithDefaultRole(m)
  <2>1. /\ m \notin GuestPersons /\ holder[m].status # "ACTIVE"
        /\ HolderMoves(m, "ACTIVE", {defaultRole})
        /\ UNCHANGED <<roles, invitation, defaultRole, administrators, edit>>
    BY <1>11 DEF AcceptPublicJoinLinkWithDefaultRole, HolderMoves
  <2>2. IsFiniteSet({defaultRole})
    BY FS_Singleton
  <2> QED BY <1>1, <1>2, <1>3, <2>1, <2>2, HolderStepKeepsInv
<1> QED BY <1>6, <1>7, <1>8, <1>9, <1>10, <1>11

LEMMA SystemStepsKeepInv ==
  ASSUME RolesInv, NEW u \in Persons, GrantAdministrator(u) \/ RevokeAdministrator(u)
  PROVE  RolesInv'
<1>1. UNCHANGED <<roles, holder, invitation, defaultRole, edit>>
  BY DEF GrantAdministrator, RevokeAdministrator
<1>2. Existing' = Existing /\ ReservedAdministrators' = ReservedAdministrators
  BY <1>1 DEF Existing, ReservedAdministrators
<1>3. administrators' # {}
  <2>1. CASE GrantAdministrator(u)
    BY <2>1 DEF GrantAdministrator
  <2>2. CASE RevokeAdministrator(u)
    <3>1. \E k \in administrators : k # u
      BY <2>2, AnotherOne DEF RevokeAdministrator
    <3> QED BY <2>2, <3>1 DEF RevokeAdministrator
  <2> QED BY <2>1, <2>2
<1>4. \A m \in Holders : GoodHolder(m)'
  BY <1>1, <1>2 DEF RolesInv, GoodHolder
<1>5. RoleTypes' /\ GoodScreen'
  BY <1>1, <1>2 DEF RolesInv, RoleTypes, GoodScreen, Shown
<1>6. GoodInvitation' /\ Reserved' /\ GoodDefault'
  BY <1>1, <1>2 DEF RolesInv, GoodInvitation, Reserved, GoodDefault
<1> QED BY <1>3, <1>4, <1>5, <1>6 DEF RolesInv

LEMMA RolesInvInit ==
  ASSUME RolesInit
  PROVE  RolesInv
<1>1. /\ Existing = {Administrator, Template} /\ roles[Administrator].grants = Core
      /\ roles[Template].grants = {}
  BY DEF RolesInit, SeedGroupRoles, Existing, Administrator, Template
<1>2. Creator \in Holders /\ Creator \notin GuestPersons
  BY RolesAssumption DEF Holders
<1>3. \A m \in Holders :
        /\ holder[m].status = IF m = Creator \/ m \in GuestPersons THEN "ACTIVE" ELSE "NONE"
        /\ holder[m].roles = IF m = Creator THEN {Administrator} ELSE {}
        /\ holder[m] \in HolderRow
  BY DEF RolesInit, SeedGroupRoles, Holders, HolderRow, RoleKeys
<1>4. holder \in [Holders -> HolderRow]
  <2>1. DOMAIN holder = Holders /\ holder = [m \in Holders |-> holder[m]]
    BY DEF RolesInit, SeedGroupRoles, Holders
  <2> QED BY <1>3, <2>1
<1>5. IsFiniteSet({}) /\ IsFiniteSet({Administrator})
  BY FS_EmptySet, FS_Singleton
<1>6. \A m \in Holders : GoodHolder(m)
  <2> SUFFICES ASSUME NEW m \in Holders PROVE GoodHolder(m)
    OBVIOUS
  <2>1. CASE m = Creator
    BY <1>1, <1>2, <1>3, <1>5, <2>1 DEF GoodHolder
  <2>2. CASE m # Creator
    BY <1>3, <1>5, <2>2 DEF GoodHolder
  <2> QED BY <2>1, <2>2
<1>7. Creator \in ReservedAdministrators
  BY <1>2, <1>3, <1>4 DEF ReservedAdministrators
<1>8. Reserved /\ GoodDefault
  BY <1>1, <1>7 DEF Reserved, GoodDefault, RolesInit
<1>9. invitation \in InvitationRow /\ invitation.roles = {}
  BY DEF RolesInit, InvitationRow
<1>10. GoodInvitation /\ GoodScreen /\ administrators # {}
  BY <1>5, <1>9 DEF GoodInvitation, GoodScreen, RolesInit, NoEdit
<1>11. RoleTypes
  BY <1>1, <1>4, <1>9 DEF RoleTypes, RoleKeys, RolesInit, NoEdit
<1> QED BY <1>6, <1>8, <1>10, <1>11 DEF RolesInv

LEMMA RolesInvNext ==
  ASSUME RolesInv, [RolesNext]_roleVars
  PROVE  RolesInv'
<1>1. DOMAIN holder = Holders /\ Persons \subseteq Holders
  BY DEF RolesInv, RoleTypes, Holders
<1>2. CASE \/ \E r \in Existing : ListRoles(r)
           \/ \E m \in DOMAIN holder : ListMemberAssignments(m)
           \/ ListInvitationAssignments
  BY <1>2, ScreensKeepInv
<1>3. ASSUME NEW a \in Persons,
             \/ \E r \in CustomRoles, g \in GrantSets : CreateRole(a, r, g)
             \/ \E g \in GrantSets \cup {Core} : UpdateRole(a, g)
             \/ DeleteRole(a)
             \/ \E r \in Existing : UpdateDefaultRole(a, r)
      PROVE  RolesInv'
  BY <1>3, RoleCommandsKeepInv
<1>4. ASSUME NEW a \in Persons, NEW m \in DOMAIN holder,
             \/ \E next \in RoleChoices : ReplaceMemberRoles(a, m, next)
             \/ \E next \in RoleChoices \cup {{}} : ReactivateMemberWithRoles(a, m, next)
             \/ \E labels \in {{}, {Administrator}, {LegacySelfPayment}} : UpdatePermissions(a, m, labels)
             \/ ArchiveMemberOf(a, m)
      PROVE  RolesInv'
  BY <1>1, <1>4, MembershipStepsKeepInv
<1>5. CASE \/ \E a \in Persons, next \in RoleChoices :
                ReplaceInvitationRoles(a, next) \/ CreateInvitationWithRoles(a, next)
           \/ \E a \in Persons : RenewInvitation(a)
           \/ InvitationExpires
  BY <1>5, InvitationStepsKeepInv
<1>6. ASSUME NEW m \in Persons, AcceptWithRoles(m) \/ AcceptPublicJoinLinkWithDefaultRole(m) PROVE RolesInv'
  BY <1>1, <1>6, MembershipStepsKeepInv
<1>7. ASSUME NEW u \in Persons, GrantAdministrator(u) \/ RevokeAdministrator(u) PROVE RolesInv'
  BY <1>7, SystemStepsKeepInv
<1>8. CASE UNCHANGED roleVars
  <2>1. UNCHANGED <<roles, holder, invitation, defaultRole, administrators, edit>>
    BY <1>8 DEF roleVars
  <2>2. Existing' = Existing /\ ReservedAdministrators' = ReservedAdministrators
    BY <2>1 DEF Existing, ReservedAdministrators
  <2>3. \A m \in Holders : GoodHolder(m)'
    BY <2>1, <2>2 DEF RolesInv, GoodHolder
  <2>4. RoleTypes' /\ GoodScreen'
    BY <2>1, <2>2 DEF RolesInv, RoleTypes, GoodScreen, Shown
  <2>5. GoodInvitation' /\ Reserved' /\ GoodDefault' /\ administrators' # {}
    BY <2>1, <2>2 DEF RolesInv, GoodInvitation, Reserved, GoodDefault
  <2> QED BY <2>3, <2>4, <2>5 DEF RolesInv
<1> QED BY <1>2, <1>3, <1>4, <1>5, <1>6, <1>7, <1>8 DEF RolesNext

\* The invariant above holds in every state of the roles.
THEOREM RolesFit == RolesSpec => []RolesInv
<1>1. RolesInit => RolesInv
  BY RolesInvInit
<1>2. RolesInv /\ [RolesNext]_roleVars => RolesInv'
  BY RolesInvNext
<1> QED BY <1>1, <1>2, PTL DEF RolesSpec

\* An administrator remains, of the group and of the system, whoever was
\* archived, reassigned or revoked, and a screen whose version is current
\* shows what is stored (groups/roles.go, system administrators), for any
\* number of persons, roles and commands.
THEOREM SomebodyAdministers == RolesSpec => []AdministratorsRemain
<1>1. RolesInv => AdministratorsRemain
  <2> SUFFICES ASSUME RolesInv PROVE AdministratorsRemain
    OBVIOUS
  <2>1. ReservedAdministrators # {} /\ Core \subseteq roles[Administrator].grants /\ administrators # {}
    BY DEF RolesInv, Reserved
  <2>2. \A m \in DOMAIN holder :
          /\ holder[m].roles \subseteq Existing
          /\ (holder[m].roles # {}) <=> (holder[m].status = "ACTIVE" /\ m \notin GuestPersons)
    BY DEF RolesInv, RoleTypes, GoodHolder
  <2>3. /\ edit.kind = "MEMBER" /\ holder[edit.id].version = edit.version => holder[edit.id].roles = edit.seen
        /\ edit.kind = "INVITATION" /\ invitation.version = edit.version => invitation.roles = edit.seen
    BY DEF RolesInv, GoodScreen, Shown
  <2> QED BY <2>1, <2>2, <2>3 DEF AdministratorsRemain
<1> QED BY <1>1, RolesFit, PTL

-----------------------------------------------------------------------------
(***************************************************************************)
(* Who may administer changes at the hand of those who may.                *)
(***************************************************************************)
Governed ==
  /\ AdministrationHolders' # AdministrationHolders =>
       by' \in AdministrationHolders \/ invitation'.state # invitation.state
  /\ GA \in Grants(invitation.roles)' /\ GA \notin Grants(invitation.roles) => by' \in AdministrationHolders

Administers(m) ==
  holder[m].status = "ACTIVE" /\ \E r \in holder[m].roles : r \in Existing /\ GA \in roles[r].grants
InvitesAdministrators == \E r \in invitation.roles : r \in Existing /\ GA \in roles[r].grants

LEMMA AdministratorsAre ==
  ASSUME RolesInv, RolesInv'
  PROVE  /\ AdministrationHolders = {m \in Holders : Administers(m)}
         /\ AdministrationHolders' = {m \in Holders : Administers(m)'}
         /\ GA \in Grants(invitation.roles) <=> InvitesAdministrators
         /\ GA \in Grants(invitation.roles)' <=> InvitesAdministrators'
<1>1. DOMAIN holder = Holders /\ DOMAIN holder' = Holders
  BY DEF RolesInv, RoleTypes
<1>2. \A m \in Holders : Can(m, GA) <=> Administers(m)
  BY <1>1, CanAdminister DEF Administers
<1>3. ASSUME NEW m \in Holders PROVE Can(m, GA)' <=> Administers(m)'
  <2>1. GA \in Grants(holder[m].roles)' <=>
          \E r \in holder'[m].roles : r \in Existing' /\ GA \in roles'[r].grants
    BY DEF Grants
  <2>2. GA \in ExpandPermissions(Grants(holder[m].roles)') <=> GA \in Grants(holder[m].roles)'
    BY NoWayToAdministration
  <2>3. Can(m, GA)' <=> holder'[m].status = "ACTIVE" /\ GA \in ExpandPermissions(Grants(holder[m].roles)')
    BY DEF Can, EffectiveGrants, ExpandPermissions
  <2> QED BY <2>1, <2>2, <2>3 DEF Administers
<1>4. AdministrationHolders = {m \in Holders : Administers(m)}
  BY <1>1, <1>2 DEF AdministrationHolders
<1>5. AdministrationHolders' = {m \in Holders : Administers(m)'}
  BY <1>1, <1>3 DEF AdministrationHolders
<1>6. (GA \in Grants(invitation.roles) <=> InvitesAdministrators)
      /\ (GA \in Grants(invitation.roles)' <=> InvitesAdministrators')
  BY DEF Grants, InvitesAdministrators
<1> QED BY <1>4, <1>5, <1>6

LEMMA AdministratorActs ==
  ASSUME RolesInv, NEW a \in Persons, Can(a, GA), by' = a
  PROVE  Governed
<1>1. a \in DOMAIN holder
  BY DEF RolesInv, RoleTypes, Holders
<1>2. a \in AdministrationHolders
  BY <1>1 DEF AdministrationHolders
<1> QED BY <1>2 DEF Governed

LEMMA NothingChanges ==
  ASSUME RolesInv, RolesInv', \A m \in Holders : Administers(m)' <=> Administers(m),
         InvitesAdministrators' => InvitesAdministrators
  PROVE  Governed
<1>1. AdministrationHolders' = AdministrationHolders
  BY AdministratorsAre
<1> QED BY <1>1, AdministratorsAre DEF Governed

\* Steps that leave the grants of existing roles and the invitation alone, and
\* change at most one membership.
LEMMA OneMemberGoverned ==
  ASSUME RolesInv, RolesInv', NEW m \in Holders,
         \A k \in Holders : k # m => holder'[k] = holder[k],
         Existing \subseteq Existing', \A r \in Existing : roles'[r].grants = roles[r].grants,
         Administers(m)' <=> Administers(m),
         invitation'.roles \subseteq invitation.roles
  PROVE  Governed
<1>1. ASSUME NEW k \in Holders, k # m PROVE Administers(k)' <=> Administers(k)
  <2>1. holder'[k] = holder[k] /\ holder[k].roles \subseteq Existing
    BY <1>1 DEF RolesInv, GoodHolder
  <2> QED BY <2>1 DEF Administers
<1>2. invitation.roles \subseteq Existing
  BY DEF RolesInv, GoodInvitation
<1>3. InvitesAdministrators' => InvitesAdministrators
  BY <1>2 DEF InvitesAdministrators
<1> QED BY <1>1, <1>3, NothingChanges

LEMMA RoleCommandsGoverned ==
  ASSUME RolesInv, RolesInv', NEW a \in Persons,
         \/ \E r \in CustomRoles, g \in GrantSets : CreateRole(a, r, g)
         \/ \E g \in GrantSets \cup {Core} : UpdateRole(a, g)
         \/ DeleteRole(a)
         \/ \E r \in Existing : UpdateDefaultRole(a, r)
  PROVE  Governed
<1>1. \A m \in Holders : GoodHolder(m)
  BY DEF RolesInv
<1>2. invitation.roles \subseteq Existing
  BY DEF RolesInv, GoodInvitation
<1>3. ASSUME NEW r, NEW g, CreateRole(a, r, g) PROVE Governed
  <2>1. r \notin Existing /\ roles' = InsertRole(r, g) /\ UNCHANGED <<holder, invitation>>
    BY <1>3 DEF CreateRole
  <2>2. Existing' = Existing \cup {r} /\ \A x \in Existing : roles'[x] = roles[x]
    BY <2>1 DEF InsertRole, Existing
  <2>3. \A m \in Holders : Administers(m)' <=> Administers(m)
    BY <1>1, <2>1, <2>2 DEF Administers, GoodHolder
  <2>4. InvitesAdministrators' => InvitesAdministrators
    BY <1>2, <2>1, <2>2 DEF InvitesAdministrators
  <2> QED BY <2>3, <2>4, NothingChanges
<1>4. ASSUME NEW g, UpdateRole(a, g) PROVE Governed
  <2> DEFINE r == edit.id
  <2>1. CASE Can(a, GA)
    BY <1>4, <2>1, AdministratorActs DEF UpdateRole, Command
  <2>2. CASE ~Can(a, GA)
    <3>1. /\ roles' = [roles EXCEPT ![r] = [grants |-> g, version |-> @.version + 1]]
          /\ r \in Existing /\ (GA \in roles[r].grants) = (GA \in g) /\ UNCHANGED <<holder, invitation>>
      BY <1>4, <2>2 DEF UpdateRole
    <3>2. Existing' = Existing /\ \A x \in Existing : (GA \in roles'[x].grants) = (GA \in roles[x].grants)
      BY <3>1 DEF Existing
    <3>3. \A m \in Holders : Administers(m)' <=> Administers(m)
      BY <3>1, <3>2 DEF Administers
    <3>4. InvitesAdministrators' => InvitesAdministrators
      BY <3>1, <3>2 DEF InvitesAdministrators
    <3> QED BY <3>3, <3>4, NothingChanges
  <2> QED BY <2>1, <2>2
<1>5. CASE DeleteRole(a)
  <2> DEFINE r == edit.id
  <2>1. /\ roles' = [x \in Existing \ {r} |-> roles[x]]
        /\ \A m \in DOMAIN holder : holder[m].status = "ACTIVE" => r \notin holder[m].roles
        /\ invitation' = IF r \in invitation.roles
             THEN [invitation EXCEPT !.roles = @ \ {r}, !.version = @ + 1] ELSE invitation
        /\ UNCHANGED holder
    BY <1>5 DEF DeleteRole
  <2>2. Existing' = Existing \ {r} /\ \A x \in Existing' : roles'[x] = roles[x]
    BY <2>1 DEF Existing
  <2>3. DOMAIN holder = Holders
    BY DEF RolesInv, RoleTypes
  <2>4. \A m \in Holders : Administers(m)' <=> Administers(m)
    BY <2>1, <2>2, <2>3 DEF Administers
  <2>5. invitation'.roles \subseteq invitation.roles
    BY <2>1 DEF RolesInv, RoleTypes, InvitationRow
  <2>6. InvitesAdministrators' => InvitesAdministrators
    BY <2>2, <2>5 DEF InvitesAdministrators
  <2> QED BY <2>4, <2>6, NothingChanges
<1>6. ASSUME NEW r \in Existing, UpdateDefaultRole(a, r) PROVE Governed
  <2>1. UNCHANGED <<roles, holder, invitation>> /\ Existing' = Existing
    BY <1>6 DEF UpdateDefaultRole, Existing
  <2>2. (\A m \in Holders : Administers(m)' <=> Administers(m)) /\ (InvitesAdministrators' => InvitesAdministrators)
    BY <2>1 DEF Administers, InvitesAdministrators
  <2> QED BY <2>2, NothingChanges
<1> QED BY <1>3, <1>4, <1>5, <1>6

\* A change of roles that needs no administrator touches no administration.
LEMMA UntouchedAdministration ==
  ASSUME NEW a, NEW former, NEW next, RequireAssignmentChangePermissions(a, former, next), ~Can(a, GA),
         former \subseteq Existing, Existing \subseteq Existing',
         \A r \in Existing : roles'[r].grants = roles[r].grants,
         \A r \in Existing' \ Existing : GA \notin roles'[r].grants
  PROVE  (\E r \in next : r \in Existing' /\ GA \in roles'[r].grants)
           <=> (\E r \in former : r \in Existing /\ GA \in roles[r].grants)
<1>1. \A r \in (former \ next) \cup (next \ former) : ~(r \in Existing /\ GA \in roles[r].grants)
  BY DEF RequireAssignmentChangePermissions, AssignmentTouchesAdministration
<1> QED BY <1>1

LEMMA MembershipStepsGoverned ==
  ASSUME RolesInv, RolesInv', NEW m \in Holders,
         \/ \E a \in Persons :
              \/ \E next \in RoleChoices : ReplaceMemberRoles(a, m, next)
              \/ \E next \in RoleChoices \cup {{}} : ReactivateMemberWithRoles(a, m, next)
              \/ \E labels \in {{}, {Administrator}, {LegacySelfPayment}} : UpdatePermissions(a, m, labels)
              \/ ArchiveMemberOf(a, m)
         \/ AcceptWithRoles(m)
         \/ AcceptPublicJoinLinkWithDefaultRole(m)
  PROVE  Governed
<1>1. /\ holder[m].roles \subseteq Existing /\ IsFiniteSet(holder[m].roles) /\ holder \in [Holders -> HolderRow]
      /\ Existing \subseteq RoleKeys
  BY DEF RolesInv, RoleTypes, GoodHolder
<1>2. UNCHANGED roles => Existing' = Existing
  BY DEF Existing
<1>3. ASSUME NEW status \in {"ACTIVE", "ARCHIVED"}, NEW next, next \subseteq RoleKeys, IsFiniteSet(next),
             HolderMoves(m, status, next), UNCHANGED invitation,
             Existing \subseteq Existing', \A r \in Existing : roles'[r] = roles[r],
             (status = "ACTIVE" /\ \E r \in next : r \in Existing' /\ GA \in roles'[r].grants) <=> Administers(m)
      PROVE  Governed
  <2>1. holder'[m].status = status /\ holder'[m].roles = next /\ \A k \in Holders : k # m => holder'[k] = holder[k]
    BY <1>3, OneHolder
  <2>2. Administers(m)' <=> Administers(m)
    BY <1>3, <2>1 DEF Administers
  <2> QED BY <1>3, <2>1, <2>2, OneMemberGoverned
<1>4. \A next \in RoleChoices \cup {{}} : IsFiniteSet(next)
  BY RolesAssumption, FS_EmptySet
<1>5. ASSUME NEW a \in Persons, NEW next \in RoleChoices, ReplaceMemberRoles(a, m, next) PROVE Governed
  <2>1. CASE Can(a, GA)
    BY <1>5, <2>1, AdministratorActs DEF ReplaceMemberRoles, Command
  <2>2. CASE ~Can(a, GA)
    <3>1. /\ holder[m].status = "ACTIVE" /\ RequireAssignmentChangePermissions(a, holder[m].roles, next)
          /\ next \subseteq Existing /\ holder' = [holder EXCEPT ![m] = Reassigned(@, next)]
          /\ UNCHANGED <<roles, invitation>>
      BY <1>5 DEF ReplaceMemberRoles, MemberChangeAllowed, ValidateAssignedRoles
    <3>2. HolderMoves(m, "ACTIVE", next)
      BY <3>1, ActiveMoves
    <3>3. (\E r \in next : r \in Existing' /\ GA \in roles'[r].grants) <=> Administers(m)
      BY <1>1, <1>2, <2>2, <3>1, UntouchedAdministration DEF Administers
    <3> QED BY <1>1, <1>2, <1>3, <1>4, <3>1, <3>2, <3>3
  <2> QED BY <2>1, <2>2
<1>6. ASSUME NEW a \in Persons, NEW next \in RoleChoices \cup {{}}, ReactivateMemberWithRoles(a, m, next)
      PROVE  Governed
  <2>1. CASE Can(a, GA)
    BY <1>6, <2>1, AdministratorActs DEF ReactivateMemberWithRoles, Command
  <2>2. CASE ~Can(a, GA)
    <3>1. /\ holder[m].status = "ARCHIVED" /\ next \subseteq Existing /\ HolderMoves(m, "ACTIVE", next)
          /\ next \in {{}, {defaultRole}} \/ RequireAssignmentChangePermissions(a, {}, next)
          /\ UNCHANGED <<roles, invitation>>
      BY <1>6 DEF ReactivateMemberWithRoles, ValidateAssignedRoles, HolderMoves
    <3>2. ~ \E r \in next : r \in Existing' /\ GA \in roles'[r].grants
      <4>1. CASE next \in {{}, {defaultRole}}
        BY <1>2, <3>1, <4>1 DEF RolesInv, GoodDefault
      <4>2. CASE RequireAssignmentChangePermissions(a, {}, next)
        BY <1>2, <2>2, <3>1, <4>2, UntouchedAdministration
      <4> QED BY <3>1, <4>1, <4>2
    <3>3. ~Administers(m)
      BY <3>1 DEF Administers
    <3> QED BY <1>1, <1>2, <1>3, <1>4, <3>1, <3>2, <3>3
  <2> QED BY <2>1, <2>2
<1>7. ASSUME NEW a \in Persons, NEW labels \in {{}, {Administrator}, {LegacySelfPayment}},
             UpdatePermissions(a, m, labels)
      PROVE  Governed
  <2> DEFINE next == LegacyAssignmentRoleIDs(holder[m].roles, labels)
  <2>1. CASE Can(a, GA)
    BY <1>7, <2>1, AdministratorActs DEF UpdatePermissions, Command
  <2>2. CASE ~Can(a, GA)
    <3>1. /\ holder[m].status = "ACTIVE" /\ RequireAssignmentChangePermissions(a, holder[m].roles, next)
          /\ next \subseteq Existing' /\ holder' = [holder EXCEPT ![m] = Reassigned(@, next)]
          /\ roles' = EnsureLegacySelfPaymentRole(labels)
          /\ UNCHANGED invitation
      BY <1>7 DEF UpdatePermissions, MemberChangeAllowed, ValidateAssignedRoles, Existing
    <3>2. IsFiniteSet(next)
      <4>1. IsFiniteSet({}) /\ IsFiniteSet({Administrator}) /\ IsFiniteSet({LegacySelfPayment})
        BY FS_EmptySet, FS_Singleton
      <4>2. IsFiniteSet(labels)
        BY <4>1
      <4>3. IsFiniteSet(holder[m].roles \ {Administrator, LegacySelfPayment})
        BY <1>1, FS_Difference
      <4> QED BY <4>2, <4>3, FS_Union DEF LegacyAssignmentRoleIDs
    <3>3. /\ Existing \subseteq Existing' /\ \A r \in Existing : roles'[r] = roles[r]
          /\ \A r \in Existing' \ Existing : GA \notin roles'[r].grants
      BY <3>1 DEF EnsureLegacySelfPaymentRole, InsertRole, Existing
    <3>4. next \subseteq RoleKeys
      BY <3>1 DEF RolesInv, RoleTypes
    <3> HIDE DEF next
    <3>5. HolderMoves(m, "ACTIVE", next)
      BY <3>1, ActiveMoves
    <3>6. (\E r \in next : r \in Existing' /\ GA \in roles'[r].grants) <=> Administers(m)
      BY <1>1, <2>2, <3>1, <3>3, UntouchedAdministration DEF Administers
    <3> QED BY <1>3, <3>1, <3>2, <3>3, <3>4, <3>5, <3>6
  <2> QED BY <2>1, <2>2
<1>8. ASSUME NEW a \in Persons, ArchiveMemberOf(a, m) PROVE Governed
  <2>1. CASE Can(a, GA)
    BY <1>8, <2>1, AdministratorActs DEF ArchiveMemberOf, Command
  <2>2. CASE ~Can(a, GA)
    <3>1. GA \notin Grants(holder[m].roles) /\ HolderMoves(m, "ARCHIVED", {}) /\ UNCHANGED <<roles, invitation>>
      BY <1>8, <2>2 DEF ArchiveMemberOf, HolderMoves
    <3>2. ~Administers(m)
      BY <3>1 DEF Administers, Grants
    <3> QED BY <1>2, <1>3, <1>4, <3>1, <3>2
  <2> QED BY <2>1, <2>2
<1>9. CASE AcceptWithRoles(m)
  <2> DEFINE row == [invitation EXCEPT !.state = "ACCEPTED"]
  <2>1. invitation.state = "OPEN" /\ invitation' = Reassigned(row, {})
    BY <1>9 DEF AcceptWithRoles
  <2>2. row \in InvitationRow /\ row.state = "ACCEPTED" /\ IsFiniteSet(row.roles)
    BY DEF RolesInv, RoleTypes, InvitationRow, GoodInvitation
  <2>3. IsFiniteSet({}) /\ {} \in SUBSET RoleKeys
    BY FS_EmptySet
  <2> HIDE DEF row
  <2>4. invitation'.state = "ACCEPTED" /\ invitation'.roles = {}
    BY <2>1, <2>2, <2>3, ReassignedRow
  <2>5. GA \notin Grants(invitation.roles)'
    BY <2>4 DEF Grants
  <2> QED BY <2>1, <2>4, <2>5 DEF Governed
<1>10. CASE AcceptPublicJoinLinkWithDefaultRole(m)
  <2>1. /\ holder[m].status # "ACTIVE" /\ HolderMoves(m, "ACTIVE", {defaultRole})
        /\ UNCHANGED <<roles, invitation>>
    BY <1>10 DEF AcceptPublicJoinLinkWithDefaultRole, HolderMoves
  <2>2. IsFiniteSet({defaultRole}) /\ defaultRole \in RoleKeys /\ GA \notin roles[defaultRole].grants
    BY <1>1, FS_Singleton DEF RolesInv, GoodDefault
  <2>3. ~Administers(m)
    BY <2>1 DEF Administers
  <2> QED BY <1>2, <1>3, <2>1, <2>2, <2>3
<1> QED BY <1>5, <1>6, <1>7, <1>8, <1>9, <1>10

LEMMA InvitationStepsGoverned ==
  ASSUME RolesInv, RolesInv',
         \/ \E a \in Persons, next \in RoleChoices :
              ReplaceInvitationRoles(a, next) \/ CreateInvitationWithRoles(a, next)
         \/ \E a \in Persons : RenewInvitation(a)
         \/ InvitationExpires
  PROVE  Governed
<1>1. UNCHANGED <<roles, holder>> /\ Existing' = Existing
  BY DEF ReplaceInvitationRoles, CreateInvitationWithRoles, RenewInvitation, InvitationExpires, Existing
<1>2. \A m \in Holders : Administers(m)' <=> Administers(m)
  BY <1>1 DEF Administers
<1>3. invitation \in InvitationRow /\ IsFiniteSet(invitation.roles) /\ invitation.roles \subseteq Existing
      /\ Existing \subseteq RoleKeys
  BY DEF RolesInv, RoleTypes, GoodInvitation
<1>4. ASSUME NEW a \in Persons, NEW next \in RoleChoices,
             ReplaceInvitationRoles(a, next) \/ CreateInvitationWithRoles(a, next)
      PROVE  Governed
  <2>1. CASE Can(a, GA)
    BY <1>4, <2>1, AdministratorActs DEF ReplaceInvitationRoles, CreateInvitationWithRoles, Command
  <2>2. CASE ~Can(a, GA)
    <3>1. PICK row \in InvitationRow : row.roles = invitation.roles /\ invitation' = Reassigned(row, next)
      <4>1. CASE ReplaceInvitationRoles(a, next)
        BY <1>3, <4>1 DEF ReplaceInvitationRoles
      <4>2. CASE CreateInvitationWithRoles(a, next)
        <5> DEFINE opened == [invitation EXCEPT !.state = "OPEN", !.fresh = TRUE]
        <5>1. opened \in InvitationRow /\ opened.roles = invitation.roles
          BY <1>3 DEF InvitationRow
        <5>2. invitation' = Reassigned(opened, next)
          BY <4>2 DEF CreateInvitationWithRoles
        <5> QED BY <5>1, <5>2
      <4> QED BY <1>4, <4>1, <4>2
    <3>2. next \subseteq Existing /\ IsFiniteSet(next)
      BY <1>4, RolesAssumption DEF ReplaceInvitationRoles, CreateInvitationWithRoles, ValidateAssignedRoles
    <3>3. invitation'.roles = next
      BY <1>3, <3>1, <3>2, ReassignedRow
    <3>4. \/ RequireAssignmentChangePermissions(a, invitation.roles, next)
          \/ RequireAssignmentChangePermissions(a, {}, next)
      BY <1>4 DEF ReplaceInvitationRoles, CreateInvitationWithRoles
    <3>5. InvitesAdministrators' => InvitesAdministrators
      <4>1. CASE RequireAssignmentChangePermissions(a, invitation.roles, next)
        BY <1>1, <1>3, <2>2, <3>3, <4>1, UntouchedAdministration DEF InvitesAdministrators
      <4>2. CASE RequireAssignmentChangePermissions(a, {}, next)
        <5>1. ~ \E r \in next : r \in Existing' /\ GA \in roles'[r].grants
          BY <1>1, <2>2, <4>2, UntouchedAdministration
        <5> QED BY <3>3, <5>1 DEF InvitesAdministrators
      <4> QED BY <3>4, <4>1, <4>2
    <3> QED BY <1>2, <3>5, NothingChanges
  <2> QED BY <2>1, <2>2
<1>5. CASE (\E a \in Persons : RenewInvitation(a)) \/ InvitationExpires
  <2>1. invitation'.roles = invitation.roles
    BY <1>3, <1>5 DEF RenewInvitation, InvitationExpires, InvitationRow
  <2>2. InvitesAdministrators' => InvitesAdministrators
    BY <1>1, <2>1 DEF InvitesAdministrators
  <2> QED BY <1>2, <2>2, NothingChanges
<1> QED BY <1>4, <1>5

LEMMA StepsGoverned ==
  ASSUME RolesInv, RolesInv', RolesNext
  PROVE  Governed
<1>1. DOMAIN holder = Holders /\ Persons \subseteq Holders
  BY DEF RolesInv, RoleTypes, Holders
<1>2. CASE \/ \E r \in Existing : ListRoles(r)
           \/ \E m \in DOMAIN holder : ListMemberAssignments(m)
           \/ ListInvitationAssignments
           \/ \E u \in Persons : GrantAdministrator(u) \/ RevokeAdministrator(u)
  <2>1. UNCHANGED <<roles, holder, invitation>> /\ Existing' = Existing
    BY <1>2 DEF ListRoles, ListMemberAssignments, ListInvitationAssignments, GrantAdministrator,
                RevokeAdministrator, Existing
  <2>2. (\A m \in Holders : Administers(m)' <=> Administers(m)) /\ (InvitesAdministrators' => InvitesAdministrators)
    BY <2>1 DEF Administers, InvitesAdministrators
  <2> QED BY <2>2, NothingChanges
<1>3. ASSUME NEW a \in Persons,
             \/ \E r \in CustomRoles, g \in GrantSets : CreateRole(a, r, g)
             \/ \E g \in GrantSets \cup {Core} : UpdateRole(a, g)
             \/ DeleteRole(a)
             \/ \E r \in Existing : UpdateDefaultRole(a, r)
      PROVE  Governed
  BY <1>3, RoleCommandsGoverned
<1>4. ASSUME NEW a \in Persons, NEW m \in DOMAIN holder,
             \/ \E next \in RoleChoices : ReplaceMemberRoles(a, m, next)
             \/ \E next \in RoleChoices \cup {{}} : ReactivateMemberWithRoles(a, m, next)
             \/ \E labels \in {{}, {Administrator}, {LegacySelfPayment}} : UpdatePermissions(a, m, labels)
             \/ ArchiveMemberOf(a, m)
      PROVE  Governed
  BY <1>1, <1>4, MembershipStepsGoverned
<1>5. CASE \/ \E a \in Persons, next \in RoleChoices :
                ReplaceInvitationRoles(a, next) \/ CreateInvitationWithRoles(a, next)
           \/ \E a \in Persons : RenewInvitation(a)
           \/ InvitationExpires
  BY <1>5, InvitationStepsGoverned
<1>6. ASSUME NEW m \in Persons, AcceptWithRoles(m) \/ AcceptPublicJoinLinkWithDefaultRole(m) PROVE Governed
  BY <1>1, <1>6, MembershipStepsGoverned
<1> QED BY <1>2, <1>3, <1>4, <1>5, <1>6 DEF RolesNext

\* GROUP_ADMINISTRATION is gained, lost and promised only at the hand of
\* somebody who holds it, or by accepting an invitation (RequireAssignment-
\* ChangePermissions, UpdateRole, ArchiveMember, ValidateDefaultRole).
THEOREM AdministratorsGovern == RolesSpec => AdministrationByAdministrators
<1>1. RolesInv /\ RolesInv' /\ [RolesNext]_roleVars => [Governed]_roleVars
  BY StepsGoverned
<1>2. RolesSpec => [][Governed]_roleVars
  BY <1>1, RolesFit, PTL DEF RolesSpec
<1>3. [Governed]_roleVars =>
        [/\ AdministrationHolders' # AdministrationHolders =>
              by' \in AdministrationHolders \/ invitation'.state # invitation.state
         /\ GA \in Grants(invitation.roles)' /\ GA \notin Grants(invitation.roles) => by' \in AdministrationHolders
        ]_roleVars
  BY DEF Governed
<1> QED BY <1>2, <1>3, PTL DEF AdministrationByAdministrators

-----------------------------------------------------------------------------
(***************************************************************************)
(* Accounts.  Requests are only typed: whatever a command has read may be  *)
(* out of date when it writes.  What holds of the rows is Sound: an open   *)
(* action is as the account is now, a closed one has no mail waiting, and  *)
(* open actions do not compete.                                            *)
(***************************************************************************)
Mailbox    == Emails \cup {NoTarget}
HashRow    == [password : Passwords, salt : Nat]
AccountRow == [email : Mailbox, hash : HashRow, changes : Nat]
RequestRow ==
  [kind : {"LOGIN", "PASSWORD", "PASSWORD_RESET", "EMAIL_CHANGE"}, user : Users, source : Mailbox, hash : HashRow,
   target : Mailbox, new : Passwords \cup {NoTarget}]
ActionRow  ==
  [kind : {"PASSWORD_RESET", "EMAIL_CHANGE"}, user : Users, source : Mailbox, target : Mailbox,
   hash : HashRow, expires : Nat, state : {"OPEN", "INVALID", "CONSUMED"}, mail : {"PENDING", "SENT", "CANCELLED"}]
SessionRow == [id : Nat, user : Users, expires : Nat, since : Nat]

CurrentAction(rows, a) == IF Open(a) THEN a.source = rows[a.user].email /\ a.hash = rows[a.user].hash ELSE a.mail # "PENDING"

\* Two open actions of one list do not compete.
Compete(a, b) ==
  /\ Open(a) /\ Open(b)
  /\ (a.user = b.user /\ a.kind = b.kind) \/ (a.target # NoTarget /\ a.target = b.target)
Apart(acts) == \A i, j \in DOMAIN acts : i # j => ~Compete(acts[i], acts[j])

Sound(rows, acts) == (\A i \in DOMAIN acts : CurrentAction(rows, acts[i])) /\ Apart(acts)

AccountTypes ==
  /\ account \in [Users -> AccountRow]
  /\ requests \subseteq RequestRow
  /\ \A r \in requests : /\ r.kind = "PASSWORD_RESET" => r.target = NoTarget
                         /\ r.kind = "PASSWORD" => r.new \in Passwords
  /\ sessions \subseteq SessionRow
  /\ securityActions \in Seq(ActionRow)
  /\ hour \in Nat

AccountsInv ==
  /\ AccountTypes
  /\ \A s \in sessions : s.since = account[s.user].changes
  /\ Sound(account, securityActions)

LEMMA ActionsTyped ==
  ASSUME NEW acts \in Seq(ActionRow), NEW i \in DOMAIN acts
  PROVE  acts[i] \in ActionRow
<1>1. i \in 1 .. Len(acts)
  BY LenProperties
<1> QED BY <1>1, ElementOfSeq

LEMMA ClosedRow ==
  ASSUME NEW a \in ActionRow, NEW outcome \in {"INVALID", "CONSUMED"}
  PROVE  /\ Closed(a, outcome) \in ActionRow /\ ~Open(Closed(a, outcome)) /\ Closed(a, outcome).mail # "PENDING"
         /\ Closed(a, outcome).user = a.user
<1> DEFINE mail == IF a.mail = "PENDING" THEN "CANCELLED" ELSE a.mail
<1>1. mail \in {"PENDING", "SENT", "CANCELLED"} /\ mail # "PENDING"
  BY DEF ActionRow
<1>2. Closed(a, outcome) = [a EXCEPT !.state = outcome, !.mail = mail]
  BY DEF Closed
<1> HIDE DEF mail
<1> QED BY <1>1, <1>2 DEF ActionRow, Open

\* acts after some of its rows were closed.
Closes(acts, next) ==
  /\ next \in Seq(ActionRow) /\ DOMAIN next = DOMAIN acts
  /\ \A i \in DOMAIN acts : next[i] = acts[i] \/ (~Open(next[i]) /\ next[i].mail # "PENDING")

LEMMA Invalidation ==
  ASSUME NEW acts \in Seq(ActionRow), NEW u, NEW kind
  PROVE  /\ Closes(acts, InvalidateAccountActions(acts, u, kind))
         /\ \A i \in DOMAIN acts :
              LET b == InvalidateAccountActions(acts, u, kind)[i]
              IN  Open(b) => b = acts[i] /\ (b.user # u \/ kind \notin {"ANY", b.kind})
<1> DEFINE next == InvalidateAccountActions(acts, u, kind)
           Hit(i) == Open(acts[i]) /\ acts[i].user = u /\ kind \in {"ANY", acts[i].kind}
<1>1. DOMAIN acts = 1 .. Len(acts) /\ Len(acts) \in Nat /\ \A i \in DOMAIN acts : acts[i] \in ActionRow
  BY LenProperties, ElementOfSeq
<1>2. DOMAIN next = DOMAIN acts
  BY DEF InvalidateAccountActions
<1>3. \A i \in DOMAIN acts : next[i] = IF Hit(i) THEN Closed(acts[i], "INVALID") ELSE acts[i]
  BY DEF InvalidateAccountActions
<1>4. next = [i \in 1 .. Len(acts) |-> next[i]]
  BY <1>1 DEF InvalidateAccountActions
<1> HIDE DEF next
<1>5. \A i \in DOMAIN acts : /\ Closed(acts[i], "INVALID") \in ActionRow
                             /\ ~Open(Closed(acts[i], "INVALID")) /\ Closed(acts[i], "INVALID").mail # "PENDING"
  BY <1>1, ClosedRow
<1>6. \A i \in DOMAIN acts : next[i] \in ActionRow
  BY <1>1, <1>3, <1>5
<1>7. next \in Seq(ActionRow)
  BY <1>1, <1>4, <1>6, IsASeq
<1>8. \A i \in DOMAIN acts : next[i] = acts[i] \/ (~Open(next[i]) /\ next[i].mail # "PENDING")
  BY <1>3, <1>5
<1>9. ASSUME NEW i \in DOMAIN acts, Open(next[i])
      PROVE  next[i] = acts[i] /\ (next[i].user # u \/ kind \notin {"ANY", next[i].kind})
  <2>1. ~Hit(i) /\ next[i] = acts[i]
    BY <1>3, <1>5, <1>9
  <2> QED BY <1>9, <2>1
<1> QED BY <1>2, <1>7, <1>8, <1>9 DEF Closes, next

LEMMA Expiry ==
  ASSUME NEW acts \in Seq(ActionRow), NEW target
  PROVE  Closes(acts, InvalidateExpiredEmailTarget(acts, target))
<1> DEFINE next == InvalidateExpiredEmailTarget(acts, target)
           Hit(i) == Open(acts[i]) /\ acts[i].target = target /\ acts[i].expires <= hour
<1>1. DOMAIN acts = 1 .. Len(acts) /\ Len(acts) \in Nat /\ \A i \in DOMAIN acts : acts[i] \in ActionRow
  BY LenProperties, ElementOfSeq
<1>2. DOMAIN next = DOMAIN acts
  BY DEF InvalidateExpiredEmailTarget
<1>3. \A i \in DOMAIN acts : next[i] = IF Hit(i) THEN Closed(acts[i], "INVALID") ELSE acts[i]
  BY DEF InvalidateExpiredEmailTarget
<1>4. next = [i \in 1 .. Len(acts) |-> next[i]]
  BY <1>1 DEF InvalidateExpiredEmailTarget
<1> HIDE DEF next
<1>5. \A i \in DOMAIN acts : /\ Closed(acts[i], "INVALID") \in ActionRow
                             /\ ~Open(Closed(acts[i], "INVALID")) /\ Closed(acts[i], "INVALID").mail # "PENDING"
  BY <1>1, ClosedRow
<1>6. \A i \in DOMAIN acts : next[i] \in ActionRow
  BY <1>1, <1>3, <1>5
<1>7. next \in Seq(ActionRow)
  BY <1>1, <1>4, <1>6, IsASeq
<1>8. \A i \in DOMAIN acts : next[i] = acts[i] \/ (~Open(next[i]) /\ next[i].mail # "PENDING")
  BY <1>3, <1>5
<1> QED BY <1>2, <1>7, <1>8 DEF Closes, next

\* Closing rows keeps the others sound.
LEMMA ClosingIsSound ==
  ASSUME NEW rows, NEW acts, NEW next, Sound(rows, acts), Closes(acts, next)
  PROVE  Sound(rows, next)
<1>1. \A i \in DOMAIN next : CurrentAction(rows, next[i])
  BY DEF Sound, Closes, CurrentAction
<1>2. \A i \in DOMAIN next : Open(next[i]) => next[i] = acts[i] /\ i \in DOMAIN acts
  BY DEF Closes
<1>3. Apart(next)
  BY <1>2 DEF Sound, Apart, Compete
<1> QED BY <1>1, <1>3 DEF Sound

LEMMA ClosesTwice ==
  ASSUME NEW acts, NEW middle, NEW next, Closes(acts, middle), Closes(middle, next)
  PROVE  Closes(acts, next)
BY DEF Closes

LEMMA Consumption ==
  ASSUME AccountsInv, NEW i \in DOMAIN securityActions
  PROVE  Closes(securityActions, Consumed(i))
<1> DEFINE n == Len(securityActions)
<1>1. securityActions \in [1 .. n -> ActionRow] /\ n \in Nat /\ DOMAIN securityActions = 1 .. n
  BY LenProperties DEF AccountsInv, AccountTypes
<1>2. securityActions[i] \in ActionRow
  BY <1>1
<1>3. /\ Closed(securityActions[i], "CONSUMED") \in ActionRow /\ ~Open(Closed(securityActions[i], "CONSUMED"))
      /\ Closed(securityActions[i], "CONSUMED").mail # "PENDING"
  BY <1>2, ClosedRow
<1> DEFINE row == Closed(securityActions[i], "CONSUMED")
<1>4. Consumed(i) = [securityActions EXCEPT ![i] = row]
  BY DEF Consumed
<1> HIDE DEF n, row
<1>5. Consumed(i) \in [1 .. n -> ActionRow] /\ Consumed(i)[i] = row
      /\ \A j \in DOMAIN securityActions : j # i => Consumed(i)[j] = securityActions[j]
  BY <1>1, <1>3, <1>4 DEF row
<1>6. Consumed(i) \in Seq(ActionRow) /\ DOMAIN Consumed(i) = DOMAIN securityActions
  BY <1>1, <1>5, SeqDef
<1> QED BY <1>3, <1>5, <1>6 DEF Closes, row

LEMMA ReceiveKeepsInv ==
  ASSUME AccountsInv, NEW r \in RequestRow, r.kind = "PASSWORD_RESET" => r.target = NoTarget,
         r.kind = "PASSWORD" => r.new \in Passwords, Receive(r)
  PROVE  AccountsInv'
BY DEF AccountsInv, AccountTypes, Receive

LEMMA RequestTyped ==
  ASSUME AccountsInv, NEW kind \in {"LOGIN", "PASSWORD", "PASSWORD_RESET", "EMAIL_CHANGE"}, NEW u \in Users,
         NEW target \in Mailbox, NEW new \in Passwords \cup {NoTarget}
  PROVE  /\ Request(kind, u, target, new) \in RequestRow /\ Request(kind, u, target, new).kind = kind
         /\ Request(kind, u, target, new).target = target /\ Request(kind, u, target, new).new = new
<1>1. account[u].email \in Mailbox /\ account[u].hash \in HashRow
  BY DEF AccountsInv, AccountTypes, AccountRow
<1> QED BY <1>1 DEF Request, RequestRow

LEMMA ReadsKeepInv ==
  ASSUME AccountsInv,
         \/ \E u \in Users, p \in Passwords : Login(u, p)
         \/ \E u \in Users, p, q \in Passwords : ReadPasswordChange(u, p, q)
         \/ \E e \in Emails : StartPasswordReset(e)
         \/ \E u \in Users, e \in Emails : StartEmailChange(u, e)
  PROVE  AccountsInv'
<1>1. ASSUME NEW u \in Users, NEW p \in Passwords, Login(u, p) PROVE AccountsInv'
  BY <1>1, RequestTyped, ReceiveKeepsInv DEF Login, Mailbox
<1>2. ASSUME NEW u \in Users, NEW p, NEW q \in Passwords, ReadPasswordChange(u, p, q) PROVE AccountsInv'
  BY <1>2, RequestTyped, ReceiveKeepsInv DEF ReadPasswordChange, Mailbox
<1>3. ASSUME NEW e \in Emails, StartPasswordReset(e) PROVE AccountsInv'
  BY <1>3, RequestTyped, ReceiveKeepsInv DEF StartPasswordReset, Mailbox
<1>4. ASSUME NEW u \in Users, NEW e \in Emails, StartEmailChange(u, e) PROVE AccountsInv'
  BY <1>4, RequestTyped, ReceiveKeepsInv DEF StartEmailChange, Mailbox
<1> QED BY <1>1, <1>2, <1>3, <1>4

LEMMA CreateSessionKeepsInv ==
  ASSUME AccountsInv, NEW r \in requests, CreateSession(r)
  PROVE  AccountsInv'
<1>1. r.user \in Users /\ account[r.user].changes \in Nat
  BY DEF AccountsInv, AccountTypes, RequestRow, AccountRow
<1>2. PICK id \in 1 .. MaxSessions : sessions' = sessions \cup
        {[id |-> id, user |-> r.user, expires |-> hour + SessionLifetime, since |-> account[r.user].changes]}
  BY DEF CreateSession
<1>3. id \in Nat /\ hour + SessionLifetime \in Nat
  BY <1>2, AccountsAssumption DEF AccountsInv, AccountTypes
<1>4. UNCHANGED <<account, securityActions, hour>> /\ requests' \subseteq requests
  BY DEF CreateSession
<1> DEFINE expires == hour + SessionLifetime
           s       == [id |-> id, user |-> r.user, expires |-> expires, since |-> account[r.user].changes]
<1>5. sessions' = sessions \cup {s}
  BY <1>2
<1> HIDE DEF expires
<1>6. s \in SessionRow /\ s.since = account[s.user].changes
  BY <1>1, <1>3 DEF SessionRow, expires
<1> HIDE DEF s
<1>7. AccountTypes'
  BY <1>4, <1>5, <1>6 DEF AccountsInv, AccountTypes
<1> QED BY <1>4, <1>5, <1>6, <1>7 DEF AccountsInv

\* A password or a mailbox changes; acts is the list before everything open
\* of this user is closed.
LEMMA SensitiveChangeKeepsInv ==
  ASSUME AccountsInv, NEW u \in Users, NEW row \in AccountRow, NEW acts, Closes(securityActions, acts),
         account' = [account EXCEPT ![u] = row], FinishSensitiveAccountChange(u, acts),
         requests' \subseteq requests, UNCHANGED hour
  PROVE  AccountsInv'
<1> DEFINE next == InvalidateAccountActions(acts, u, "ANY")
<1>1. securityActions' = next /\ sessions' = {s \in sessions : s.user # u}
  BY DEF FinishSensitiveAccountChange
<1>2. acts \in Seq(ActionRow)
  BY DEF Closes
<1>3. Closes(acts, next) /\ \A i \in DOMAIN acts : Open(next[i]) => next[i] = acts[i] /\ next[i].user # u
  BY <1>2, Invalidation
<1> HIDE DEF next
<1>4. Closes(securityActions, next)
  BY <1>3, ClosesTwice
<1>5. Sound(account, next)
  BY <1>4, ClosingIsSound DEF AccountsInv
<1>6. next \in Seq(ActionRow) /\ DOMAIN next = DOMAIN acts
  BY <1>3 DEF Closes
<1>7. account' \in [Users -> AccountRow] /\ \A v \in Users : v # u => account'[v] = account[v]
  BY DEF AccountsInv, AccountTypes
<1>8. \A i \in DOMAIN next : CurrentAction(account', next[i])
  <2> SUFFICES ASSUME NEW i \in DOMAIN next PROVE CurrentAction(account', next[i])
    OBVIOUS
  <2>1. CurrentAction(account, next[i])
    BY <1>5 DEF Sound
  <2>2. CASE Open(next[i])
    <3>1. next[i].user # u /\ next[i] \in ActionRow
      BY <1>3, <1>6, <2>2, ActionsTyped
    <3>2. next[i].user \in Users
      BY <3>1 DEF ActionRow
    <3> QED BY <1>7, <2>1, <2>2, <3>1, <3>2 DEF CurrentAction
  <2>3. CASE ~Open(next[i])
    BY <2>1, <2>3 DEF CurrentAction
  <2> QED BY <2>2, <2>3
<1>9. Sound(account', securityActions')
  BY <1>1, <1>5, <1>8 DEF Sound
<1>10. \A s \in sessions' : s.since = account'[s.user].changes
  <2> SUFFICES ASSUME NEW s \in sessions' PROVE s.since = account'[s.user].changes
    OBVIOUS
  <2>1. s \in sessions /\ s.user # u /\ s.user \in Users
    BY <1>1 DEF AccountsInv, AccountTypes, SessionRow
  <2> QED BY <1>7, <2>1 DEF AccountsInv
<1>11. AccountTypes'
  BY <1>1, <1>6, <1>7 DEF AccountsInv, AccountTypes
<1> QED BY <1>9, <1>10, <1>11 DEF AccountsInv

LEMMA NewPassword ==
  ASSUME AccountsInv, NEW u \in Users, NEW q \in Passwords
  PROVE  /\ [account[u] EXCEPT !.hash = Hash(q, account[u].changes + 1), !.changes = @ + 1] \in AccountRow
         /\ [account EXCEPT ![u].hash = Hash(q, account[u].changes + 1), ![u].changes = @ + 1]
              = [account EXCEPT ![u] = [account[u] EXCEPT !.hash = Hash(q, account[u].changes + 1), !.changes = @ + 1]]
<1> DEFINE count == account[u].changes + 1
           hash    == Hash(q, count)
<1>1. account[u] \in AccountRow
  BY DEF AccountsInv, AccountTypes
<1>2. count \in Nat
  BY <1>1 DEF AccountRow
<1> HIDE DEF count
<1>3. hash \in HashRow
  BY <1>2 DEF Hash, HashRow
<1> HIDE DEF hash
<1>4. [account[u] EXCEPT !.hash = hash, !.changes = count] \in AccountRow
  BY <1>1, <1>2, <1>3 DEF AccountRow
<1>5. [account EXCEPT ![u].hash = hash, ![u].changes = count]
        = [account EXCEPT ![u] = [account[u] EXCEPT !.hash = hash, !.changes = count]]
  BY DEF AccountsInv, AccountTypes
<1> QED BY <1>4, <1>5 DEF hash, count

LEMMA ChangePasswordKeepsInv ==
  ASSUME AccountsInv, NEW r \in requests, ChangePassword(r)
  PROVE  AccountsInv'
<1> DEFINE u == r.user
<1>1. u \in Users /\ r.new \in Passwords /\ requests' \subseteq requests /\ UNCHANGED hour
  BY DEF ChangePassword, AccountsInv, AccountTypes, RequestRow
<1>2. CASE UNCHANGED <<account, sessions, securityActions>>
  BY <1>1, <1>2 DEF AccountsInv, AccountTypes
<1>3. CASE /\ account' = [account EXCEPT ![u].hash = Hash(r.new, account[u].changes + 1), ![u].changes = @ + 1]
           /\ FinishSensitiveAccountChange(u, securityActions)
  <2>1. Closes(securityActions, securityActions)
    BY DEF Closes, AccountsInv, AccountTypes
  <2> QED BY <1>1, <1>3, <2>1, NewPassword, SensitiveChangeKeepsInv
<1> QED BY <1>2, <1>3 DEF ChangePassword

LEMMA ConfirmationsKeepInv ==
  ASSUME AccountsInv, NEW i \in DOMAIN securityActions,
         ConfirmEmailChange(i) \/ \E q \in Passwords : ConfirmPasswordReset(i, q)
  PROVE  AccountsInv'
<1> DEFINE a == securityActions[i]
           u == a.user
<1>1. a \in ActionRow /\ u \in Users
  <2>1. a \in ActionRow
    BY ActionsTyped DEF AccountsInv, AccountTypes
  <2> QED BY <2>1 DEF ActionRow
<1>2. Closes(securityActions, Consumed(i))
  BY Consumption
<1>3. ASSUME NEW q \in Passwords, ConfirmPasswordReset(i, q) PROVE AccountsInv'
  BY <1>1, <1>2, <1>3, NewPassword, SensitiveChangeKeepsInv DEF ConfirmPasswordReset
<1>4. CASE ConfirmEmailChange(i)
  <2> DEFINE count == account[u].changes + 1
             row     == [account[u] EXCEPT !.email = a.target, !.changes = count]
  <2>1. account[u] \in AccountRow
    BY <1>1 DEF AccountsInv, AccountTypes
  <2>2. count \in Nat
    BY <2>1 DEF AccountRow
  <2>3. a.target \in Mailbox
    BY <1>1 DEF ActionRow
  <2>4. account' = [account EXCEPT ![u].email = a.target, ![u].changes = count]
        /\ FinishSensitiveAccountChange(u, Consumed(i)) /\ UNCHANGED <<requests, hour>>
    BY <1>4 DEF ConfirmEmailChange
  <2>5. account' = [account EXCEPT ![u] = row]
    BY <2>4 DEF AccountsInv, AccountTypes
  <2> HIDE DEF count, a
  <2>6. row \in AccountRow
    BY <2>1, <2>2, <2>3 DEF AccountRow
  <2> QED BY <1>1, <1>2, <2>4, <2>5, <2>6, SensitiveChangeKeepsInv
<1> QED BY <1>3, <1>4
\* A row appended to a sound list.
LEMMA AppendIsSound ==
  ASSUME NEW rows, NEW acts \in Seq(ActionRow), Sound(rows, acts), NEW a \in ActionRow, CurrentAction(rows, a),
         \A i \in DOMAIN acts : ~Compete(acts[i], a) /\ ~Compete(a, acts[i])
  PROVE  Append(acts, a) \in Seq(ActionRow) /\ Sound(rows, Append(acts, a))
<1> DEFINE next == Append(acts, a)
           n    == Len(acts)
<1>1. /\ next \in Seq(ActionRow) /\ Len(next) = n + 1 /\ n \in Nat
      /\ \A i \in 1 .. n : next[i] = acts[i]
      /\ next[n + 1] = a
  BY AppendProperties, LenProperties
<1>2. DOMAIN acts = 1 .. n /\ DOMAIN next = 1 .. n + 1
  BY <1>1, LenProperties
<1> HIDE DEF next, n
<1>3. \A i \in DOMAIN next : (i \in DOMAIN acts /\ next[i] = acts[i]) \/ (i = n + 1 /\ next[i] = a)
  BY <1>1, <1>2
<1>4. \A i \in DOMAIN next : CurrentAction(rows, next[i])
  BY <1>3 DEF Sound
<1>5. Apart(next)
  <2> SUFFICES ASSUME NEW i \in DOMAIN next, NEW j \in DOMAIN next, i # j PROVE ~Compete(next[i], next[j])
    BY DEF Apart
  <2>1. \A x, y \in DOMAIN acts : x # y => ~Compete(acts[x], acts[y])
    BY DEF Sound, Apart
  <2> QED BY <1>3, <2>1, Zenon
<1> QED BY <1>1, <1>4, <1>5 DEF Sound, next

LEMMA PersistKeepsInv ==
  ASSUME AccountsInv, NEW r \in requests, PersistAccountSecurityAction(r)
  PROVE  AccountsInv'
<1> DEFINE u       == r.user
           expired == IF r.kind = "EMAIL_CHANGE" THEN InvalidateExpiredEmailTarget(securityActions, r.target)
                      ELSE securityActions
           acts    == InvalidateAccountActions(expired, u, r.kind)
           expires == hour + ActionLifetime
           a       == [kind |-> r.kind, user |-> u, source |-> r.source, target |-> r.target, hash |-> r.hash,
                       expires |-> expires, state |-> "OPEN", mail |-> "PENDING"]
<1>1. /\ requests' \subseteq requests /\ UNCHANGED <<account, sessions, hour>>
      /\ r.kind \in {"PASSWORD_RESET", "EMAIL_CHANGE"}
  BY DEF PersistAccountSecurityAction
<1>2. CASE UNCHANGED securityActions
  BY <1>1, <1>2 DEF AccountsInv, AccountTypes
<1>3. CASE /\ account[u].email = r.source /\ account[u].hash = r.hash
           /\ ~(r.kind = "EMAIL_CHANGE" /\ TargetTaken(acts, r.target))
           /\ securityActions' = Append(acts, a)
  <2>1. securityActions \in Seq(ActionRow) /\ Sound(account, securityActions)
    BY DEF AccountsInv, AccountTypes
  <2>2. Closes(securityActions, expired)
    <3>1. Closes(securityActions, securityActions)
      BY <2>1 DEF Closes
    <3>2. Closes(securityActions, InvalidateExpiredEmailTarget(securityActions, r.target))
      BY <2>1, Expiry
    <3> QED BY <3>1, <3>2
  <2>3. expired \in Seq(ActionRow)
    BY <2>2 DEF Closes
  <2> HIDE DEF expired
  <2>4. /\ Closes(expired, acts)
        /\ \A i \in DOMAIN expired : Open(acts[i]) => (acts[i].user # u \/ r.kind \notin {"ANY", acts[i].kind})
    BY <2>3, Invalidation
  <2> HIDE DEF acts
  <2>5. acts \in Seq(ActionRow) /\ DOMAIN acts = DOMAIN expired
    BY <2>4 DEF Closes
  <2>6. Sound(account, acts)
    BY <2>1, <2>2, <2>4, ClosesTwice, ClosingIsSound
  <2>7. expires \in Nat
    BY AccountsAssumption DEF AccountsInv, AccountTypes
  <2> HIDE DEF expires
  <2>8. /\ u \in Users /\ r.source \in Mailbox /\ r.target \in Mailbox /\ r.hash \in HashRow
        /\ r.kind = "PASSWORD_RESET" => r.target = NoTarget
    BY DEF AccountsInv, AccountTypes, RequestRow
  <2>9. a \in ActionRow
    BY <1>1, <2>7, <2>8 DEF ActionRow
  <2>10. /\ a.kind = r.kind /\ a.user = u /\ a.target = r.target /\ a.source = r.source /\ a.hash = r.hash
         /\ Open(a)
    BY DEF Open
  <2> HIDE DEF a
  <2>11. CurrentAction(account, a)
    BY <1>3, <2>10 DEF CurrentAction
  <2>12. ASSUME NEW i \in DOMAIN acts, Open(acts[i])
         PROVE  /\ acts[i].user # u \/ acts[i].kind # r.kind
                /\ r.target = NoTarget \/ acts[i].target # r.target
    <3>1. acts[i].user # u \/ acts[i].kind # r.kind
      BY <2>4, <2>5, <2>12
    <3>2. CASE r.kind = "PASSWORD_RESET"
      BY <2>8, <3>1, <3>2
    <3>3. CASE r.kind = "EMAIL_CHANGE"
      BY <1>3, <2>12, <3>1, <3>3 DEF TargetTaken
    <3> QED BY <1>1, <3>2, <3>3
  <2>13. \A i \in DOMAIN acts : ~Compete(acts[i], a) /\ ~Compete(a, acts[i])
    BY <2>10, <2>12 DEF Compete
  <2>14. securityActions' \in Seq(ActionRow) /\ Sound(account, securityActions')
    BY <1>3, <2>5, <2>6, <2>9, <2>11, <2>13, AppendIsSound
  <2> QED BY <1>1, <2>14 DEF AccountsInv, AccountTypes
<1> QED BY <1>2, <1>3 DEF PersistAccountSecurityAction

LEMMA SendKeepsInv ==
  ASSUME AccountsInv, NEW i \in DOMAIN securityActions, SendSecurityMail(i)
  PROVE  AccountsInv'
<1> DEFINE n   == Len(securityActions)
           a   == securityActions[i]
           row == [a EXCEPT !.mail = "SENT"]
<1>1. securityActions \in [1 .. n -> ActionRow] /\ n \in Nat /\ DOMAIN securityActions = 1 .. n
  BY LenProperties DEF AccountsInv, AccountTypes
<1>2. a \in ActionRow /\ Open(a)
  BY <1>1 DEF SendSecurityMail
<1>3. /\ row \in ActionRow /\ Open(row) /\ row.user = a.user /\ row.kind = a.kind /\ row.target = a.target
      /\ row.source = a.source /\ row.hash = a.hash
  BY <1>2 DEF ActionRow, Open
<1>4. securityActions' = [securityActions EXCEPT ![i] = row] /\ UNCHANGED <<account, sessions, requests, hour>>
  BY <1>1 DEF SendSecurityMail
<1> HIDE DEF n, row
<1>5. /\ securityActions' \in [1 .. n -> ActionRow] /\ securityActions'[i] = row
      /\ \A j \in 1 .. n : j # i => securityActions'[j] = securityActions[j]
  BY <1>1, <1>3, <1>4
<1>6. securityActions' \in Seq(ActionRow) /\ DOMAIN securityActions' = DOMAIN securityActions
  BY <1>1, <1>5, SeqDef
<1>7. \A j \in DOMAIN securityActions' :
        /\ Open(securityActions'[j]) <=> Open(securityActions[j])
        /\ securityActions'[j].user = securityActions[j].user /\ securityActions'[j].kind = securityActions[j].kind
        /\ securityActions'[j].target = securityActions[j].target
  BY <1>1, <1>2, <1>3, <1>5, <1>6
<1>8. Apart(securityActions')
  BY <1>6, <1>7 DEF AccountsInv, Sound, Apart, Compete
<1>9. CurrentAction(account, row)
  BY <1>2, <1>3 DEF AccountsInv, Sound, CurrentAction
<1>10. \A j \in DOMAIN securityActions' : CurrentAction(account, securityActions'[j])
  BY <1>1, <1>5, <1>6, <1>9 DEF AccountsInv, Sound
<1> QED BY <1>4, <1>6, <1>8, <1>10 DEF AccountsInv, AccountTypes, Sound

LEMMA AccountsInvInit ==
  ASSUME AccountsInit
  PROVE  AccountsInv
<1>1. account \in [Users -> AccountRow]
  <2>1. account \in [Users -> [email : Emails, hash : {Hash(p, 0) : p \in Passwords}, changes : {0}]]
    BY DEF AccountsInit
  <2>2. {Hash(p, 0) : p \in Passwords} \subseteq HashRow
    BY DEF Hash, HashRow
  <2>3. [email : Emails, hash : {Hash(p, 0) : p \in Passwords}, changes : {0}] \subseteq AccountRow
    BY <2>2 DEF AccountRow, Mailbox
  <2> QED BY <2>1, <2>3
<1>2. securityActions \in Seq(ActionRow) /\ DOMAIN securityActions = {}
  BY DEF AccountsInit
<1> QED BY <1>1, <1>2 DEF AccountsInit, AccountsInv, AccountTypes, Sound, Apart

LEMMA AccountsInvNext ==
  ASSUME AccountsInv, [AccountsNext]_accountVars
  PROVE  AccountsInv'
<1>1. CASE UNCHANGED accountVars
  BY <1>1 DEF AccountsInv, AccountTypes, accountVars
<1>2. ASSUME NEW r \in requests, CreateSession(r) \/ ChangePassword(r) \/ PersistAccountSecurityAction(r)
      PROVE  AccountsInv'
  BY <1>2, CreateSessionKeepsInv, ChangePasswordKeepsInv, PersistKeepsInv
<1>3. ASSUME UNCHANGED <<account, securityActions, requests, hour>>, sessions' \subseteq sessions
      PROVE  AccountsInv'
  BY <1>3 DEF AccountsInv, AccountTypes
<1>4. ASSUME (\E s \in sessions : Logout(s) \/ Authenticate(s)) \/ CleanupExpired PROVE AccountsInv'
  BY <1>3, <1>4 DEF Logout, Authenticate, CleanupExpired
<1>5. CASE Hour
  <2>1. hour' \in Nat
    BY <1>5 DEF Hour, AccountsInv, AccountTypes
  <2> QED BY <1>5, <2>1 DEF Hour, AccountsInv, AccountTypes
<1> QED BY <1>1, <1>2, <1>4, <1>5, ReadsKeepInv, ConfirmationsKeepInv, SendKeepsInv DEF AccountsNext

\* The rows of the accounts, their sessions and their one-time actions stay
\* sound whatever commands overlap (auth/service.go, auth/account.go): every
\* session is as old as the last change at least, every open action was
\* requested under the present password and mailbox, and no two compete.
THEOREM AccountsFit == AccountsSpec => []AccountsInv
<1>1. AccountsInit => AccountsInv
  BY AccountsInvInit
<1>2. AccountsInv /\ [AccountsNext]_accountVars => AccountsInv'
  BY AccountsInvNext
<1> QED BY <1>1, <1>2, PTL DEF AccountsSpec

\* A change of password or mailbox leaves no session and no open action of
\* before it, for any number of users, commands and rows (ChangePassword and
\* the two confirmations, finishSensitiveAccountChange).
THEOREM ChangesRevoke == AccountsSpec => []ChangeRevokesEverything
<1>1. AccountsInv => ChangeRevokesEverything
  BY DEF AccountsInv, ChangeRevokesEverything, Sound, Apart, Compete, CurrentAction
<1> QED BY <1>1, AccountsFit, PTL
-----------------------------------------------------------------------------
(***************************************************************************)
(* System settings.  Beside what SettingsAsTestedAndSeen says, a snapshot  *)
(* that may deliver must be known to have a tested connection although its *)
(* two queries saw different times: whatever is enabled in the overrides   *)
(* has been tested (Vetted), since every change of the connection disables *)
(* it and the result of every command is checked before it is stored.      *)
(***************************************************************************)
StateRow ==
  [revision : Nat, smtp : Nat \ {0}, tested : Nat, status : {"UNTESTED", "VERIFIED", "FAILED"}, push : Nat]

GoodSnapshot(r) ==
  /\ r.phase \in {"IDLE", "STATE", "LOADED", "PASSED", "FAILED"}
  /\ r.phase # "IDLE" => r.state \in StateRow /\ r.state.revision <= state.revision
  /\ r.phase \in {"LOADED", "PASSED", "FAILED"} =>
       /\ r = [phase |-> r.phase, state |-> r.state, seen |-> r.seen, requiresTest |-> r.requiresTest,
               valid |-> r.valid, active |-> r.active]
       /\ r.state.revision = state.revision => r.seen = overrides
       /\ r.active /\ HasSMTPConnectionOverride(r.seen) => Connection(r.seen) \in passed
  /\ r.phase = "PASSED" => Connection(r.seen) \in passed

GoodReaders == reader = [p \in Purposes |-> reader[p]] /\ \A p \in Purposes : GoodSnapshot(reader[p])

Tested == SMTPRevisionTested(state) /\ HasSMTPConnectionOverride(overrides) => Connection(overrides) \in passed
Vetted == Effective(overrides, "smtpEnabled") /\ HasSMTPConnectionOverride(overrides) => SMTPRevisionTested(state)
Delivered == sent \in {NoConnection, Connection(<<>>)} \cup passed

GoodLegal ==
  /\ legal.revision \in Nat
  /\ legalForm.phase \in {"IDLE", "STATE", "LOADED"}
  /\ legalForm.phase # "IDLE" => legalForm.revision \in Nat /\ legalForm.revision <= legal.revision
  /\ legalForm.phase = "LOADED" /\ legalForm.revision = legal.revision => legalForm.seen = legal.text

SettingsInv == state \in StateRow /\ GoodReaders /\ Tested /\ Vetted /\ Delivered /\ GoodLegal

LEMMA SettingsInvImplies ==
  ASSUME SettingsInv
  PROVE  SettingsAsTestedAndSeen
BY DEF SettingsInv, GoodReaders, GoodSnapshot, Tested, Delivered, GoodLegal, SettingsAsTestedAndSeen

LEMMA IdleIsGood == GoodSnapshot(Idle) /\ GoodSnapshot(Idle)'
BY DEF GoodSnapshot, Idle

\* Without overrides of the connection it is the host's.
LEMMA HostConnection ==
  ASSUME NEW ov, ~HasSMTPConnectionOverride(ov)
  PROVE  Connection(ov) = Connection(<<>>)
<1>1. DOMAIN <<>> = {}
  OBVIOUS
<1>2. \A key \in SMTPConnectionKeys : Effective(ov, key) = HostDefaults[key] /\ Effective(<<>>, key) = HostDefaults[key]
  BY <1>1 DEF HasSMTPConnectionOverride, Effective
<1> QED BY <1>2, Zenon DEF Connection

\* Snapshots stay good when the revision grows, or nothing they depend on changes.
LEMMA SnapshotsStay ==
  ASSUME SettingsInv, state' \in StateRow, passed \subseteq passed',
         state.revision < state'.revision \/ (state' = state /\ overrides' = overrides), NEW r, GoodSnapshot(r)
  PROVE  GoodSnapshot(r)'
<1>1. state.revision \in Nat /\ state'.revision \in Nat
  BY DEF SettingsInv, StateRow
<1>2. r.phase # "IDLE" => r.state \in StateRow /\ r.state.revision <= state.revision /\ r.state.revision \in Nat
  BY DEF GoodSnapshot, StateRow
<1>3. r.phase # "IDLE" => r.state.revision <= state'.revision
  BY <1>1, <1>2
<1>4. r.phase # "IDLE" /\ r.state.revision = state'.revision => state' = state /\ overrides' = overrides
  BY <1>1, <1>2
<1> QED BY <1>2, <1>3, <1>4 DEF GoodSnapshot

LEMMA ReadersStay ==
  ASSUME SettingsInv, state' \in StateRow, passed \subseteq passed',
         state.revision < state'.revision \/ (state' = state /\ overrides' = overrides),
         \/ reader' = reader
         \/ \E p \in Purposes : \E row : reader' = [reader EXCEPT ![p] = row] /\ GoodSnapshot(row)'
  PROVE  GoodReaders'
<1>1. ASSUME NEW p \in Purposes PROVE GoodSnapshot(reader[p])
  BY DEF SettingsInv, GoodReaders
<1>2. CASE reader' = reader
  <2>1. ASSUME NEW p \in Purposes PROVE GoodSnapshot(reader[p])'
    <3>1. \A r : GoodSnapshot(r) => GoodSnapshot(r)'
      BY SnapshotsStay
    <3> QED BY <1>1, <1>2, <3>1 DEF GoodSnapshot
  <2> QED BY <1>2, <2>1 DEF SettingsInv, GoodReaders
<1>3. ASSUME NEW p \in Purposes, NEW row, reader' = [reader EXCEPT ![p] = row], GoodSnapshot(row)'
      PROVE  GoodReaders'
  <2>1. reader' = [q \in Purposes |-> reader'[q]] /\ \A q \in Purposes : reader'[q] = IF q = p THEN row ELSE reader[q]
    BY <1>3 DEF SettingsInv, GoodReaders
  <2>2. ASSUME NEW q \in Purposes PROVE GoodSnapshot(reader[q])'
    <3>1. \A r : GoodSnapshot(r) => GoodSnapshot(r)'
      BY SnapshotsStay
    <3>2. CASE q = p
      BY <1>3, <2>1, <3>2 DEF GoodSnapshot
    <3>3. CASE q # p
      <4>1. PICK r : r = reader[q]
        OBVIOUS
      <4>2. reader'[q] = r /\ GoodSnapshot(r)
        BY <1>1, <2>1, <3>3, <4>1
      <4>3. GoodSnapshot(r)'
        BY <3>1, <4>2
      <4> QED BY <4>2, <4>3 DEF GoodSnapshot
    <3> QED BY <3>2, <3>3
  <2> QED BY <2>1, <2>2 DEF GoodReaders
<1> QED BY <1>2, <1>3

\* Only a snapshot changes.
LEMMA SnapshotTaken ==
  ASSUME SettingsInv, UNCHANGED <<state, overrides, passed, sent, legal, legalForm>>, NEW p \in Purposes, NEW row,
         reader' = [reader EXCEPT ![p] = row], GoodSnapshot(row)'
  PROVE  SettingsInv'
<1>1. state' \in StateRow /\ passed \subseteq passed'
  BY DEF SettingsInv
<1>2. GoodReaders'
  BY <1>1, ReadersStay
<1>3. Tested' /\ Vetted'
  BY DEF SettingsInv, Tested, Vetted
<1>4. Delivered' /\ GoodLegal'
  BY DEF SettingsInv, Delivered, GoodLegal
<1> QED BY <1>1, <1>2, <1>3, <1>4 DEF SettingsInv

LEMMA ReadStateKeepsInv ==
  ASSUME SettingsInv, NEW p \in Purposes, ReadSettingsState(p)
  PROVE  SettingsInv'
<1>1. PICK row : row = [phase |-> "STATE", state |-> state]
  OBVIOUS
<1>2. UNCHANGED <<state, overrides, passed, sent, legal, legalForm>> /\ reader' = [reader EXCEPT ![p] = row]
  BY <1>1 DEF ReadSettingsState
<1>3. row.phase = "STATE" /\ row.state = state' /\ state' \in StateRow
  BY <1>1, <1>2 DEF SettingsInv
<1>4. row.state.revision <= state'.revision
  BY <1>3 DEF StateRow
<1>5. GoodSnapshot(row)'
  BY <1>3, <1>4 DEF GoodSnapshot
<1> QED BY <1>2, <1>5, SnapshotTaken

LEMMA ReadOverridesKeepsInv ==
  ASSUME SettingsInv, NEW p \in Purposes, ReadOverrides(p)
  PROVE  SettingsInv'
<1>1. PICK st : st = reader[p].state
  OBVIOUS
<1>2. PICK row : row = LoadSettings(st, overrides)
  OBVIOUS
<1>3. UNCHANGED <<state, overrides, passed, sent, legal, legalForm>> /\ reader' = [reader EXCEPT ![p] = row]
  BY <1>1, <1>2 DEF ReadOverrides
<1>4. st \in StateRow /\ st.revision <= state.revision
  BY <1>1 DEF SettingsInv, GoodReaders, GoodSnapshot, ReadOverrides
<1>5. /\ row.phase = "LOADED" /\ row.state = st /\ row.seen = overrides
      /\ row = [phase |-> row.phase, state |-> row.state, seen |-> row.seen, requiresTest |-> row.requiresTest,
                valid |-> row.valid, active |-> row.active]
  BY <1>2 DEF LoadSettings
<1>6. row.active => Effective(overrides, "smtpEnabled")
  BY <1>2 DEF LoadSettings
<1>7. row.active /\ HasSMTPConnectionOverride(overrides) => Connection(overrides) \in passed
  BY <1>6 DEF SettingsInv, Tested, Vetted
<1>8. GoodSnapshot(row)'
  BY <1>3, <1>4, <1>5, <1>7 DEF GoodSnapshot
<1> QED BY <1>3, <1>8, SnapshotTaken

LEMMA ForgetKeepsInv ==
  ASSUME SettingsInv, NEW p \in Purposes, Forget(p)
  PROVE  SettingsInv'
BY SnapshotTaken, IdleIsGood DEF Forget

\* Overrides that agree on the connection.
LEMMA SameConnection ==
  ASSUME NEW ov, NEW old,
         \A key \in SMTPConnectionKeys : /\ key \in DOMAIN ov <=> key \in DOMAIN old
                                         /\ key \in DOMAIN old => ov[key] = old[key]
  PROVE  Connection(ov) = Connection(old) /\ (HasSMTPConnectionOverride(ov) <=> HasSMTPConnectionOverride(old))
<1>1. \A key \in SMTPConnectionKeys : Effective(ov, key) = Effective(old, key)
  BY DEF Effective
<1>2. Connection(ov) = Connection(old)
  BY <1>1, Zenon DEF Connection
<1> QED BY <1>2 DEF HasSMTPConnectionOverride

LEMMA AdvancedTyped ==
  ASSUME SettingsInv, NEW keys
  PROVE  /\ Advanced(keys) \in StateRow /\ state.revision < Advanced(keys).revision
         /\ keys \cap SMTPConnectionKeys # {} => ~SMTPRevisionTested(Advanced(keys))
         /\ keys \cap SMTPConnectionKeys = {} => (SMTPRevisionTested(Advanced(keys)) <=> SMTPRevisionTested(state))
<1> DEFINE changed  == keys \cap SMTPConnectionKeys # {}
           revision == state.revision + 1
           smtp     == IF changed THEN state.smtp + 1 ELSE state.smtp
           tested   == IF changed THEN 0 ELSE state.tested
           status   == IF changed THEN "UNTESTED" ELSE state.status
           push     == IF "webPushKey" \in keys THEN state.push + 1 ELSE state.push
<1>1. state \in StateRow
  BY DEF SettingsInv
<1>2. /\ state.revision \in Nat /\ state.smtp \in Nat \ {0} /\ state.tested \in Nat /\ state.push \in Nat
      /\ state.status \in {"UNTESTED", "VERIFIED", "FAILED"}
  BY <1>1 DEF StateRow
<1>3. revision \in Nat /\ state.revision < revision
  BY <1>2
<1>4. smtp \in Nat \ {0} /\ tested \in Nat
  BY <1>2
<1>5. push \in Nat
  BY <1>2
<1>6. status \in {"UNTESTED", "VERIFIED", "FAILED"}
  BY <1>2
<1>7. IF changed THEN tested # smtp ELSE (tested = smtp <=> state.tested = state.smtp)
  BY <1>2, <1>4
<1>8. Advanced(keys) = [state EXCEPT !.revision = revision, !.smtp = smtp, !.tested = tested, !.status = status,
                                     !.push = push]
  BY DEF Advanced
<1> HIDE DEF revision, smtp, tested, status, push
<1>9. /\ Advanced(keys) \in StateRow /\ Advanced(keys).revision = revision /\ Advanced(keys).smtp = smtp
      /\ Advanced(keys).tested = tested
  BY <1>1, <1>3, <1>4, <1>5, <1>6, <1>8 DEF StateRow
<1> QED BY <1>3, <1>7, <1>9 DEF SMTPRevisionTested

LEMMA SavedKeepsInv ==
  ASSUME SettingsInv, NEW keys, NEW ov, Saved(keys, ov),
         keys \cap SMTPConnectionKeys = {} =>
           Connection(ov) = Connection(overrides) /\ (HasSMTPConnectionOverride(ov) <=> HasSMTPConnectionOverride(overrides)),
         reader' = reader \/ reader' = [reader EXCEPT !["edit"] = Idle]
  PROVE  SettingsInv'
<1>1. /\ state' = Advanced(keys) /\ overrides' = ov /\ SettingsAcceptable(Advanced(keys), ov)
      /\ UNCHANGED <<passed, sent, legal, legalForm>>
  BY DEF Saved
<1>2. state' \in StateRow /\ state.revision < state'.revision /\ passed \subseteq passed'
  BY <1>1, AdvancedTyped
<1>3. GoodReaders'
  <2>1. "edit" \in Purposes
    BY DEF Purposes
  <2> QED BY <1>2, <2>1, IdleIsGood, ReadersStay
<1>4. Vetted'
  BY <1>1 DEF Vetted, SettingsAcceptable
<1>5. Tested'
  <2>1. CASE keys \cap SMTPConnectionKeys # {}
    BY <1>1, <2>1, AdvancedTyped DEF Tested
  <2>2. CASE keys \cap SMTPConnectionKeys = {}
    <3>1. SMTPRevisionTested(state') => SMTPRevisionTested(state)
      BY <1>1, <2>2, AdvancedTyped
    <3> QED BY <1>1, <2>2, <3>1 DEF SettingsInv, Tested
  <2> QED BY <2>1, <2>2
<1>6. Delivered' /\ GoodLegal'
  BY <1>1 DEF SettingsInv, Delivered, GoodLegal
<1> QED BY <1>2, <1>3, <1>4, <1>5, <1>6 DEF SettingsInv

LEMMA EditsKeepInv ==
  ASSUME SettingsInv, reader' = reader \/ reader' = [reader EXCEPT !["edit"] = Idle],
         (\E patch \in Patches : Update(patch)) \/ \E keys : Reset(keys)
  PROVE  SettingsInv'
<1>1. ASSUME NEW patch, Update(patch) PROVE SettingsInv'
  <2> DEFINE mutations == PatchMutations(patch)
             ov        == Merged(mutations, overrides)
  <2>1. Saved(DOMAIN mutations, ov)
    BY <1>1 DEF Update
  <2>2. ASSUME DOMAIN mutations \cap SMTPConnectionKeys = {}, NEW key \in SMTPConnectionKeys
        PROVE  /\ key \in DOMAIN ov <=> key \in DOMAIN overrides
               /\ key \in DOMAIN overrides => ov[key] = overrides[key]
    BY <2>2 DEF Merged
  <2> HIDE DEF mutations, ov
  <2>3. DOMAIN mutations \cap SMTPConnectionKeys = {} =>
          Connection(ov) = Connection(overrides) /\ (HasSMTPConnectionOverride(ov) <=> HasSMTPConnectionOverride(overrides))
    BY <2>2, SameConnection
  <2> QED BY <2>1, <2>3, SavedKeepsInv
<1>2. ASSUME NEW keys, Reset(keys) PROVE SettingsInv'
  <2> DEFINE removed == keys \cap DOMAIN overrides
             ov      == [key \in DOMAIN overrides \ removed |-> overrides[key]]
  <2>1. Saved(removed, ov)
    BY <1>2 DEF Reset
  <2>2. ASSUME removed \cap SMTPConnectionKeys = {}, NEW key \in SMTPConnectionKeys
        PROVE  /\ key \in DOMAIN ov <=> key \in DOMAIN overrides
               /\ key \in DOMAIN overrides => ov[key] = overrides[key]
    BY <2>2
  <2> HIDE DEF removed, ov
  <2>3. removed \cap SMTPConnectionKeys = {} =>
          Connection(ov) = Connection(overrides) /\ (HasSMTPConnectionOverride(ov) <=> HasSMTPConnectionOverride(overrides))
    BY <2>2, SameConnection
  <2> QED BY <2>1, <2>3, SavedKeepsInv
<1> QED BY <1>1, <1>2
LEMMA TestKeepsInv ==
  ASSUME SettingsInv, NEW succeeds \in BOOLEAN, TestSystemSMTP(succeeds)
  PROVE  SettingsInv'
<1>1. PICK r : r = reader["test"]
  OBVIOUS
<1>2. PICK row : row = IF r.requiresTest THEN [r EXCEPT !.phase = IF succeeds THEN "PASSED" ELSE "FAILED"] ELSE Idle
  OBVIOUS
<1>3. "test" \in Purposes
  BY DEF Purposes
<1>4. /\ r.phase = "LOADED" /\ reader' = [reader EXCEPT !["test"] = row]
      /\ passed' = IF succeeds THEN passed \cup {Connection(r.seen)} ELSE passed
      /\ UNCHANGED <<state, overrides, sent, legal, legalForm>>
  BY <1>1, <1>2 DEF TestSystemSMTP
<1>5. GoodSnapshot(r)
  BY <1>1, <1>3 DEF SettingsInv, GoodReaders
<1>6. passed \subseteq passed' /\ state' \in StateRow
  BY <1>4 DEF SettingsInv
<1>7. GoodSnapshot(r)'
  BY <1>4, <1>5, <1>6, SnapshotsStay
<1>8. GoodSnapshot(row)'
  <2>1. CASE r.requiresTest
    <3>1. /\ row.state = r.state /\ row.seen = r.seen /\ row.active = r.active
          /\ row.phase = IF succeeds THEN "PASSED" ELSE "FAILED"
          /\ row = [phase |-> row.phase, state |-> row.state, seen |-> row.seen, requiresTest |-> row.requiresTest,
                    valid |-> row.valid, active |-> row.active]
      BY <1>2, <1>4, <1>5, <2>1 DEF GoodSnapshot
    <3>2. row.phase = "PASSED" => Connection(row.seen) \in passed'
      BY <1>4, <3>1
    <3> QED BY <1>4, <1>7, <3>1, <3>2 DEF GoodSnapshot
  <2>2. CASE ~r.requiresTest
    BY <1>2, <2>2, IdleIsGood
  <2> QED BY <2>1, <2>2
<1>9. GoodReaders'
  BY <1>3, <1>4, <1>6, <1>8, ReadersStay
<1>10. Tested' /\ Vetted'
  BY <1>4, <1>6 DEF SettingsInv, Tested, Vetted
<1>11. Delivered' /\ GoodLegal'
  BY <1>4, <1>6 DEF SettingsInv, Delivered, GoodLegal
<1> QED BY <1>6, <1>9, <1>10, <1>11 DEF SettingsInv

\* What the two marks have in common.
LEMMA MarkKeepsInv ==
  ASSUME SettingsInv, state' \in StateRow, state.revision < state'.revision \/ state' = state,
         reader' = [reader EXCEPT !["test"] = Idle], UNCHANGED <<overrides, passed, sent, legal, legalForm>>,
         Tested', Vetted'
  PROVE  SettingsInv'
<1>1. "test" \in Purposes
  BY DEF Purposes
<1>2. GoodReaders'
  BY <1>1, IdleIsGood, ReadersStay
<1>3. Delivered' /\ GoodLegal'
  BY DEF SettingsInv, Delivered, GoodLegal
<1> QED BY <1>2, <1>3 DEF SettingsInv

LEMMA MarkTestedKeepsInv ==
  ASSUME SettingsInv, MarkSMTPTested
  PROVE  SettingsInv'
<1> DEFINE r == reader["test"]
<1>1. /\ r.phase = "PASSED" /\ reader' = [reader EXCEPT !["test"] = Idle]
      /\ UNCHANGED <<overrides, passed, sent, legal, legalForm>>
      /\ state' = IF TestStillCurrent(r)
           THEN [state EXCEPT !.revision = @ + 1, !.tested = state.smtp, !.status = "VERIFIED"] ELSE state
  BY DEF MarkSMTPTested
<1>2. CASE TestStillCurrent(r)
  <2>1. state \in StateRow /\ state.revision \in Nat /\ state.smtp \in Nat
    BY DEF SettingsInv, StateRow
  <2> DEFINE revision == state.revision + 1
  <2>2. state' = [state EXCEPT !.revision = revision, !.tested = state.smtp, !.status = "VERIFIED"] /\ revision \in Nat
    BY <1>1, <1>2, <2>1
  <2>3. state.revision < revision
    BY <2>1
  <2> HIDE DEF revision
  <2>4. state' \in StateRow /\ state'.revision = revision /\ state'.tested = state'.smtp
    BY <2>1, <2>2 DEF StateRow
  <2>5. GoodSnapshot(r)
    BY DEF SettingsInv, GoodReaders, Purposes
  <2>6. Connection(overrides) \in passed
    BY <1>1, <1>2, <2>5 DEF GoodSnapshot, TestStillCurrent
  <2>7. Tested' /\ Vetted'
    BY <1>1, <2>4, <2>6 DEF Tested, Vetted, SMTPRevisionTested
  <2>8. state.revision < state'.revision
    BY <2>4, <2>3
  <2> QED BY <1>1, <2>4, <2>7, <2>8, MarkKeepsInv
<1>3. CASE ~TestStillCurrent(r)
  <2>1. state' = state
    BY <1>1, <1>3
  <2>2. Tested' /\ Vetted' /\ state' \in StateRow
    BY <1>1, <2>1 DEF SettingsInv, Tested, Vetted
  <2> QED BY <1>1, <2>1, <2>2, MarkKeepsInv
<1> QED BY <1>2, <1>3

LEMMA MarkFailedKeepsInv ==
  ASSUME SettingsInv, MarkSMTPTestFailed
  PROVE  SettingsInv'
<1> DEFINE r == reader["test"]
<1>1. /\ reader' = [reader EXCEPT !["test"] = Idle]
      /\ UNCHANGED <<overrides, passed, sent, legal, legalForm>>
      /\ state' = IF TestStillCurrent(r) THEN [state EXCEPT !.revision = @ + 1, !.status = "FAILED"] ELSE state
  BY DEF MarkSMTPTestFailed
<1>2. state \in StateRow /\ state.revision \in Nat
  BY DEF SettingsInv, StateRow
<1> DEFINE revision == state.revision + 1
<1>3. revision \in Nat /\ state.revision < revision
  BY <1>2
<1>4. state' = state \/ state' = [state EXCEPT !.revision = revision, !.status = "FAILED"]
  BY <1>1
<1> HIDE DEF revision
<1>5. state' \in StateRow /\ state'.tested = state.tested /\ state'.smtp = state.smtp
  BY <1>2, <1>3, <1>4 DEF StateRow
<1>6. state' = state \/ state.revision < state'.revision
  BY <1>2, <1>3, <1>4 DEF StateRow
<1>7. Tested' /\ Vetted'
  BY <1>1, <1>5 DEF SettingsInv, Tested, Vetted, SMTPRevisionTested
<1> QED BY <1>1, <1>5, <1>6, <1>7, MarkKeepsInv

LEMMA DeliverKeepsInv ==
  ASSUME SettingsInv, DeliverWith
  PROVE  SettingsInv'
<1> DEFINE r == reader["delivery"]
<1>1. /\ r.phase = "LOADED" /\ r.active /\ sent' = Connection(r.seen)
      /\ reader' = [reader EXCEPT !["delivery"] = Idle]
      /\ UNCHANGED <<state, overrides, passed, legal, legalForm>>
  BY DEF DeliverWith
<1>2. "delivery" \in Purposes
  BY DEF Purposes
<1>3. GoodSnapshot(r)
  BY <1>2 DEF SettingsInv, GoodReaders
<1>4. HasSMTPConnectionOverride(r.seen) => Connection(r.seen) \in passed
  BY <1>1, <1>3 DEF GoodSnapshot
<1>5. ~HasSMTPConnectionOverride(r.seen) => Connection(r.seen) = Connection(<<>>)
  BY HostConnection
<1>6. Delivered'
  BY <1>1, <1>4, <1>5 DEF Delivered
<1>7. state' \in StateRow /\ passed \subseteq passed'
  BY <1>1 DEF SettingsInv
<1>8. GoodReaders'
  BY <1>1, <1>2, <1>7, IdleIsGood, ReadersStay
<1>9. Tested' /\ Vetted' /\ GoodLegal'
  BY <1>1 DEF SettingsInv, Tested, Vetted, GoodLegal
<1> QED BY <1>6, <1>7, <1>8, <1>9 DEF SettingsInv

LEMMA RestartKeepsInv ==
  ASSUME SettingsInv, NEW key, RestartWith(key)
  PROVE  SettingsInv'
<1>1. reader' = [p \in Purposes |-> Idle] /\ legalForm' = Idle /\ UNCHANGED <<state, overrides, passed, sent, legal>>
  BY DEF RestartWith
<1>2. GoodReaders'
  <2>1. reader' = [p \in Purposes |-> reader'[p]] /\ \A p \in Purposes : reader'[p] = Idle
    BY <1>1
  <2> QED BY <2>1, IdleIsGood DEF GoodReaders
<1>3. Tested' /\ Vetted' /\ Delivered'
  BY <1>1 DEF SettingsInv, Tested, Vetted, Delivered
<1>4. GoodLegal'
  BY <1>1 DEF SettingsInv, GoodLegal, Idle
<1> QED BY <1>1, <1>2, <1>3, <1>4 DEF SettingsInv

LEMMA LegalKeepsInv ==
  ASSUME SettingsInv, LegalStep
  PROVE  SettingsInv'
<1>1. UNCHANGED <<state, overrides, reader, passed, sent>>
  BY DEF LegalStep, ReadLegalDocumentState, LoadLegalDocuments, ResetLegalDocuments, UpdateLegalDocuments,
         ReplaceLegalDocuments
<1>2. GoodLegal
  BY DEF SettingsInv
<1>3. GoodLegal'
  <2>1. CASE ReadLegalDocumentState
    BY <1>2, <2>1 DEF ReadLegalDocumentState, GoodLegal
  <2>2. CASE LoadLegalDocuments
    BY <1>2, <2>2 DEF LoadLegalDocuments, GoodLegal
  <2>3. CASE ResetLegalDocuments
    BY <1>2, <2>3 DEF ResetLegalDocuments, GoodLegal, Idle
  <2>4. ASSUME NEW text, UpdateLegalDocuments(text) PROVE GoodLegal'
    BY <1>2, <2>4 DEF UpdateLegalDocuments, GoodLegal, Idle
  <2>5. ASSUME NEW text, ReplaceLegalDocuments(text) PROVE GoodLegal'
    BY <1>2, <2>5 DEF ReplaceLegalDocuments, GoodLegal
  <2> QED BY <2>1, <2>2, <2>3, <2>4, <2>5 DEF LegalStep
<1>4. state' \in StateRow /\ Tested' /\ Vetted' /\ Delivered'
  BY <1>1 DEF SettingsInv, Tested, Vetted, Delivered
<1>5. GoodReaders'
  BY <1>1, <1>4, ReadersStay
<1> QED BY <1>3, <1>4, <1>5 DEF SettingsInv

LEMMA SettingsInvInit ==
  ASSUME SettingsInit
  PROVE  SettingsInv
<1>1. state \in StateRow /\ ~SMTPRevisionTested(state)
  BY DEF SettingsInit, StateRow, SMTPRevisionTested
<1>2. ~HasSMTPConnectionOverride(overrides)
  BY DEF SettingsInit, HasSMTPConnectionOverride
<1>3. Tested /\ Vetted /\ Delivered
  BY <1>1, <1>2 DEF SettingsInit, Tested, Vetted, Delivered
<1>4. GoodReaders
  <2>1. reader = [p \in Purposes |-> reader[p]] /\ \A p \in Purposes : reader[p] = Idle
    BY DEF SettingsInit
  <2> QED BY <2>1, IdleIsGood DEF GoodReaders
<1>5. GoodLegal
  BY DEF SettingsInit, GoodLegal, Idle
<1> QED BY <1>1, <1>3, <1>4, <1>5 DEF SettingsInv

LEMMA SettingsInvStep ==
  ASSUME SettingsInv, [SettingsStep \/ LegalStep]_settingVars
  PROVE  SettingsInv'
<1>1. CASE UNCHANGED settingVars
  <2>1. UNCHANGED <<state, overrides, reader, passed, sent, legal, legalForm>>
    BY <1>1 DEF settingVars
  <2>2. state' \in StateRow /\ Tested' /\ Vetted' /\ Delivered' /\ GoodLegal'
    BY <2>1 DEF SettingsInv, Tested, Vetted, Delivered, GoodLegal
  <2>3. GoodReaders'
    BY <2>1, <2>2, ReadersStay
  <2> QED BY <2>2, <2>3 DEF SettingsInv
<1>2. CASE LegalStep
  BY <1>2, LegalKeepsInv
<1>3. CASE SettingsStep
  <2>1. ASSUME NEW p \in Purposes, ReadSettingsState(p) \/ ReadOverrides(p) \/ Forget(p) PROVE SettingsInv'
    BY <2>1, ReadStateKeepsInv, ReadOverridesKeepsInv, ForgetKeepsInv
  <2>2. ASSUME NEW patch \in Patches,
               UpdateSettings(patch) \/ SystemSettingsCommand(patch) \/ SystemSMTPCommand(patch) \/ SystemWebPushCommand(patch)
        PROVE  SettingsInv'
    <3>1. Update(patch) /\ (reader' = reader \/ reader' = [reader EXCEPT !["edit"] = Idle])
      BY <2>2 DEF UpdateSettings, RevisionOnScreen, SystemSettingsCommand, SystemSMTPCommand, SystemWebPushCommand
    <3> QED BY <3>1, EditsKeepInv
  <2>3. ASSUME NEW keys, ResetSettings(keys) \/ SystemResetCommand(keys) PROVE SettingsInv'
    <3>1. Reset(keys) /\ (reader' = reader \/ reader' = [reader EXCEPT !["edit"] = Idle])
      BY <2>3 DEF ResetSettings, RevisionOnScreen, SystemResetCommand
    <3> QED BY <3>1, EditsKeepInv
  <2>4. ASSUME NEW succeeds \in BOOLEAN, TestSystemSMTP(succeeds) PROVE SettingsInv'
    BY <2>4, TestKeepsInv
  <2>5. CASE MarkSMTPTested \/ MarkSMTPTestFailed \/ DeliverWith
    BY <2>5, MarkTestedKeepsInv, MarkFailedKeepsInv, DeliverKeepsInv
  <2>6. ASSUME NEW key \in BOOLEAN, RestartWith(key) PROVE SettingsInv'
    BY <2>6, RestartKeepsInv
  <2> QED BY <1>3, <2>1, <2>2, <2>3, <2>4, <2>5, <2>6, Zenon DEF SettingsStep
<1> QED BY <1>1, <1>2, <1>3

\* The inductive invariant of the settings (systemsettings.Store and Service,
\* legaldocuments): whatever is enabled was tested, and snapshots of the
\* current revision hold the stored values.
THEOREM SettingsFit == SettingsSpec => []SettingsInv
<1>1. SettingsInit => SettingsInv
  BY SettingsInvInit
<1>2. SettingsInv /\ [SettingsStep \/ LegalStep]_settingVars => SettingsInv'
  BY SettingsInvStep
<1> QED BY <1>1, <1>2, PTL DEF SettingsSpec

\* A connection counts as tested only if a test with exactly it succeeded, a
\* message leaves only by such a connection or the host's own, and a current
\* revision means current values, although loadSettings reads the state and
\* the overrides in two queries and the test happens outside of any transaction.
THEOREM TestedAndSeen == SettingsSpec => []SettingsAsTestedAndSeen
<1>1. SettingsInv => SettingsAsTestedAndSeen
  BY SettingsInvImplies
<1> QED BY <1>1, SettingsFit, PTL

-----------------------------------------------------------------------------
(***************************************************************************)
(* Groups and files.  A reference is safe because the upload that will     *)
(* make it holds the mutex of its store from the file to the row (Uploads) *)
(* and because the collector looks for references of every owner that a    *)
(* key of its store may have (GoodReference).  A failed upload removes its *)
(* file only when it has created it, and then nobody else refers to it.    *)
(* An operator's process knows no mutex, but what is being uploaded while  *)
(* it runs is exposed; any other content that it has found unreferenced    *)
(* stays so until it is removed (GoodCollector).                           *)
(***************************************************************************)
GoodReference(r) ==
  /\ r.key \in files \/ r.key \in exposed
  /\ r.owner \in Owners(StoreOf(r.key))
  /\ r.group \in Groups \cup {NoGroup}
  /\ r.owner = "avatar" => r.group = NoGroup
  /\ \A g \in Groups : r.group = g => group[g].status # "PURGED"

GoodUpload(s) ==
  upload[s] # NoUpload =>
    /\ upload[s].key \in files \/ upload[s].key \in exposed
    /\ operator.running => upload[s].key \in exposed
    /\ StoreOf(upload[s].key) = s /\ upload[s].owner \in Owners(s)
    /\ upload[s].group \in Groups \cup {NoGroup}
    /\ upload[s].owner = "avatar" => upload[s].group = NoGroup
    /\ upload[s].created /\ upload[s].key \notin exposed => \A r \in references : r.key # upload[s].key

Uploads == upload = [s \in Stores |-> upload[s]] /\ \A s \in Stores : GoodUpload(s)

GoodCollector ==
  /\ operator = [running |-> operator.running, key |-> operator.key]
  /\ operator.key # NoKey => operator.running
  /\ operator.key # NoKey /\ operator.key \notin exposed => \A r \in references : r.key # operator.key

GroupRow ==
  [status : {"NONE", "PROVISIONING", "ACTIVE", "ARCHIVED", "PURGED"}, from : {"NONE", "PROVISIONING", "ACTIVE"},
   version : Nat, administered : BOOLEAN, link : BOOLEAN, registered : BOOLEAN, invited : BOOLEAN, mail : BOOLEAN,
   notices : BOOLEAN]

\* An archived group comes back with its administrator.
GoodGroup(row) ==
  /\ row \in GroupRow
  /\ row.status \in {"NONE", "ARCHIVED", "PURGED"} =>
       ~(row.link \/ row.registered \/ row.invited \/ row.mail \/ row.notices)
  /\ row.status = "ACTIVE" \/ (row.status = "ARCHIVED" /\ row.from = "ACTIVE") => row.administered

GroupRows ==
  /\ group = [g \in Groups |-> group[g]] /\ \A g \in Groups : GoodGroup(group[g])
  /\ draft \in {"NONE", "ACTIVE", "PROVISIONING"} /\ founded \in BOOLEAN

GroupsInv == GroupRows /\ Uploads /\ GoodCollector /\ \A r \in references : GoodReference(r)

LEMMA GroupsInvImplies ==
  ASSUME GroupsInv
  PROVE  GroupsAndFilesConsistent
<1>1. \A r \in references : r.key \in files \/ r.key \in exposed
  BY DEF GroupsInv, GoodReference
<1>2. \A r \in references, g \in Groups : r.group = g => group[g].status # "PURGED"
  BY DEF GroupsInv, GoodReference
<1>3. \A g \in Groups : GoodGroup(group[g])
  BY DEF GroupsInv, GroupRows
<1> QED BY <1>1, <1>2, <1>3 DEF GroupsAndFilesConsistent, GoodGroup

LEMMA GroupsInvInit ==
  ASSUME LifecycleInit
  PROVE  GroupsInv
<1>1. GoodGroup(Absent)
  BY DEF Absent, Row, GroupRow, GoodGroup
<1>2. \A g \in Groups : GoodGroup(group[g])
  BY <1>1 DEF LifecycleInit
<1>3. GroupRows
  BY <1>2 DEF LifecycleInit, GroupRows
<1>4. Uploads /\ references = {}
  BY DEF LifecycleInit, FilesInit, Uploads, GoodUpload
<1>5. GoodCollector
  BY DEF LifecycleInit, FilesInit, NoCollector, GoodCollector
<1> QED BY <1>3, <1>4, <1>5 DEF GroupsInv

\* One row of groups changes.
LEMMA GroupChanged ==
  ASSUME GroupsInv, NEW g \in Groups, UNCHANGED <<files, references, upload, operator, exposed>>,
         draft' \in {"NONE", "ACTIVE", "PROVISIONING"}, founded' \in BOOLEAN,
         group' = [h \in Groups |-> group'[h]], \A h \in Groups : h # g => group'[h] = group[h],
         GoodGroup(group'[g]), group'[g].status # "PURGED"
  PROVE  GroupsInv'
<1>1. \A h \in Groups : GoodGroup(group'[h])
  BY DEF GroupsInv, GroupRows
<1>2. GroupRows'
  BY <1>1 DEF GroupRows, GoodGroup
<1>3. Uploads'
  BY DEF GroupsInv, Uploads, GoodUpload
<1>4. \A r \in references' : GoodReference(r)'
  <2> SUFFICES ASSUME NEW r \in references PROVE GoodReference(r)'
    OBVIOUS
  <2>1. GoodReference(r)
    BY DEF GroupsInv
  <2> QED BY <2>1 DEF GoodReference
<1>5. GoodCollector'
  BY DEF GroupsInv, GoodCollector
<1> QED BY <1>2, <1>3, <1>4, <1>5 DEF GroupsInv

\* The rows of groups, the files and what refers to them stay.
LEMMA GroupsStay ==
  ASSUME GroupsInv, UNCHANGED <<group, files, references, upload, operator, exposed>>,
         draft' \in {"NONE", "ACTIVE", "PROVISIONING"}, founded' \in BOOLEAN
  PROVE  GroupsInv'
<1>1. GroupRows'
  BY DEF GroupsInv, GroupRows
<1>2. Uploads'
  BY DEF GroupsInv, Uploads, GoodUpload
<1>3. \A r \in references' : GoodReference(r)'
  BY DEF GroupsInv, GoodReference
<1>4. GoodCollector'
  BY DEF GroupsInv, GoodCollector
<1> QED BY <1>1, <1>2, <1>3, <1>4 DEF GroupsInv

LEMMA CreateGroupKeepsInv ==
  ASSUME GroupsInv, NEW g \in Groups, NEW mail \in BOOLEAN, CreateGroup(g, mail) \/ Create(g)
  PROVE  GroupsInv'
<1>1. /\ UNCHANGED <<files, references, upload, operator, exposed>> /\ founded' = founded
      /\ draft' \in {"NONE", "ACTIVE", "PROVISIONING"} /\ founded \in BOOLEAN
      /\ draft \in {"NONE", "ACTIVE", "PROVISIONING"}
  BY DEF CreateGroup, Create, fileVars, operatorVars, GroupsInv, GroupRows
<1>2. CASE group' = group
  BY <1>1, <1>2, GroupsStay
<1>3. ASSUME NEW row, group' = [group EXCEPT ![g] = row], GoodGroup(row), row.status # "PURGED"
      PROVE  GroupsInv'
  <2>1. group' = [h \in Groups |-> group'[h]] /\ group'[g] = row /\ \A h \in Groups : h # g => group'[h] = group[h]
    BY <1>3 DEF GroupsInv, GroupRows
  <2> QED BY <1>1, <1>3, <2>1, GroupChanged
<1>4. ASSUME NEW status \in {"ACTIVE", "PROVISIONING"}, NEW invited \in BOOLEAN, NEW pending \in BOOLEAN
      PROVE  GoodGroup([Row(status) EXCEPT !.invited = invited, !.mail = pending]) /\ GoodGroup(Row(status))
  BY DEF GoodGroup, GroupRow, Row
<1>5. CASE CreateGroup(g, mail)
  <2>1. CASE draft = "PROVISIONING" /\ founded
    BY <1>2, <1>5, <2>1 DEF CreateGroup
  <2>2. CASE ~(draft = "PROVISIONING" /\ founded)
    <3> DEFINE row == [Row(draft) EXCEPT !.invited = ~founded, !.mail = mail /\ ~founded]
    <3>1. group' = [group EXCEPT ![g] = row]
      BY <1>5, <2>2 DEF CreateGroup
    <3>2. draft \in {"ACTIVE", "PROVISIONING"} /\ (~founded) \in BOOLEAN /\ (mail /\ ~founded) \in BOOLEAN
      BY <1>1, <1>5 DEF CreateGroup
    <3>3. GoodGroup(row)
      BY <1>4, <3>2
    <3>4. row.status # "PURGED"
      BY <3>2 DEF Row
    <3> QED BY <1>3, <3>1, <3>3, <3>4
  <2> QED BY <2>1, <2>2
<1>6. CASE Create(g)
  <2>1. group' = [group EXCEPT ![g] = Row("ACTIVE")]
    BY <1>6 DEF Create
  <2>2. Row("ACTIVE").status # "PURGED"
    BY DEF Row
  <2> QED BY <1>3, <1>4, <2>1, <2>2
<1> QED BY <1>5, <1>6
LEMMA GroupRowChanged ==
  ASSUME GroupsInv, NEW g \in Groups, NEW row,
         UNCHANGED <<files, references, upload, operator, exposed, draft>>, founded' \in BOOLEAN,
         group' = [group EXCEPT ![g] = row], GoodGroup(row), row.status # "PURGED"
  PROVE  GroupsInv'
<1>1. group' = [h \in Groups |-> group'[h]] /\ group'[g] = row /\ \A h \in Groups : h # g => group'[h] = group[h]
  BY DEF GroupsInv, GroupRows
<1>2. draft' \in {"NONE", "ACTIVE", "PROVISIONING"}
  BY DEF GroupsInv, GroupRows
<1> QED BY <1>1, <1>2, GroupChanged

LEMMA GroupRowTyped ==
  ASSUME GroupsInv, NEW g \in Groups
  PROVE  GoodGroup(group[g]) /\ group[g] \in GroupRow /\ group[g].version \in Nat /\ group[g].version + 1 \in Nat
<1>1. GoodGroup(group[g])
  BY DEF GroupsInv, GroupRows
<1>2. group[g].version \in Nat
  BY <1>1 DEF GroupRow, GoodGroup
<1>3. group[g].version + 1 \in Nat
  BY <1>2
<1> QED BY <1>1, <1>2, <1>3 DEF GoodGroup

LEMMA InvitationsKeepInv ==
  ASSUME GroupsInv, NEW g \in Groups, NEW mail \in BOOLEAN,
         ResendProvisioningInvitation(g, mail) \/ AcceptInvitationToGroup(g)
  PROVE  GroupsInv'
<1>1. PICK r : r = group[g]
  OBVIOUS
<1> DEFINE next == r.version + 1
<1>2. group = [h \in Groups |-> group[h]] /\ founded \in BOOLEAN
  BY DEF GroupsInv, GroupRows
<1>3. next \in Nat /\ GoodGroup(r) /\ r \in GroupRow
  BY <1>1, GroupRowTyped
<1>4. CASE ResendProvisioningInvitation(g, mail)
  <2> DEFINE row == [r EXCEPT !.invited = TRUE, !.mail = mail, !.version = next]
  <2>1. /\ UNCHANGED <<files, references, upload, operator, exposed, draft, founded>> /\ r.status = "PROVISIONING"
        /\ group' = [group EXCEPT ![g].invited = TRUE, ![g].mail = mail, ![g].version = next]
    BY <1>1, <1>4 DEF ResendProvisioningInvitation, fileVars, operatorVars
  <2> HIDE DEF next
  <2>2. group' = [group EXCEPT ![g] = row]
    BY <1>1, <1>2, <1>3, <2>1 DEF GroupRow
  <2>3. GoodGroup(row) /\ row.status = "PROVISIONING"
    BY <1>3, <2>1 DEF GoodGroup, GroupRow
  <2> HIDE DEF row
  <2> QED BY <1>2, <2>1, <2>2, <2>3, GroupRowChanged
<1>5. CASE AcceptInvitationToGroup(g)
  <2> DEFINE activates == r.status = "PROVISIONING"
             version == IF activates THEN next ELSE r.version
             administered == r.administered \/ activates
             row == [r EXCEPT !.invited = FALSE, !.mail = FALSE, !.status = "ACTIVE", !.administered = administered,
                              !.version = version]
  <2>1. /\ UNCHANGED <<files, references, upload, operator, exposed, draft>> /\ founded' = TRUE
        /\ r.status \in {"ACTIVE", "PROVISIONING"}
        /\ group' = [group EXCEPT ![g].invited = FALSE, ![g].mail = FALSE, ![g].status = "ACTIVE",
                       ![g].administered = administered, ![g].version = version]
    BY <1>1, <1>5 DEF AcceptInvitationToGroup, fileVars, operatorVars
  <2>2. version \in Nat /\ administered \in BOOLEAN /\ administered
    BY <1>3, <2>1 DEF GroupRow, GoodGroup
  <2> HIDE DEF version, administered
  <2>3. group' = [group EXCEPT ![g] = row]
    BY <1>1, <1>2, <1>3, <2>1 DEF GroupRow
  <2>4. GoodGroup(row) /\ row.status = "ACTIVE"
    BY <1>3, <2>2 DEF GoodGroup, GroupRow
  <2> HIDE DEF row
  <2> QED BY <2>1, <2>3, <2>4, GroupRowChanged
<1> QED BY <1>4, <1>5
LEMMA PathsKeepInv ==
  ASSUME GroupsInv, NEW g \in Groups, NEW path \in {"link", "registration", "invitation", "notice"},
         OpenPath(g, path) \/ DeliverMail(g)
  PROVE  GroupsInv'
<1>1. PICK r : r = group[g]
  OBVIOUS
<1>2. group = [h \in Groups |-> group[h]] /\ founded \in BOOLEAN
  BY DEF GroupsInv, GroupRows
<1>3. GoodGroup(r) /\ r \in GroupRow
  BY <1>1, GroupRowTyped
<1>4. UNCHANGED <<files, references, upload, operator, exposed, draft, founded>>
  BY DEF OpenPath, DeliverMail, fileVars, operatorVars
<1>5. CASE OpenPath(g, path)
  <2> DEFINE row == CASE path = "link"         -> [r EXCEPT !.link = TRUE]
                      [] path = "registration" -> [r EXCEPT !.registered = r.registered \/ r.link]
                      [] path = "invitation"   -> [r EXCEPT !.invited = TRUE, !.mail = TRUE]
                      [] path = "notice"       -> [r EXCEPT !.notices = TRUE]
  <2>1. r.status = "ACTIVE" /\ group' = [group EXCEPT ![g] = row]
    BY <1>1, <1>2, <1>5 DEF OpenPath
  <2>2. GoodGroup(row) /\ row.status = "ACTIVE"
    BY <1>3, <2>1 DEF GoodGroup, GroupRow
  <2> HIDE DEF row
  <2> QED BY <1>2, <1>4, <2>1, <2>2, GroupRowChanged
<1>6. CASE DeliverMail(g)
  <2> DEFINE row == [r EXCEPT !.mail = FALSE, !.notices = FALSE]
  <2>1. (r.mail \/ r.notices) /\ group' = [group EXCEPT ![g].mail = FALSE, ![g].notices = FALSE]
    BY <1>1, <1>6 DEF DeliverMail
  <2>2. group' = [group EXCEPT ![g] = row]
    BY <1>1, <1>2, <1>3, <2>1 DEF GroupRow
  <2>3. GoodGroup(row) /\ row.status # "PURGED"
    BY <1>3, <2>1 DEF GoodGroup, GroupRow
  <2> HIDE DEF row
  <2> QED BY <1>2, <1>4, <2>2, <2>3, GroupRowChanged
<1> QED BY <1>5, <1>6

LEMMA ArchiveKeepsInv ==
  ASSUME GroupsInv, NEW g \in Groups, ArchiveGroup(g) \/ RestoreGroup(g)
  PROVE  GroupsInv'
<1>1. PICK r : r = group[g]
  OBVIOUS
<1> DEFINE next == r.version + 1
<1>2. group = [h \in Groups |-> group[h]] /\ founded \in BOOLEAN
  BY DEF GroupsInv, GroupRows
<1>3. next \in Nat /\ GoodGroup(r) /\ r \in GroupRow
  BY <1>1, GroupRowTyped
<1>4. UNCHANGED <<files, references, upload, operator, exposed, draft, founded>>
  BY DEF ArchiveGroup, RestoreGroup, fileVars, operatorVars
<1>5. CASE ArchiveGroup(g)
  <2> DEFINE row == [ClosedPaths(r) EXCEPT !.status = "ARCHIVED", !.from = r.status, !.version = next]
  <2>1. ClosedPaths(r).version = r.version
    BY <1>3 DEF ClosedPaths, GroupRow
  <2>2. /\ r.status \in {"ACTIVE", "PROVISIONING"}
        /\ group' = [group EXCEPT ![g] =
             [ClosedPaths(r) EXCEPT !.status = "ARCHIVED", !.from = r.status, !.version = ClosedPaths(r).version + 1]]
    BY <1>1, <1>2, <1>5 DEF ArchiveGroup
  <2>3. group' = [group EXCEPT ![g] = row]
    BY <2>1, <2>2
  <2> HIDE DEF next
  <2>4. GoodGroup(row) /\ row.status # "PURGED"
    BY <1>3, <2>2 DEF GoodGroup, GroupRow, ClosedPaths
  <2> HIDE DEF row
  <2> QED BY <1>2, <1>4, <2>3, <2>4, GroupRowChanged
<1>6. CASE RestoreGroup(g)
  <2> DEFINE row == [r EXCEPT !.status = r.from, !.from = "NONE", !.version = next]
  <2>1. /\ r.status = "ARCHIVED" /\ r.from \in {"ACTIVE", "PROVISIONING"}
        /\ group' = [group EXCEPT ![g].status = r.from, ![g].from = "NONE", ![g].version = next]
    BY <1>1, <1>6 DEF RestoreGroup
  <2> HIDE DEF next
  <2>2. group' = [group EXCEPT ![g] = row]
    BY <1>1, <1>2, <1>3, <2>1 DEF GroupRow
  <2>3. GoodGroup(row) /\ row.status # "PURGED"
    BY <1>3, <2>1 DEF GoodGroup, GroupRow
  <2> HIDE DEF row
  <2> QED BY <1>2, <1>4, <2>2, <2>3, GroupRowChanged
<1> QED BY <1>5, <1>6

\* The purged group loses its references; accounts keep their avatars.  What is
\* being uploaded is exposed from the start of an operator's process on.
LEMMA PurgeKeepsInv ==
  ASSUME GroupsInv, NEW g \in Groups, NEW locally \in BOOLEAN, PurgeGroup(g, locally)
  PROVE  GroupsInv'
<1> DEFINE row == [Absent EXCEPT !.status = "PURGED"]
<1>1. /\ group' = [group EXCEPT ![g] = row] /\ UNCHANGED <<files, upload, draft, founded>>
      /\ references' = references \ {r \in references : r.group = g /\ r.owner # "avatar"}
      /\ OperatorStarts \/ UNCHANGED <<operator, exposed>>
  BY DEF PurgeGroup, ScheduleDeletion, operatorVars
<1>2. GoodGroup(row)
  BY DEF GoodGroup, GroupRow, Absent, Row
<1> HIDE DEF row
<1>3. /\ group' = [h \in Groups |-> group'[h]] /\ \A h \in Groups : h # g => group'[h] = group[h]
      /\ \A h \in Groups : GoodGroup(group'[h])
  BY <1>1, <1>2 DEF GroupsInv, GroupRows
<1>4. GroupRows'
  BY <1>1, <1>3 DEF GroupsInv, GroupRows, GoodGroup
<1>5. exposed \subseteq exposed' /\ references' \subseteq references
  BY <1>1 DEF OperatorStarts
<1>6. ASSUME NEW s \in Stores PROVE GoodUpload(s)'
  <2>1. upload[s] # NoUpload /\ operator'.running => upload[s].key \in exposed'
    <3>1. CASE OperatorStarts
      BY <3>1 DEF OperatorStarts, Unlocked
    <3>2. CASE UNCHANGED <<operator, exposed>>
      BY <3>2 DEF GroupsInv, Uploads, GoodUpload
    <3> QED BY <1>1, <3>1, <3>2
  <2> QED BY <1>1, <1>5, <2>1 DEF GroupsInv, Uploads, GoodUpload
<1>7. Uploads'
  BY <1>1, <1>6 DEF GroupsInv, Uploads
<1>8. GoodCollector'
  <2>1. CASE OperatorStarts
    BY <2>1 DEF OperatorStarts, GoodCollector
  <2>2. CASE UNCHANGED <<operator, exposed>>
    BY <1>5, <2>2 DEF GroupsInv, GoodCollector
  <2> QED BY <1>1, <2>1, <2>2
<1>9. ASSUME NEW r \in references' PROVE GoodReference(r)'
  <2>1. GoodReference(r) /\ ~(r.group = g /\ r.owner # "avatar")
    BY <1>1, <1>9 DEF GroupsInv
  <2>2. r.group # g
    BY <2>1, LifecycleAssumption DEF GoodReference
  <2> QED BY <1>1, <1>3, <1>5, <2>1, <2>2 DEF GoodReference
<1> QED BY <1>4, <1>7, <1>8, <1>9 DEF GroupsInv
-----------------------------------------------------------------------------
\* What every step on files shares: the groups stay.
LEMMA FilesChanged ==
  ASSUME GroupsInv, UNCHANGED <<group, founded, draft>>, Uploads', GoodCollector', \A r \in references' : GoodReference(r)'
  PROVE  GroupsInv'
<1>1. GroupRows'
  BY DEF GroupsInv, GroupRows
<1> QED BY <1>1 DEF GroupsInv

\* Fewer references and more exposed contents leave a collector as good.
LEMMA CollectorStays ==
  ASSUME GroupsInv, operator' = operator, exposed \subseteq exposed', references' \subseteq references
  PROVE  GoodCollector'
BY DEF GroupsInv, GoodCollector

\* Files are added; an upload may begin.
LEMMA FilesAdded ==
  ASSUME GroupsInv, UNCHANGED <<group, founded, draft, references, operator>>, files \subseteq files',
         exposed \subseteq exposed',
         \/ upload' = upload
         \/ \E s \in Stores : \E row : upload' = [upload EXCEPT ![s] = row] /\
              /\ row.key \in files' /\ StoreOf(row.key) = s /\ row.owner \in Owners(s)
              /\ row.group \in Groups \cup {NoGroup}
              /\ row.owner = "avatar" => row.group = NoGroup
              /\ row.created => row.key \notin files
              /\ operator.running => row.key \in exposed'
  PROVE  GroupsInv'
<1>1. \A r \in references : (r.key \in files \/ r.key \in exposed) /\ GoodReference(r)
  BY DEF GroupsInv, GoodReference
<1>2. \A r \in references' : GoodReference(r)'
  BY <1>1 DEF GoodReference
<1>3. upload = [s \in Stores |-> upload[s]] /\ \A s \in Stores : GoodUpload(s)
  BY DEF GroupsInv, Uploads
<1>4. GoodCollector'
  BY CollectorStays
<1>5. CASE upload' = upload
  <2>1. Uploads'
    BY <1>3, <1>5 DEF Uploads, GoodUpload
  <2> QED BY <1>2, <1>4, <2>1, FilesChanged
<1>6. ASSUME NEW s \in Stores, NEW row, upload' = [upload EXCEPT ![s] = row],
             row.key \in files' /\ StoreOf(row.key) = s /\ row.owner \in Owners(s),
             row.group \in Groups \cup {NoGroup}, row.owner = "avatar" => row.group = NoGroup,
             row.created => row.key \notin files, operator.running => row.key \in exposed'
      PROVE  GroupsInv'
  <2>1. upload' = [t \in Stores |-> upload'[t]] /\ upload'[s] = row /\ \A t \in Stores : t # s => upload'[t] = upload[t]
    BY <1>3, <1>6
  <2>2. ASSUME NEW t \in Stores PROVE GoodUpload(t)'
    <3>1. CASE t = s
      BY <1>1, <1>6, <2>1, <3>1 DEF GoodUpload
    <3>2. CASE t # s
      BY <1>3, <2>1, <3>2 DEF GoodUpload
    <3> QED BY <3>1, <3>2
  <2>3. Uploads'
    BY <2>1, <2>2 DEF Uploads
  <2> QED BY <1>2, <1>4, <2>3, FilesChanged
<1> QED BY <1>5, <1>6

LEMMA SavesKeepInv ==
  ASSUME GroupsInv, UNCHANGED <<group, founded, draft>>, NEW key, NEW g \in Groups,
         \/ \E o \in Owners("images") : SaveImage(key, o, IF o = "avatar" THEN NoGroup ELSE g)
         \/ \E o \in Owners("attachments") : SaveReceipt(key, o, g)
         \/ ImageVariantsFail(key) \/ EnsureImageVariant(key)
  PROVE  GroupsInv'
<1>1. "images" \in Stores /\ "attachments" \in Stores
  BY DEF Stores
<1>2. ASSUME NEW o \in Owners("images"), SaveImage(key, o, IF o = "avatar" THEN NoGroup ELSE g)
      PROVE  GroupsInv'
  <2> DEFINE into == IF o = "avatar" THEN NoGroup ELSE g
             row  == [key |-> key, created |-> key \notin files, owner |-> o, group |-> into]
  <2>1. /\ upload' = [upload EXCEPT !["images"] = row] /\ files' = files \cup {key} /\ references' = references
        /\ operator' = operator /\ exposed \subseteq exposed' /\ (operator.running => key \in exposed')
    BY <1>2 DEF SaveImage, Overlapped
  <2>2. StoreOf(key) = "images"
    BY <1>2 DEF SaveImage, StoreOf
  <2>3. /\ row.key = key /\ row.owner = o /\ row.group \in Groups \cup {NoGroup}
        /\ row.owner = "avatar" => row.group = NoGroup
        /\ row.created => row.key \notin files
    OBVIOUS
  <2> HIDE DEF row
  <2> QED BY <1>1, <1>2, <2>1, <2>2, <2>3, FilesAdded
<1>3. ASSUME NEW o \in Owners("attachments"), SaveReceipt(key, o, g) PROVE GroupsInv'
  <2> DEFINE row == [key |-> key, created |-> key \notin files, owner |-> o, group |-> g]
  <2>1. /\ upload' = [upload EXCEPT !["attachments"] = row] /\ files' = files \cup {key} /\ references' = references
        /\ operator' = operator /\ exposed \subseteq exposed' /\ (operator.running => key \in exposed')
    BY <1>3 DEF SaveReceipt, Overlapped
  <2>2. StoreOf(key) = "attachments"
    BY <1>3, FilesAssumption DEF SaveReceipt, StoreOf
  <2>3. o # "avatar"
    BY <1>3 DEF Owners
  <2>4. row.key = key /\ row.owner = o /\ row.group \in Groups \cup {NoGroup} /\ (row.created => row.key \notin files)
    OBVIOUS
  <2> HIDE DEF row
  <2> QED BY <1>1, <1>3, <2>1, <2>2, <2>3, <2>4, FilesAdded
<1>4. CASE ImageVariantsFail(key) \/ EnsureImageVariant(key)
  BY <1>4, FilesAdded DEF ImageVariantsFail, EnsureImageVariant, operatorVars
<1> QED BY <1>2, <1>3, <1>4

\* A file goes that nothing refers to and that no upload holds, or an exposed one.
LEMMA FilesRemoved ==
  ASSUME GroupsInv, UNCHANGED <<group, founded, draft, references, upload, exposed>>, NEW key, files \ {key} \subseteq files',
         \/ key \in exposed
         \/ (\A r \in references : r.key # key) /\ \A s \in Stores : upload[s] # NoUpload => upload[s].key # key,
         operator'.running => operator.running, GoodCollector'
  PROVE  GroupsInv'
<1>1. \A r \in references' : GoodReference(r)'
  BY DEF GroupsInv, GoodReference
<1>2. ASSUME NEW s \in Stores PROVE GoodUpload(s)'
  BY DEF GroupsInv, Uploads, GoodUpload
<1>3. Uploads'
  BY <1>2 DEF GroupsInv, Uploads
<1> QED BY <1>1, <1>3, FilesChanged

\* The owners a collector looks for are all that a key of its store may have.
LEMMA NobodyRefers ==
  ASSUME GroupsInv, NEW key, Unreferenced(key)
  PROVE  \A r \in references : r.key # key
BY DEF GroupsInv, GoodReference, Unreferenced, References

\* The server's own collections hold the mutex of the store.
LEMMA CollectionKeepsInv ==
  ASSUME GroupsInv, UNCHANGED <<group, founded, draft>>, NEW key,
         RunMediaGarbageCollection(key) \/ RunAttachmentGarbageCollection(key) \/ SweepUnreferencedAttachments(key)
  PROVE  GroupsInv'
<1>1. /\ MayCollect(StoreOf(key)) /\ Unreferenced(key)
      /\ files \ {key} \subseteq files' /\ UNCHANGED <<references, upload, operator, exposed>>
  <2>1. CASE RunMediaGarbageCollection(key)
    BY <2>1 DEF RunMediaGarbageCollection, CollectImage, RemoveImageArtifacts, StoreOf, operatorVars
  <2>2. CASE RunAttachmentGarbageCollection(key) \/ SweepUnreferencedAttachments(key)
    BY <2>2, FilesAssumption DEF RunAttachmentGarbageCollection, SweepUnreferencedAttachments, CollectReceipt, StoreOf,
                                 operatorVars
  <2> QED BY <2>1, <2>2
<1>2. \A s \in Stores : upload[s] # NoUpload => upload[s].key # key
  BY <1>1 DEF MayCollect, Unlocked, GroupsInv, Uploads, GoodUpload
<1>3. \A r \in references : r.key # key
  BY <1>1, NobodyRefers
<1>4. GoodCollector'
  BY <1>1, CollectorStays
<1> QED BY <1>1, <1>2, <1>3, <1>4, FilesRemoved

\* The operator's process: what it has found unreferenced it removes later.
LEMMA OperatorKeepsInv ==
  ASSUME GroupsInv, UNCHANGED <<group, founded, draft>>,
         (\E k \in Keys : OperatorChecks(k)) \/ OperatorRemoves \/ OperatorEnds
  PROVE  GroupsInv'
<1>1. operator = [running |-> operator.running, key |-> operator.key] /\ (operator.key # NoKey => operator.running)
  BY DEF GroupsInv, GoodCollector
<1>2. ASSUME NEW k \in Keys, OperatorChecks(k) PROVE GroupsInv'
  <2>1. /\ operator.running /\ Unreferenced(k) /\ operator' = [operator EXCEPT !.key = k]
        /\ UNCHANGED <<files, references, upload, exposed>>
    BY <1>2 DEF OperatorChecks
  <2>2. operator'.running = operator.running /\ operator'.key = k
        /\ operator' = [running |-> operator'.running, key |-> operator'.key]
    BY <1>1, <2>1
  <2>3. \A r \in references : r.key # k
    BY <2>1, NobodyRefers
  <2>4. GoodCollector'
    BY <2>1, <2>2, <2>3 DEF GoodCollector
  <2>5. Uploads'
    BY <2>1, <2>2 DEF GroupsInv, Uploads, GoodUpload
  <2>6. \A r \in references' : GoodReference(r)'
    BY <2>1 DEF GroupsInv, GoodReference
  <2> QED BY <2>4, <2>5, <2>6, FilesChanged
<1>3. CASE OperatorRemoves
  <2> DEFINE key == operator.key
  <2>1. /\ key # NoKey /\ operator' = [operator EXCEPT !.key = NoKey] /\ files \ {key} \subseteq files'
        /\ UNCHANGED <<references, upload, exposed>>
    BY <1>3 DEF OperatorRemoves, CollectImage, RemoveImageArtifacts, CollectReceipt
  <2>2. operator'.running = operator.running /\ operator'.key = NoKey
        /\ operator' = [running |-> operator'.running, key |-> operator'.key]
    BY <1>1, <2>1
  <2>3. GoodCollector'
    BY <2>2 DEF GoodCollector
  <2>4. key \in exposed \/ ((\A r \in references : r.key # key) /\ \A s \in Stores : upload[s] # NoUpload => upload[s].key # key)
    BY <1>1, <2>1 DEF GroupsInv, GoodCollector, Uploads, GoodUpload
  <2> QED BY <2>1, <2>2, <2>3, <2>4, FilesRemoved
<1>4. CASE OperatorEnds
  <2>1. operator' = NoCollector /\ UNCHANGED <<files, references, upload, exposed>>
    BY <1>4 DEF OperatorEnds
  <2>2. GoodCollector' /\ ~operator'.running
    BY <2>1 DEF GoodCollector, NoCollector
  <2>3. Uploads'
    BY <2>1, <2>2 DEF GroupsInv, Uploads, GoodUpload
  <2>4. \A r \in references' : GoodReference(r)'
    BY <2>1 DEF GroupsInv, GoodReference
  <2> QED BY <2>2, <2>3, <2>4, FilesChanged
<1> QED BY <1>2, <1>3, <1>4

\* The row that an upload was for; its group is still active.
LEMMA AttachKeepsInv ==
  ASSUME GroupsInv, UNCHANGED <<group, founded, draft>>, NEW s \in Stores, Attach(s, Writable(upload[s].group))
  PROVE  GroupsInv'
<1>1. PICK u : u = upload[s]
  OBVIOUS
<1> DEFINE row == [key |-> u.key, owner |-> u.owner, group |-> u.group]
<1>2. upload = [t \in Stores |-> upload[t]] /\ \A t \in Stores : GoodUpload(t)
  BY DEF GroupsInv, Uploads
<1>3. /\ u # NoUpload /\ Writable(u.group) /\ references' \subseteq references \cup {row}
      /\ upload' = [upload EXCEPT ![s] = NoUpload] /\ UNCHANGED <<files, operator, exposed>>
  BY <1>1 DEF Attach, Unlocked, operatorVars
<1>4. /\ (u.key \in files \/ u.key \in exposed) /\ StoreOf(u.key) = s /\ u.owner \in Owners(s)
      /\ u.group \in Groups \cup {NoGroup}
      /\ u.owner = "avatar" => u.group = NoGroup
      /\ operator.running => u.key \in exposed
  BY <1>1, <1>2, <1>3 DEF GoodUpload
<1>5. row.key = u.key /\ row.owner = u.owner /\ row.group = u.group
  OBVIOUS
<1> HIDE DEF row
<1>6. ASSUME NEW r \in references' PROVE GoodReference(r)'
  <2>1. CASE r \in references
    BY <1>3, <2>1 DEF GroupsInv, GoodReference
  <2>2. CASE r = row
    <3>1. \A g \in Groups : row.group = g => group[g].status = "ACTIVE"
      BY <1>3, <1>5 DEF Writable
    <3> QED BY <1>3, <1>4, <1>5, <2>2, <3>1 DEF GoodReference
  <2> QED BY <1>3, <1>6, <2>1, <2>2
<1>7. /\ upload' = [t \in Stores |-> upload'[t]] /\ upload'[s] = NoUpload
      /\ \A t \in Stores : t # s => upload'[t] = upload[t]
  BY <1>2, <1>3
<1>8. ASSUME NEW t \in Stores PROVE GoodUpload(t)'
  <2>1. CASE t = s
    BY <1>7, <2>1 DEF GoodUpload
  <2>2. CASE t # s
    <3>1. GoodUpload(t) /\ upload'[t] = upload[t]
      BY <1>2, <1>7, <2>2
    <3>2. upload[t] # NoUpload => row.key # upload[t].key
      BY <1>4, <1>5, <2>2, <3>1 DEF GoodUpload
    <3> QED BY <1>3, <3>1, <3>2 DEF GoodUpload
  <2> QED BY <2>1, <2>2
<1>9. Uploads'
  BY <1>7, <1>8 DEF Uploads
<1>10. GoodCollector'
  BY <1>3, <1>4, <1>5 DEF GroupsInv, GoodCollector
<1> QED BY <1>6, <1>9, <1>10, FilesChanged

\* The file of a failed upload goes only if the upload has created it.
LEMMA AttachFailsKeepsInv ==
  ASSUME GroupsInv, UNCHANGED <<group, founded, draft>>, NEW s \in Stores, AttachFails(s)
  PROVE  GroupsInv'
<1>1. PICK u : u = upload[s]
  OBVIOUS
<1>2. upload = [t \in Stores |-> upload[t]] /\ \A t \in Stores : GoodUpload(t)
  BY DEF GroupsInv, Uploads
<1>3. /\ u # NoUpload /\ UNCHANGED <<references, operator, exposed>> /\ upload' = [upload EXCEPT ![s] = NoUpload]
      /\ files' = files \/ (files' = files \ {u.key} /\ u.created)
  BY <1>1 DEF AttachFails, Unlocked, operatorVars
<1>4. StoreOf(u.key) = s /\ (u.created /\ u.key \notin exposed => \A r \in references : r.key # u.key)
  BY <1>1, <1>2, <1>3 DEF GoodUpload
<1>5. \A r \in references' : GoodReference(r)'
  BY <1>3, <1>4 DEF GroupsInv, GoodReference
<1>6. /\ upload' = [t \in Stores |-> upload'[t]] /\ upload'[s] = NoUpload
      /\ \A t \in Stores : t # s => upload'[t] = upload[t]
  BY <1>2, <1>3
<1>7. ASSUME NEW t \in Stores PROVE GoodUpload(t)'
  <2>1. CASE t = s
    BY <1>6, <2>1 DEF GoodUpload
  <2>2. CASE t # s
    <3>1. GoodUpload(t) /\ upload'[t] = upload[t]
      BY <1>2, <1>6, <2>2
    <3>2. upload[t] # NoUpload => upload[t].key \in files' \/ upload[t].key \in exposed
      BY <1>3, <1>4, <2>2, <3>1 DEF GoodUpload
    <3> QED BY <1>3, <3>1, <3>2 DEF GoodUpload
  <2> QED BY <2>1, <2>2
<1>8. Uploads'
  BY <1>6, <1>7 DEF Uploads
<1>9. GoodCollector'
  BY <1>3, CollectorStays
<1> QED BY <1>5, <1>8, <1>9, FilesChanged

LEMMA OtherFilesKeepInv ==
  ASSUME GroupsInv, UNCHANGED <<group, founded, draft>>,
         (\E r \in references : RemoveReference(r)) \/ (\E k \in Keys : MarkCollected(k)) \/ FilesCrash
  PROVE  GroupsInv'
<1>1. files' = files /\ references' \subseteq references /\ UNCHANGED <<operator, exposed>>
  BY DEF RemoveReference, MarkCollected, FilesCrash, operatorVars
<1>2. \A r \in references' : GoodReference(r)'
  BY <1>1 DEF GroupsInv, GoodReference
<1>3. GoodCollector'
  BY <1>1, CollectorStays
<1>4. CASE upload' = upload
  <2>1. Uploads'
    BY <1>1, <1>4 DEF GroupsInv, Uploads, GoodUpload
  <2> QED BY <1>2, <1>3, <2>1, FilesChanged
<1>5. CASE FilesCrash
  <2>1. Uploads'
    BY <1>5 DEF FilesCrash, Uploads, GoodUpload
  <2> QED BY <1>2, <1>3, <2>1, FilesChanged
<1> QED BY <1>4, <1>5 DEF RemoveReference, MarkCollected

LEMMA FilesStepKeepsInv ==
  ASSUME GroupsInv, FilesStep
  PROVE  GroupsInv'
<1>1. UNCHANGED <<group, founded, draft>>
  BY DEF FilesStep
<1>2. ASSUME NEW k \in Images, NEW o \in Owners("images"), NEW g \in Groups,
             SaveImage(k, o, IF o = "avatar" THEN NoGroup ELSE g)
      PROVE  GroupsInv'
  BY <1>1, <1>2, SavesKeepInv
<1>3. ASSUME NEW k \in Images, ImageVariantsFail(k) \/ EnsureImageVariant(k) PROVE GroupsInv'
  BY <1>1, <1>3, FilesAdded DEF ImageVariantsFail, EnsureImageVariant, operatorVars
<1>4. ASSUME NEW k \in Receipts, NEW o \in Owners("attachments"), NEW g \in Groups, SaveReceipt(k, o, g)
      PROVE  GroupsInv'
  BY <1>1, <1>4, SavesKeepInv
<1>5. ASSUME NEW s \in Stores, Attach(s, Writable(upload[s].group)) \/ AttachFails(s) PROVE GroupsInv'
  BY <1>1, <1>5, AttachKeepsInv, AttachFailsKeepsInv
<1>6. ASSUME NEW k \in Keys,
             RunMediaGarbageCollection(k) \/ RunAttachmentGarbageCollection(k) \/ SweepUnreferencedAttachments(k)
      PROVE  GroupsInv'
  BY <1>1, <1>6, CollectionKeepsInv
<1>7. CASE (\E r \in references : RemoveReference(r)) \/ (\E k \in Keys : MarkCollected(k)) \/ FilesCrash
  BY <1>1, <1>7, OtherFilesKeepInv
<1>8. CASE (\E k \in Keys : OperatorChecks(k)) \/ OperatorRemoves \/ OperatorEnds
  BY <1>1, <1>8, OperatorKeepsInv
<1> QED BY <1>2, <1>3, <1>4, <1>5, <1>6, <1>7, <1>8, Zenon DEF FilesStep

LEMMA GroupStepKeepsInv ==
  ASSUME GroupsInv, GroupStep
  PROVE  GroupsInv'
<1>1. CASE FounderRegisters \/ LookUpFounder \/ (\E g \in Groups : ManagedGroupByID(g) \/ RequireActiveGroupMembership(g))
             \/ RunPendingWALCheckpoint \/ UpdateGroupPreference
  <2>1. /\ UNCHANGED <<group, files, references, upload, operator, exposed>>
        /\ draft' \in {"NONE", "ACTIVE", "PROVISIONING"} /\ founded' \in BOOLEAN
    BY <1>1 DEF FounderRegisters, LookUpFounder, ManagedGroupByID, RequireActiveGroupMembership, RunPendingWALCheckpoint,
                UpdateGroupPreference, fileVars, operatorVars, GroupsInv, GroupRows
  <2> QED BY <2>1, GroupsStay
<1>2. ASSUME NEW g \in Groups, Create(g) \/ AcceptInvitationToGroup(g) PROVE GroupsInv'
  <2>1. TRUE \in BOOLEAN
    OBVIOUS
  <2> QED BY <1>2, <2>1, CreateGroupKeepsInv, InvitationsKeepInv
<1>3. ASSUME NEW g \in Groups, NEW mail \in BOOLEAN, CreateGroup(g, mail) \/ ResendProvisioningInvitation(g, mail)
      PROVE  GroupsInv'
  BY <1>3, CreateGroupKeepsInv, InvitationsKeepInv
<1>4. ASSUME NEW g \in Groups, NEW path \in {"link", "registration", "invitation", "notice"}, OpenPath(g, path)
      PROVE  GroupsInv'
  BY <1>4, PathsKeepInv
<1>5. ASSUME NEW g \in Groups, DeliverMail(g) \/ ArchiveGroup(g) \/ RestoreGroup(g) PROVE GroupsInv'
  <2>1. "link" \in {"link", "registration", "invitation", "notice"}
    OBVIOUS
  <2> QED BY <1>5, <2>1, PathsKeepInv, ArchiveKeepsInv
<1>6. ASSUME NEW g \in Groups, NEW locally \in BOOLEAN, PurgeGroup(g, locally) PROVE GroupsInv'
  BY <1>6, PurgeKeepsInv
<1> QED BY <1>1, <1>2, <1>3, <1>4, <1>5, <1>6, Zenon DEF GroupStep

\* The inductive invariant of groups and files (system/groups.go, media,
\* paymentattachments), for any groups and contents, whether purges are run in
\* the server or by an operator beside it, whom its mutexes do not hold.
THEOREM GroupsFit == GroupsSpec => []GroupsInv
<1>1. LifecycleInit => GroupsInv
  BY GroupsInvInit
<1>2. GroupsInv /\ [GroupStep \/ FilesStep]_lifecycleVars => GroupsInv'
  <2>1. CASE UNCHANGED lifecycleVars /\ GroupsInv
    <3>1. UNCHANGED <<group, files, references, upload, operator, exposed>> /\ UNCHANGED <<draft, founded>>
      BY <2>1 DEF lifecycleVars, fileVars, operatorVars
    <3>2. draft' \in {"NONE", "ACTIVE", "PROVISIONING"} /\ founded' \in BOOLEAN
      BY <2>1, <3>1 DEF GroupsInv, GroupRows
    <3> QED BY <2>1, <3>1, <3>2, GroupsStay
  <2> QED BY <2>1, GroupStepKeepsInv, FilesStepKeepsInv
<1> QED BY <1>1, <1>2, PTL DEF GroupsSpec

\* Whatever uploads, failures, crashes, purges and collections overlap, those of
\* an operator's process included, a file that a row names is on disk unless its
\* content was being uploaded while such a process collected; an archived group
\* has no way in, an active one an administrator, and a purged one is named
\* nowhere (AttachFails after SaveReceipt, RunMediaGarbageCollection,
\* ArchiveGroup, PurgeGroup).
THEOREM FilesAndGroupsAgree == GroupsSpec => []GroupsAndFilesConsistent
<1>1. GroupsInv => GroupsAndFilesConsistent
  BY GroupsInvImplies
<1> QED BY <1>1, GroupsFit, PTL

-----------------------------------------------------------------------------
(***************************************************************************)
(* Joining.  The parts of MembershipsConsistent depend on one another: a   *)
(* new row of users has no membership yet because memberships belong to    *)
(* people there are (GoodRoster); a guest who becomes an account, or gives *)
(* the membership up to one, has no other membership whose roles would     *)
(* then be wrong; and a registration of a later link cannot exist yet when *)
(* the version of the link moves on (GoodRegistrations).                   *)
(***************************************************************************)
IdentityRow     == [kind : {"NONE", "GUEST", "ACCOUNT", "INACTIVE"}, email : Mailboxes \cup {NoMailbox}]
MembershipRow   == [user : Identities \cup {0}, status : {"ACTIVE", "ARCHIVED", "DELETED"},
                    roles : SUBSET UNION RoleSets, name : GuestNames \cup {NoName}]
OfferRow        == [email : Mailboxes, roles : RoleSets, claim : Nat, bound : Identities \cup {0}, token : Nat,
                    state : {"OPEN", "ACCEPTED", "REVOKED"}, fresh : BOOLEAN]
RegistrationRow == [email : Mailboxes, version : Nat, token : Nat, mailed : Nat,
                    state : {"OPEN", "INVALID", "CONSUMED"}, fresh : BOOLEAN]
LinkRow         == [enabled : BOOLEAN, version : Nat, token : Nat, fresh : BOOLEAN]

JoinTypes ==
  /\ identity \in [Identities -> IdentityRow]
  /\ members \in Seq(MembershipRow)
  /\ invitations \in Seq(OfferRow) /\ form.invitation \in 0 .. Len(invitations)
  /\ link \in LinkRow /\ registrations \in Seq(RegistrationRow)

UniqueAccounts ==
  \A u, v \in Identities :
    identity[u].kind = "ACCOUNT" /\ identity[v].kind = "ACCOUNT" /\ identity[u].email = identity[v].email => u = v

GoodRoster ==
  /\ \A m \in DOMAIN members : members[m].user \in Identities => identity[members[m].user].kind # "NONE"
  /\ \A m \in DOMAIN members : members[m].status # "DELETED" => members[m].user \in Identities
  /\ \A m, n \in DOMAIN members :
       members[m].status # "DELETED" /\ members[n].status # "DELETED" /\ members[m].user = members[n].user => m = n
  /\ \A m \in DOMAIN members :
       (members[m].roles # {}) <=> (members[m].status = "ACTIVE" /\ identity[members[m].user].kind # "GUEST")
  /\ \A m, n \in Guests : members[m].name = members[n].name => m = n

OneOffer ==
  \A i, j \in DOMAIN invitations : Current(i) /\ Current(j) /\ invitations[i].email = invitations[j].email => i = j

GoodRegistrations ==
  \A r \in DOMAIN registrations :
    /\ registrations[r].version <= link.version
    /\ Confirmable(r) => link.enabled /\ registrations[r].token = link.token

JoinInv == JoinTypes /\ UniqueAccounts /\ GoodRoster /\ OneOffer /\ GoodRegistrations
LEMMA AtMostOne ==
  ASSUME NEW S, \A x, y \in S : x = y
  PROVE  Cardinality(S) <= 1
<1>1. CASE S = {}
  BY <1>1, FS_EmptySet
<1>2. ASSUME NEW x \in S PROVE Cardinality(S) <= 1
  <2>1. S = {x}
    OBVIOUS
  <2> QED BY <2>1, FS_Singleton
<1> QED BY <1>1, <1>2

LEMMA JoinInvImplies ==
  ASSUME JoinInv
  PROVE  MembershipsConsistent
<1>1. \A i, j \in DOMAIN invitations : Current(i) /\ Current(j) /\ invitations[i].email = invitations[j].email => i = j
  BY DEF JoinInv, OneOffer
<1>2. ASSUME NEW e \in Mailboxes PROVE Cardinality(Accounts(e)) <= 1
  <2>1. \A u, v \in Accounts(e) : u = v
    BY DEF JoinInv, UniqueAccounts, Accounts
  <2> QED BY <2>1, AtMostOne
<1>3. ASSUME NEW u \in Identities PROVE Cardinality({m \in MembershipsOf(u) : members[m].status # "DELETED"}) <= 1
  <2>1. \A m, n \in {k \in MembershipsOf(u) : members[k].status # "DELETED"} : m = n
    BY DEF JoinInv, GoodRoster, MembershipsOf
  <2> QED BY <2>1, AtMostOne
<1>4. \A m \in DOMAIN members : (members[m].roles # {}) <=> (m \in Active \ Guests)
  BY DEF JoinInv, GoodRoster, Active, Guests
<1>5. \A m, n \in Guests : members[m].name = members[n].name => m = n
  BY DEF JoinInv, GoodRoster
<1>6. \A r \in DOMAIN registrations : Confirmable(r) => link.enabled /\ registrations[r].token = link.token
  BY DEF JoinInv, GoodRegistrations
<1> QED BY <1>1, <1>2, <1>3, <1>4, <1>5, <1>6 DEF MembershipsConsistent

LEMMA JoinInvInit ==
  ASSUME JoinInit
  PROVE  JoinInv
<1>1. members = <<>> /\ invitations = <<>> /\ registrations = <<>>
  BY DEF JoinInit
<1>2. DOMAIN members = {} /\ DOMAIN invitations = {} /\ DOMAIN registrations = {}
  BY <1>1
<1>3. JoinTypes
  <2>1. identity \in [Identities -> IdentityRow]
    BY DEF JoinInit, IdentityRow
  <2>2. form.invitation \in 0 .. Len(invitations) /\ link \in LinkRow
    BY <1>1 DEF JoinInit, NoForm, LinkRow
  <2> QED BY <1>1, <2>1, <2>2, EmptySeq DEF JoinTypes
<1>4. UniqueAccounts
  BY DEF JoinInit, UniqueAccounts
<1>5. GoodRoster /\ OneOffer /\ GoodRegistrations
  BY <1>2 DEF GoodRoster, Guests, Active, OneOffer, GoodRegistrations
<1> QED BY <1>3, <1>4, <1>5 DEF JoinInv

\* Rows of a table are rewritten, none is added.
LEMMA RowsRewritten ==
  ASSUME NEW S, NEW seq \in Seq(S), NEW next, next = [i \in DOMAIN seq |-> next[i]], \A i \in DOMAIN seq : next[i] \in S
  PROVE  next \in Seq(S) /\ DOMAIN next = DOMAIN seq /\ Len(next) = Len(seq)
<1>1. DOMAIN seq = 1 .. Len(seq) /\ Len(seq) \in Nat
  BY LenProperties
<1>2. next = [i \in 1 .. Len(seq) |-> next[i]] /\ \A i \in 1 .. Len(seq) : next[i] \in S
  BY <1>1
<1>3. next \in Seq(S)
  BY <1>1, <1>2, IsASeq
<1>4. DOMAIN next = 1 .. Len(next) /\ Len(next) \in Nat /\ DOMAIN next = 1 .. Len(seq)
  BY <1>2, <1>3, LenProperties
<1>5. Len(next) = Len(seq)
  BY <1>1, <1>4
<1> QED BY <1>1, <1>3, <1>4, <1>5

\* One row is added, or one is rewritten.
LEMMA RowAdded ==
  ASSUME NEW S, NEW seq \in Seq(S), NEW row \in S
  PROVE  /\ Append(seq, row) \in Seq(S) /\ DOMAIN Append(seq, row) = DOMAIN seq \cup {Len(seq) + 1}
         /\ Len(seq) + 1 \notin DOMAIN seq /\ Len(seq) \in Nat /\ Len(Append(seq, row)) = Len(seq) + 1
         /\ Append(seq, row)[Len(seq) + 1] = row /\ \A i \in DOMAIN seq : Append(seq, row)[i] = seq[i]
<1>1. DOMAIN seq = 1 .. Len(seq) /\ Len(seq) \in Nat
  BY LenProperties
<1>2. /\ Append(seq, row) \in Seq(S) /\ Len(Append(seq, row)) = Len(seq) + 1
      /\ Append(seq, row)[Len(seq) + 1] = row /\ \A i \in 1 .. Len(seq) : Append(seq, row)[i] = seq[i]
  BY AppendProperties
<1>3. DOMAIN Append(seq, row) = 1 .. Len(seq) + 1
  BY <1>2, LenProperties
<1>4. 1 .. Len(seq) + 1 = 1 .. Len(seq) \cup {Len(seq) + 1} /\ Len(seq) + 1 \notin 1 .. Len(seq)
  BY <1>1
<1> QED BY <1>1, <1>2, <1>3, <1>4

LEMMA RowReplaced ==
  ASSUME NEW S, NEW seq \in Seq(S), NEW i \in DOMAIN seq, NEW row \in S
  PROVE  /\ [seq EXCEPT ![i] = row] \in Seq(S) /\ DOMAIN [seq EXCEPT ![i] = row] = DOMAIN seq
         /\ Len([seq EXCEPT ![i] = row]) = Len(seq)
         /\ [seq EXCEPT ![i] = row][i] = row /\ \A j \in DOMAIN seq : j # i => [seq EXCEPT ![i] = row][j] = seq[j]
<1> DEFINE next == [seq EXCEPT ![i] = row]
<1>1. next = [j \in DOMAIN seq |-> next[j]]
  OBVIOUS
<1>2. next[i] = row /\ \A j \in DOMAIN seq : j # i => next[j] = seq[j]
  OBVIOUS
<1>3. \A j \in DOMAIN seq : seq[j] \in S
  BY LenProperties, ElementOfSeq
<1> HIDE DEF next
<1>4. \A j \in DOMAIN seq : next[j] \in S
  BY <1>2, <1>3
<1>5. next \in Seq(S) /\ DOMAIN next = DOMAIN seq /\ Len(next) = Len(seq)
  BY <1>1, <1>4, RowsRewritten
<1> QED BY <1>2, <1>5 DEF next
\* Fewer invitations are current.
LEMMA FewerOffers ==
  ASSUME JoinInv, DOMAIN invitations' = DOMAIN invitations,
         \A i \in DOMAIN invitations :
           /\ invitations'[i].email = invitations[i].email
           /\ invitations'[i].state = "OPEN" /\ invitations'[i].fresh =>
                invitations[i].state = "OPEN" /\ invitations[i].fresh
  PROVE  OneOffer'
BY DEF JoinInv, OneOffer, Current, Pending

LEMMA OffersOnly ==
  ASSUME JoinInv, UNCHANGED <<identity, members, link, registrations>>, invitations' \in Seq(OfferRow),
         form'.invitation \in 0 .. Len(invitations'), OneOffer'
  PROVE  JoinInv'
<1>1. JoinTypes'
  BY DEF JoinInv, JoinTypes
<1>2. UniqueAccounts' /\ GoodRoster'
  BY DEF JoinInv, UniqueAccounts, GoodRoster, Guests, Active
<1>3. GoodRegistrations'
  BY DEF JoinInv, GoodRegistrations, Confirmable, Registered
<1> QED BY <1>1, <1>2, <1>3 DEF JoinInv

LEMMA LinksOnly ==
  ASSUME JoinInv, UNCHANGED <<identity, members, invitations, form>>, link' \in LinkRow,
         registrations' \in Seq(RegistrationRow), GoodRegistrations'
  PROVE  JoinInv'
<1>1. JoinTypes'
  BY DEF JoinInv, JoinTypes
<1>2. UniqueAccounts' /\ GoodRoster'
  BY DEF JoinInv, UniqueAccounts, GoodRoster, Guests, Active
<1>3. OneOffer'
  BY DEF JoinInv, OneOffer, Current, Pending
<1> QED BY <1>1, <1>2, <1>3 DEF JoinInv

\* Membership m is added or rewritten; whoever has another one stays what he is.
LEMMA RosterChanged ==
  ASSUME JoinInv, NEW m, DOMAIN members' = DOMAIN members \cup {m},
         \A n \in DOMAIN members : n # m => members'[n] = members[n],
         \A u \in Identities : identity[u].kind # "NONE" => identity'[u].kind # "NONE",
         \A n \in DOMAIN members : n # m /\ members[n].status # "DELETED" =>
           /\ identity'[members[n].user].kind = identity[members[n].user].kind
           /\ members'[m].status # "DELETED" => members[n].user # members'[m].user,
         members'[m].user \in Identities => identity'[members'[m].user].kind # "NONE",
         members'[m].status # "DELETED" => members'[m].user \in Identities,
         (members'[m].roles # {}) <=> (members'[m].status = "ACTIVE" /\ identity'[members'[m].user].kind # "GUEST"),
         members'[m].status = "ACTIVE" /\ identity'[members'[m].user].kind = "GUEST" =>
           \A n \in Active : n # m => members[n].name # members'[m].name
  PROVE  GoodRoster'
<1> DEFINE G(n) == n \in DOMAIN members' /\ members'[n].status = "ACTIVE" /\ identity'[members'[n].user].kind = "GUEST"
<1>1. GoodRoster
  BY DEF JoinInv
<1>2. \A n \in DOMAIN members' : n = m \/ (n # m /\ n \in DOMAIN members /\ members'[n] = members[n])
  OBVIOUS
<1>3. \A n \in DOMAIN members' : members'[n].user \in Identities => identity'[members'[n].user].kind # "NONE"
  BY <1>1, <1>2 DEF GoodRoster
<1>4. \A n \in DOMAIN members' : members'[n].status # "DELETED" => members'[n].user \in Identities
  BY <1>1, <1>2 DEF GoodRoster
<1>5. \A k, n \in DOMAIN members' :
        members'[k].status # "DELETED" /\ members'[n].status # "DELETED" /\ members'[k].user = members'[n].user => k = n
  BY <1>1, <1>2 DEF GoodRoster
<1>6. ASSUME NEW n \in DOMAIN members'
      PROVE  (members'[n].roles # {}) <=> (members'[n].status = "ACTIVE" /\ identity'[members'[n].user].kind # "GUEST")
  <2>1. CASE n = m
    BY <2>1
  <2>2. CASE n # m
    <3>1. n \in DOMAIN members /\ members'[n] = members[n]
      BY <1>2, <2>2
    <3>2. (members[n].roles # {}) <=> (members[n].status = "ACTIVE" /\ identity[members[n].user].kind # "GUEST")
      BY <1>1, <3>1 DEF GoodRoster
    <3>3. CASE members[n].status # "DELETED"
      BY <2>2, <3>1, <3>2, <3>3
    <3>4. CASE members[n].status = "DELETED"
      BY <3>1, <3>2, <3>4
    <3> QED BY <3>3, <3>4
  <2> QED BY <2>1, <2>2
<1>7. \A n : G(n) /\ n # m => n \in Guests /\ n \in Active /\ members'[n] = members[n]
  BY <1>2 DEF Guests, Active
<1>8. \A k, n : G(k) /\ G(n) /\ members'[k].name = members'[n].name => k = n
  <2> SUFFICES ASSUME NEW k, NEW n, G(k), G(n), members'[k].name = members'[n].name PROVE k = n
    OBVIOUS
  <2>1. CASE k # m /\ n # m
    <3>1. k \in Guests /\ n \in Guests /\ members[k].name = members[n].name
      BY <1>7, <2>1
    <3> QED BY <1>1, <3>1 DEF GoodRoster
  <2>2. CASE k = m \/ n = m
    BY <1>7, <2>2
  <2> QED BY <2>1, <2>2
<1>9. \A k, n \in Guests' : members'[k].name = members'[n].name => k = n
  BY <1>8 DEF Guests, Active
<1> QED BY <1>3, <1>4, <1>5, <1>6, <1>9 DEF GoodRoster
LEMMA OfferRewritten ==
  ASSUME JoinInv, UNCHANGED <<identity, members, form, link, registrations>>, NEW i \in DOMAIN invitations,
         NEW row \in OfferRow, invitations' = [invitations EXCEPT ![i] = row], row.email = invitations[i].email,
         row.state = "OPEN" /\ row.fresh => Current(i) \/ ~Competing(i, row.email)
  PROVE  JoinInv'
<1>1. invitations \in Seq(OfferRow) /\ form.invitation \in 0 .. Len(invitations)
  BY DEF JoinInv, JoinTypes
<1>2. /\ invitations' \in Seq(OfferRow) /\ DOMAIN invitations' = DOMAIN invitations /\ Len(invitations') = Len(invitations)
      /\ invitations'[i] = row /\ \A j \in DOMAIN invitations : j # i => invitations'[j] = invitations[j]
  BY <1>1, RowReplaced
<1>3. OneOffer'
  <2>1. CASE Current(i) \/ ~(row.state = "OPEN" /\ row.fresh)
    <3>1. \A j \in DOMAIN invitations :
            /\ invitations'[j].email = invitations[j].email
            /\ invitations'[j].state = "OPEN" /\ invitations'[j].fresh =>
                 invitations[j].state = "OPEN" /\ invitations[j].fresh
      BY <1>2, <2>1 DEF Current, Pending
    <3> QED BY <1>2, <3>1, FewerOffers
  <2>2. CASE ~Competing(i, row.email)
    <3>1. \A j \in DOMAIN invitations : j # i /\ invitations[j].email = row.email =>
            ~(invitations[j].state = "OPEN" /\ invitations[j].fresh)
      BY <2>2 DEF Competing, Current, Pending
    <3>2. OneOffer
      BY DEF JoinInv
    <3> QED BY <1>2, <3>1, <3>2 DEF OneOffer, Current, Pending
  <2> QED BY <2>1, <2>2
<1> QED BY <1>1, <1>2, <1>3, OffersOnly

LEMMA OffersKeepInv ==
  ASSUME JoinInv, NEW i \in DOMAIN invitations,
         \/ \E r \in RoleSets : UpdateInvitation(i, r)
         \/ ResendInvitationEmail(i) \/ RevokeInvitation(i) \/ ExpireInvitation(i) \/ PreviewInvitation(i)
  PROVE  JoinInv'
<1>1. PICK inv : inv = invitations[i]
  OBVIOUS
<1>2. invitations \in Seq(OfferRow)
  BY DEF JoinInv, JoinTypes
<1>3. inv \in OfferRow /\ i \in 1 .. Len(invitations) /\ Len(invitations) \in Nat
  BY <1>1, <1>2, LenProperties, ElementOfSeq
<1>4. inv.token \in Nat
  BY <1>3 DEF OfferRow
<1> DEFINE next == inv.token + 1
<1>5. next \in Nat
  BY <1>4
<1>6. ASSUME NEW r \in RoleSets, UpdateInvitation(i, r) PROVE JoinInv'
  <2> DEFINE row == [inv EXCEPT !.roles = r]
  <2>1. /\ invitations' = [invitations EXCEPT ![i] = row] /\ Current(i)
        /\ UNCHANGED <<identity, members, form, link, registrations>>
    BY <1>1, <1>6 DEF UpdateInvitation
  <2>2. row \in OfferRow /\ row.email = inv.email
    BY <1>3 DEF OfferRow
  <2> HIDE DEF row
  <2> QED BY <1>1, <2>1, <2>2, OfferRewritten
<1>7. CASE ResendInvitationEmail(i)
  <2> DEFINE row == [inv EXCEPT !.token = next, !.fresh = TRUE]
  <2>1. /\ invitations' = [invitations EXCEPT ![i].token = next, ![i].fresh = TRUE] /\ ~Competing(i, inv.email)
        /\ UNCHANGED <<identity, members, form, link, registrations>>
    BY <1>1, <1>7 DEF ResendInvitationEmail
  <2> HIDE DEF next
  <2>2. invitations' = [invitations EXCEPT ![i] = row]
    BY <1>1, <1>2, <1>3, <2>1 DEF OfferRow
  <2>3. row \in OfferRow /\ row.email = inv.email
    BY <1>3, <1>5 DEF OfferRow
  <2> HIDE DEF row
  <2> QED BY <1>1, <2>1, <2>2, <2>3, OfferRewritten
<1>8. CASE RevokeInvitation(i)
  <2> DEFINE row == [inv EXCEPT !.state = "REVOKED"]
  <2>1. /\ invitations' = [invitations EXCEPT ![i] = row]
        /\ UNCHANGED <<identity, members, form, link, registrations>>
    BY <1>1, <1>8 DEF RevokeInvitation
  <2>2. row \in OfferRow /\ row.email = inv.email /\ row.state = "REVOKED"
    BY <1>3 DEF OfferRow
  <2> HIDE DEF row
  <2> QED BY <1>1, <2>1, <2>2, OfferRewritten
<1>9. CASE ExpireInvitation(i)
  <2> DEFINE row == [inv EXCEPT !.fresh = FALSE]
  <2>1. /\ invitations' = [invitations EXCEPT ![i] = row] /\ Current(i)
        /\ UNCHANGED <<identity, members, form, link, registrations>>
    BY <1>1, <1>9 DEF ExpireInvitation
  <2>2. row \in OfferRow /\ row.email = inv.email
    BY <1>3 DEF OfferRow
  <2> HIDE DEF row
  <2> QED BY <1>1, <2>1, <2>2, OfferRewritten
<1>10. CASE PreviewInvitation(i)
  <2>1. UNCHANGED <<identity, members, invitations, link, registrations>> /\ form'.invitation = i
    BY <1>10 DEF PreviewInvitation
  <2>2. form'.invitation \in 0 .. Len(invitations')
    BY <1>3, <2>1
  <2>3. OneOffer'
    BY <2>1 DEF JoinInv, OneOffer, Current, Pending
  <2> QED BY <1>2, <2>1, <2>2, <2>3, OffersOnly
<1> QED BY <1>6, <1>7, <1>8, <1>9, <1>10

LEMMA CreateInvitationKeepsInv ==
  ASSUME JoinInv, NEW email \in Mailboxes, NEW roleSet \in RoleSets, NEW claim \in 0 .. Len(members),
         CreateInvitation(email, roleSet, claim)
  PROVE  JoinInv'
<1>1. invitations \in Seq(OfferRow) /\ form.invitation \in 0 .. Len(invitations) /\ Len(members) \in Nat
  BY LenProperties DEF JoinInv, JoinTypes
<1>2. PICK bound \in Identities \cup {0} :
        invitations' = Append(invitations,
          [email |-> email, roles |-> roleSet, claim |-> claim, bound |-> bound, token |-> 1,
           state |-> "OPEN", fresh |-> TRUE])
  BY DEF CreateInvitation, Accounts
<1> DEFINE row == [email |-> email, roles |-> roleSet, claim |-> claim, bound |-> bound, token |-> 1,
                   state |-> "OPEN", fresh |-> TRUE]
<1>3. claim \in Nat
  BY <1>1
<1>4. row \in OfferRow /\ row.email = email
  BY <1>3 DEF OfferRow
<1>5. invitations' = Append(invitations, row)
  BY <1>2
<1> HIDE DEF row
<1>6. /\ invitations' \in Seq(OfferRow) /\ Len(invitations') = Len(invitations) + 1 /\ Len(invitations) \in Nat
      /\ DOMAIN invitations' = DOMAIN invitations \cup {Len(invitations) + 1}
      /\ invitations'[Len(invitations) + 1] = row /\ \A j \in DOMAIN invitations : invitations'[j] = invitations[j]
  BY <1>1, <1>4, <1>5, RowAdded
<1>7. ASSUME NEW j \in DOMAIN invitations, invitations[j].email = email
      PROVE  ~(invitations[j].state = "OPEN" /\ invitations[j].fresh)
  <2>1. j # 0
    BY <1>1, LenProperties
  <2> QED BY <1>7, <2>1 DEF CreateInvitation, Competing, Current, Pending
<1>8. OneOffer'
  <2>1. OneOffer
    BY DEF JoinInv
  <2> QED BY <1>4, <1>6, <1>7, <2>1 DEF OneOffer, Current, Pending
<1>9. form'.invitation \in 0 .. Len(invitations') /\ UNCHANGED <<identity, members, link, registrations>>
  BY <1>1, <1>6 DEF CreateInvitation
<1> QED BY <1>6, <1>8, <1>9, OffersOnly
\* Registrations are rewritten; none becomes open, fresh or another's.
LEMMA RegistrationsRewritten ==
  ASSUME JoinInv, NEW next, next = [r \in DOMAIN registrations |-> next[r]],
         \A r \in DOMAIN registrations :
           \/ next[r] = registrations[r]
           \/ next[r] = [registrations[r] EXCEPT !.state = "INVALID"]
           \/ next[r] = [registrations[r] EXCEPT !.state = "CONSUMED"]
           \/ next[r] = [registrations[r] EXCEPT !.fresh = FALSE]
  PROVE  /\ next \in Seq(RegistrationRow) /\ DOMAIN next = DOMAIN registrations
         /\ \A r \in DOMAIN registrations :
              /\ registrations[r] \in RegistrationRow
              /\ next[r].version = registrations[r].version /\ next[r].token = registrations[r].token
              /\ next[r].state = "OPEN" => registrations[r].state = "OPEN"
              /\ next[r].fresh => registrations[r].fresh
<1>1. registrations \in Seq(RegistrationRow)
  BY DEF JoinInv, JoinTypes
<1>2. \A r \in DOMAIN registrations : registrations[r] \in RegistrationRow
  BY <1>1, LenProperties, ElementOfSeq
<1>3. ASSUME NEW r \in DOMAIN registrations
      PROVE  /\ next[r] \in RegistrationRow
             /\ next[r].version = registrations[r].version /\ next[r].token = registrations[r].token
             /\ next[r].state = "OPEN" => registrations[r].state = "OPEN"
             /\ next[r].fresh => registrations[r].fresh
  <2>1. PICK old \in RegistrationRow : old = registrations[r]
    BY <1>2
  <2>2. PICK new : new = next[r]
    OBVIOUS
  <2>3. \/ new = old
        \/ new = [old EXCEPT !.state = "INVALID"] \/ new = [old EXCEPT !.state = "CONSUMED"]
        \/ new = [old EXCEPT !.fresh = FALSE]
    BY <2>1, <2>2
  <2>4. /\ new \in RegistrationRow /\ new.version = old.version /\ new.token = old.token
        /\ new.state = "OPEN" => old.state = "OPEN"
        /\ new.fresh => old.fresh
    <3>1. CASE new = old
      BY <3>1
    <3>2. CASE new = [old EXCEPT !.state = "INVALID"] \/ new = [old EXCEPT !.state = "CONSUMED"]
      BY ONLY <2>1, <3>2 DEF RegistrationRow
    <3>3. CASE new = [old EXCEPT !.fresh = FALSE]
      BY ONLY <2>1, <3>3 DEF RegistrationRow
    <3> QED BY <2>3, <3>1, <3>2, <3>3
  <2> QED BY <2>1, <2>2, <2>4
<1>4. next \in Seq(RegistrationRow) /\ DOMAIN next = DOMAIN registrations
  BY <1>1, <1>3, RowsRewritten
<1> QED BY <1>2, <1>3, <1>4

\* When the version of the link moves on, no registration belongs to it.
LEMMA VersionMovesOn ==
  ASSUME JoinInv, DOMAIN registrations' = DOMAIN registrations, link'.version = link.version + 1,
         \A r \in DOMAIN registrations : registrations'[r].version = registrations[r].version
  PROVE  GoodRegistrations'
<1>1. link.version \in Nat /\ \A r \in DOMAIN registrations : registrations[r].version \in Nat
  <2>1. registrations \in Seq(RegistrationRow) /\ link \in LinkRow
    BY DEF JoinInv, JoinTypes
  <2>2. \A r \in DOMAIN registrations : registrations[r] \in RegistrationRow
    BY <2>1, LenProperties, ElementOfSeq
  <2> QED BY <2>1, <2>2 DEF LinkRow, RegistrationRow
<1>2. \A r \in DOMAIN registrations : registrations[r].version <= link.version
  BY DEF JoinInv, GoodRegistrations
<1>3. \A r \in DOMAIN registrations' : registrations'[r].version <= link'.version /\ registrations'[r].version # link'.version
  BY <1>1, <1>2
<1> QED BY <1>3 DEF GoodRegistrations, Confirmable

LEMMA LinkKeepsInv ==
  ASSUME JoinInv, (\E enabled \in BOOLEAN : PutPublicJoinLink(enabled)) \/ RotatePublicJoinLink \/ ExpireLink
  PROVE  JoinInv'
<1>1. link \in LinkRow /\ registrations \in Seq(RegistrationRow) /\ link.version \in Nat /\ link.token \in Nat
  BY DEF JoinInv, JoinTypes, LinkRow
<1>2. UNCHANGED <<identity, members, invitations, form>>
  BY DEF PutPublicJoinLink, RotatePublicJoinLink, ExpireLink
<1> DEFINE invalid == InvalidatePublicJoinRegistrations
           next    == link.version + 1
           token   == link.token + 1
<1>3. next \in Nat /\ token \in Nat
  BY <1>1
<1>4. /\ invalid \in Seq(RegistrationRow) /\ DOMAIN invalid = DOMAIN registrations
      /\ \A r \in DOMAIN registrations : invalid[r].version = registrations[r].version
  <2>1. invalid = [r \in DOMAIN registrations |-> invalid[r]]
    BY DEF InvalidatePublicJoinRegistrations
  <2>2. \A r \in DOMAIN registrations :
          invalid[r] = registrations[r] \/ invalid[r] = [registrations[r] EXCEPT !.state = "INVALID"]
    BY DEF InvalidatePublicJoinRegistrations
  <2> HIDE DEF invalid
  <2> QED BY <2>1, <2>2, RegistrationsRewritten
<1>5. ASSUME registrations' = invalid \/ registrations' = registrations, link' \in LinkRow, link'.version = next
      PROVE  JoinInv'
  <2>1. /\ registrations' \in Seq(RegistrationRow) /\ DOMAIN registrations' = DOMAIN registrations
        /\ \A r \in DOMAIN registrations : registrations'[r].version = registrations[r].version
    BY <1>1, <1>4, <1>5
  <2>2. GoodRegistrations'
    BY <1>5, <2>1, VersionMovesOn
  <2> QED BY <1>2, <1>5, <2>1, <2>2, LinksOnly
<1>6. ASSUME NEW enabled \in BOOLEAN, PutPublicJoinLink(enabled) PROVE JoinInv'
  <2> DEFINE issued == IF enabled /\ ~LinkOpen THEN token ELSE link.token
  <2>1. link' = [enabled |-> enabled, version |-> next, fresh |-> enabled, token |-> issued]
    BY <1>6 DEF PutPublicJoinLink
  <2>2. registrations' = invalid \/ registrations' = registrations
    BY <1>6 DEF PutPublicJoinLink
  <2>3. issued \in Nat
    BY <1>1, <1>3
  <2> HIDE DEF next, issued
  <2>4. link' \in LinkRow /\ link'.version = next
    BY <1>3, <2>1, <2>3 DEF LinkRow
  <2> QED BY <1>5, <2>2, <2>4
<1>7. CASE RotatePublicJoinLink
  <2>1. link' = [link EXCEPT !.version = next, !.token = token] /\ registrations' = invalid
    BY <1>7 DEF RotatePublicJoinLink
  <2> HIDE DEF next, token
  <2>2. link' \in LinkRow /\ link'.version = next
    BY <1>1, <1>3, <2>1 DEF LinkRow
  <2> QED BY <1>5, <2>1, <2>2
<1>8. CASE ExpireLink
  <2>1. /\ link' = [link EXCEPT !.fresh = FALSE]
        /\ registrations' = [r \in DOMAIN registrations |->
             IF registrations[r].version = link.version THEN [registrations[r] EXCEPT !.fresh = FALSE]
             ELSE registrations[r]]
    BY <1>8 DEF ExpireLink
  <2>2. /\ registrations' = [r \in DOMAIN registrations |-> registrations'[r]]
        /\ \A r \in DOMAIN registrations :
             registrations'[r] = registrations[r] \/ registrations'[r] = [registrations[r] EXCEPT !.fresh = FALSE]
    BY <2>1
  <2>3. /\ registrations' \in Seq(RegistrationRow) /\ DOMAIN registrations' = DOMAIN registrations
        /\ \A r \in DOMAIN registrations :
              /\ registrations'[r].version = registrations[r].version /\ registrations'[r].token = registrations[r].token
              /\ registrations'[r].state = "OPEN" => registrations[r].state = "OPEN"
              /\ registrations'[r].fresh => registrations[r].fresh
    BY <2>2, RegistrationsRewritten
  <2>4. link' \in LinkRow /\ link'.version = link.version /\ link'.token = link.token /\ link'.enabled = link.enabled
    BY <1>1, <2>1 DEF LinkRow
  <2>5. GoodRegistrations'
    BY <2>3, <2>4 DEF JoinInv, GoodRegistrations, Confirmable, Registered
  <2> QED BY <1>2, <2>3, <2>4, <2>5, LinksOnly
<1> QED BY <1>6, <1>7, <1>8

LEMMA RegistrationsKeepInv ==
  ASSUME JoinInv,
         \/ \E email \in Mailboxes : StartPublicJoinRegistration(email)
         \/ \E r \in DOMAIN registrations : ResendPublicJoinVerification(r)
  PROVE  JoinInv'
<1>1. link \in LinkRow /\ registrations \in Seq(RegistrationRow) /\ link.version \in Nat /\ link.token \in Nat
  BY DEF JoinInv, JoinTypes, LinkRow
<1>2. \A r \in DOMAIN registrations : registrations[r] \in RegistrationRow
  BY <1>1, LenProperties, ElementOfSeq
<1>3. UNCHANGED <<identity, members, invitations, form, link>>
  BY DEF StartPublicJoinRegistration, ResendPublicJoinVerification
<1>4. GoodRegistrations
  BY DEF JoinInv
<1>5. ASSUME NEW email \in Mailboxes, StartPublicJoinRegistration(email) PROVE JoinInv'
  <2> DEFINE rest == [r \in DOMAIN registrations |->
                        IF Registered(r) /\ registrations[r].email = email
                          THEN [registrations[r] EXCEPT !.state = "INVALID"] ELSE registrations[r]]
             row  == [email |-> email, version |-> link.version, token |-> link.token, mailed |-> 1,
                      state |-> "OPEN", fresh |-> TRUE]
  <2>1. registrations' = Append(rest, row) /\ link.enabled
    BY <1>5 DEF StartPublicJoinRegistration, LinkOpen
  <2>2. /\ rest = [r \in DOMAIN registrations |-> rest[r]]
        /\ \A r \in DOMAIN registrations :
             rest[r] = registrations[r] \/ rest[r] = [registrations[r] EXCEPT !.state = "INVALID"]
    OBVIOUS
  <2>3. row \in RegistrationRow /\ row.version = link.version /\ row.token = link.token
    BY <1>1 DEF RegistrationRow
  <2> HIDE DEF rest, row
  <2>4. /\ rest \in Seq(RegistrationRow) /\ DOMAIN rest = DOMAIN registrations
        /\ \A r \in DOMAIN registrations :
              /\ rest[r].version = registrations[r].version /\ rest[r].token = registrations[r].token
              /\ rest[r].state = "OPEN" => registrations[r].state = "OPEN"
              /\ rest[r].fresh => registrations[r].fresh
    BY <2>2, RegistrationsRewritten
  <2>5. /\ registrations' \in Seq(RegistrationRow)
        /\ DOMAIN registrations' = DOMAIN registrations \cup {Len(rest) + 1}
        /\ registrations'[Len(rest) + 1] = row /\ \A r \in DOMAIN registrations : registrations'[r] = rest[r]
    BY <2>1, <2>3, <2>4, RowAdded
  <2>6. \A r \in DOMAIN registrations :
          /\ registrations'[r].version <= link'.version
          /\ registrations'[r].state = "OPEN" /\ registrations'[r].fresh /\ registrations'[r].version = link'.version =>
               link'.enabled /\ registrations'[r].token = link'.token
    BY <1>3, <1>4, <2>4, <2>5 DEF GoodRegistrations, Confirmable, Registered
  <2>7. GoodRegistrations'
    BY <1>1, <1>3, <2>1, <2>3, <2>5, <2>6 DEF GoodRegistrations, Confirmable, Registered
  <2> QED BY <1>1, <1>3, <2>5, <2>7, LinksOnly
<1>6. ASSUME NEW r \in DOMAIN registrations, ResendPublicJoinVerification(r) PROVE JoinInv'
  <2> DEFINE mailed == registrations[r].mailed + 1
             row    == [registrations[r] EXCEPT !.mailed = mailed]
  <2>1. registrations' = [registrations EXCEPT ![r] = row]
    BY <1>6 DEF ResendPublicJoinVerification
  <2>2. registrations[r].mailed \in Nat
    BY <1>2 DEF RegistrationRow
  <2>3. mailed \in Nat
    BY <2>2
  <2> HIDE DEF mailed
  <2>4. /\ row \in RegistrationRow /\ row.version = registrations[r].version /\ row.token = registrations[r].token
        /\ row.state = registrations[r].state /\ row.fresh = registrations[r].fresh
    BY <1>2, <2>3 DEF RegistrationRow
  <2> HIDE DEF row
  <2>5. /\ registrations' \in Seq(RegistrationRow) /\ DOMAIN registrations' = DOMAIN registrations
        /\ registrations'[r] = row /\ \A q \in DOMAIN registrations : q # r => registrations'[q] = registrations[q]
    BY <1>1, <2>1, <2>4, RowReplaced
  <2>6. GoodRegistrations'
    BY <1>3, <1>4, <2>4, <2>5 DEF GoodRegistrations, Confirmable, Registered
  <2> QED BY <1>1, <1>3, <2>5, <2>6, LinksOnly
<1> QED BY <1>5, <1>6
\* An account, or another identity, in a row of users.
LEMMA IdentityWritten ==
  ASSUME JoinInv, NEW u \in Identities, NEW kind \in {"GUEST", "ACCOUNT", "INACTIVE"},
         NEW email \in Mailboxes \cup {NoMailbox}, Identified(u, kind, email),
         kind = "ACCOUNT" => \A v \in Accounts(email) : v = u
  PROVE  /\ identity' \in [Identities -> IdentityRow] /\ identity'[u].kind = kind /\ UniqueAccounts'
         /\ \A v \in Identities : v # u => identity'[v] = identity[v]
<1> DEFINE row == [kind |-> kind, email |-> email]
<1>1. row \in IdentityRow /\ row.kind = kind /\ row.email = email
  BY DEF IdentityRow
<1>2. identity' = [identity EXCEPT ![u] = row] /\ identity \in [Identities -> IdentityRow]
  BY DEF Identified, JoinInv, JoinTypes
<1> HIDE DEF row
<1>3. identity' \in [Identities -> IdentityRow] /\ identity'[u] = row /\ \A v \in Identities : v # u => identity'[v] = identity[v]
  BY <1>1, <1>2
<1>4. UniqueAccounts'
  <2>1. UniqueAccounts
    BY DEF JoinInv
  <2>2. \A v \in Identities : kind = "ACCOUNT" /\ identity[v].kind = "ACCOUNT" /\ identity[v].email = email => v = u
    BY DEF Accounts
  <2> QED BY <1>1, <1>3, <2>1, <2>2 DEF UniqueAccounts
<1> QED BY <1>1, <1>3, <1>4

LEMMA FreshHasNoMembership ==
  ASSUME JoinInv, NEW u \in Identities, Fresh(u)
  PROVE  \A n \in DOMAIN members : members[n].user # u
BY DEF JoinInv, GoodRoster, Fresh

LEMMA RosterAppended ==
  ASSUME JoinInv, NEW row \in MembershipRow, members' = Append(members, row),
         row.user \in Identities, row.status = "ACTIVE", identity'[row.user].kind # "NONE",
         \A v \in Identities : v # row.user => identity'[v].kind = identity[v].kind,
         \A n \in DOMAIN members : members[n].user = row.user => members[n].status = "DELETED",
         (row.roles # {}) <=> (identity'[row.user].kind # "GUEST"),
         identity'[row.user].kind = "GUEST" => \A n \in Active : members[n].name # row.name
  PROVE  members' \in Seq(MembershipRow) /\ GoodRoster'
<1> DEFINE m == Len(members) + 1
<1>1. members \in Seq(MembershipRow)
  BY DEF JoinInv, JoinTypes
<1>2. /\ members' \in Seq(MembershipRow) /\ DOMAIN members' = DOMAIN members \cup {m} /\ m \notin DOMAIN members
      /\ members'[m] = row /\ \A n \in DOMAIN members : members'[n] = members[n]
  BY <1>1, RowAdded
<1> HIDE DEF m
<1>3. \A u \in Identities : identity[u].kind # "NONE" => identity'[u].kind # "NONE"
  OBVIOUS
<1>4. ASSUME NEW n \in DOMAIN members, members[n].status # "DELETED"
      PROVE  identity'[members[n].user].kind = identity[members[n].user].kind /\ members[n].user # members'[m].user
  <2>1. members[n].user \in Identities
    BY <1>4 DEF JoinInv, GoodRoster
  <2> QED BY <1>2, <1>4, <2>1
<1>5. \A n \in Active : n # m
  BY <1>2 DEF Active
<1>6. GoodRoster'
  BY <1>2, <1>3, <1>4, <1>5, RosterChanged
<1> QED BY <1>2, <1>6

\* A membership that is not deleted is rewritten, for the same person.
LEMMA RosterRewritten ==
  ASSUME JoinInv, NEW m \in DOMAIN members, NEW row \in MembershipRow, members' = [members EXCEPT ![m] = row],
         members[m].status # "DELETED", row.status # "DELETED", row.user = members[m].user,
         \A v \in Identities : v # row.user => identity'[v].kind = identity[v].kind,
         identity'[row.user].kind # "NONE",
         (row.roles # {}) <=> (row.status = "ACTIVE" /\ identity'[row.user].kind # "GUEST"),
         row.status = "ACTIVE" /\ identity'[row.user].kind = "GUEST" => ~NameTaken(row.name, m)
  PROVE  members' \in Seq(MembershipRow) /\ GoodRoster'
<1>1. members \in Seq(MembershipRow) /\ GoodRoster
  BY DEF JoinInv, JoinTypes
<1>2. /\ members' \in Seq(MembershipRow) /\ DOMAIN members' = DOMAIN members
      /\ members'[m] = row /\ \A n \in DOMAIN members : n # m => members'[n] = members[n]
  BY <1>1, RowReplaced
<1>3. row.user \in Identities
  BY <1>1 DEF GoodRoster
<1>4. \A u \in Identities : identity[u].kind # "NONE" => identity'[u].kind # "NONE"
  OBVIOUS
<1>5. ASSUME NEW n \in DOMAIN members, n # m, members[n].status # "DELETED"
      PROVE  identity'[members[n].user].kind = identity[members[n].user].kind /\ members[n].user # members'[m].user
  <2>1. members[n].user \in Identities /\ members[n].user # row.user
    BY <1>1, <1>5 DEF GoodRoster
  <2> QED BY <1>2, <2>1
<1>6. row.status = "ACTIVE" /\ identity'[row.user].kind = "GUEST" => \A n \in Active : n # m => members[n].name # row.name
  BY DEF NameTaken
<1>7. GoodRoster'
  BY <1>2, <1>3, <1>4, <1>5, <1>6, RosterChanged
<1> QED BY <1>2, <1>7

\* The offers and registrations stay as good as they are.
LEMMA JoinStays ==
  ASSUME JoinInv, UNCHANGED <<invitations, form, link, registrations>>, identity' \in [Identities -> IdentityRow],
         members' \in Seq(MembershipRow), UniqueAccounts', GoodRoster'
  PROVE  JoinInv'
<1>1. JoinTypes'
  BY DEF JoinInv, JoinTypes
<1>2. OneOffer'
  BY DEF JoinInv, OneOffer, Current, Pending
<1>3. GoodRegistrations'
  BY DEF JoinInv, GoodRegistrations, Confirmable, Registered
<1> QED BY <1>1, <1>2, <1>3 DEF JoinInv

LEMMA SamePeople ==
  ASSUME JoinInv, UNCHANGED identity
  PROVE  identity' \in [Identities -> IdentityRow] /\ UniqueAccounts'
BY DEF JoinInv, JoinTypes, UniqueAccounts

LEMMA MemberTyped ==
  ASSUME JoinInv, NEW m \in DOMAIN members
  PROVE  /\ members[m] \in MembershipRow
         /\ members[m].status # "DELETED" => members[m].user \in Identities /\ identity[members[m].user].kind # "NONE"
         /\ (members[m].roles # {}) <=> (members[m].status = "ACTIVE" /\ identity[members[m].user].kind # "GUEST")
<1>1. members \in Seq(MembershipRow)
  BY DEF JoinInv, JoinTypes
<1>2. members[m] \in MembershipRow
  BY <1>1, LenProperties, ElementOfSeq
<1> QED BY <1>2 DEF JoinInv, GoodRoster
LEMMA GuestsKeepInv ==
  ASSUME JoinInv, NEW name \in GuestNames,
         CreateTemporaryGuest(name) \/ \E m \in DOMAIN members : RenameTemporaryGuest(m, name) \/ ReactivateGuest(m, name)
  PROVE  JoinInv'
<1>1. UNCHANGED <<invitations, form, link, registrations>>
  BY DEF CreateTemporaryGuest, RenameTemporaryGuest, ReactivateGuest
<1>2. CASE CreateTemporaryGuest(name)
  <2>1. PICK u \in Identities :
          Fresh(u) /\ Identified(u, "GUEST", NoMailbox) /\ members' = Append(members, Joined(u, {}, name))
    BY <1>2 DEF CreateTemporaryGuest
  <2> DEFINE row == Joined(u, {}, name)
  <2>2. /\ row \in MembershipRow /\ row.user = u /\ row.status = "ACTIVE" /\ row.roles = {} /\ row.name = name
        /\ members' = Append(members, row)
    BY <2>1 DEF Joined, MembershipRow
  <2> HIDE DEF row
  <2>3. /\ identity' \in [Identities -> IdentityRow] /\ identity'[u].kind = "GUEST" /\ UniqueAccounts'
        /\ \A v \in Identities : v # u => identity'[v] = identity[v]
    BY <2>1, IdentityWritten
  <2>4. \A n \in DOMAIN members : members[n].user # u
    BY <2>1, FreshHasNoMembership
  <2>5. \A n \in Active : members[n].name # name
    <3>1. 0 \notin DOMAIN members
      <4>1. members \in Seq(MembershipRow)
        BY DEF JoinInv, JoinTypes
      <4> QED BY <4>1, LenProperties
    <3> QED BY <1>2, <3>1 DEF CreateTemporaryGuest, NameTaken, Active
  <2>6. members' \in Seq(MembershipRow) /\ GoodRoster'
    BY <2>2, <2>3, <2>4, <2>5, RosterAppended
  <2> QED BY <1>1, <2>3, <2>6, JoinStays
<1>3. ASSUME NEW m \in DOMAIN members, RenameTemporaryGuest(m, name) \/ ReactivateGuest(m, name) PROVE JoinInv'
  <2>1. PICK old : old = members[m]
    OBVIOUS
  <2> DEFINE row == [old EXCEPT !.status = "ACTIVE", !.name = name]
  <2>2. /\ old \in MembershipRow /\ old.status # "DELETED" /\ old.user \in Identities
        /\ identity[old.user].kind = "GUEST" /\ old.roles = {}
    BY <1>3, <2>1, MemberTyped DEF RenameTemporaryGuest, ReactivateGuest, Guests, Active
  <2>3. identity' = identity /\ ~NameTaken(name, m)
    BY <1>3 DEF RenameTemporaryGuest, ReactivateGuest
  <2>4. members \in Seq(MembershipRow)
    BY DEF JoinInv, JoinTypes
  <2>5. members' = [members EXCEPT ![m] = row]
    <3>1. CASE RenameTemporaryGuest(m, name)
      <4>1. old.status = "ACTIVE" /\ members' = [members EXCEPT ![m].name = name]
        BY <2>1, <3>1 DEF RenameTemporaryGuest, Guests, Active
      <4>2. row = [old EXCEPT !.name = name]
        BY <2>2, <4>1 DEF MembershipRow
      <4> QED BY <2>1, <4>1, <4>2
    <3>2. CASE ReactivateGuest(m, name)
      BY <2>1, <2>2, <2>4, <3>2 DEF ReactivateGuest, MembershipRow
    <3> QED BY <1>3, <3>1, <3>2
  <2>6. row \in MembershipRow /\ row.user = old.user /\ row.status = "ACTIVE" /\ row.roles = {} /\ row.name = name
    BY <2>2 DEF MembershipRow
  <2> HIDE DEF row
  <2>7. members' \in Seq(MembershipRow) /\ GoodRoster'
    BY <2>1, <2>2, <2>3, <2>5, <2>6, RosterRewritten
  <2> QED BY <1>1, <2>3, <2>7, SamePeople, JoinStays
<1> QED BY <1>2, <1>3

LEMMA ReactivateKeepsInv ==
  ASSUME JoinInv, NEW m \in DOMAIN members, NEW roleSet \in RoleSets, ReactivateAccount(m, roleSet)
  PROVE  JoinInv'
<1>1. PICK old : old = members[m]
  OBVIOUS
<1> DEFINE given == old.roles \cup roleSet
           row   == [old EXCEPT !.status = "ACTIVE", !.roles = given]
<1>2. /\ old \in MembershipRow /\ old.status = "ARCHIVED" /\ old.user \in Identities
      /\ identity[old.user].kind = "ACCOUNT"
  BY <1>1, MemberTyped DEF ReactivateAccount
<1>3. identity' = identity /\ UNCHANGED <<invitations, form, link, registrations>>
  BY DEF ReactivateAccount
<1>4. members' = [members EXCEPT ![m].status = "ACTIVE", ![m].roles = given] /\ members \in Seq(MembershipRow)
  BY <1>1 DEF ReactivateAccount, JoinInv, JoinTypes
<1>5. given \in SUBSET UNION RoleSets /\ given # {}
  <2>1. old.roles \in SUBSET UNION RoleSets
    BY <1>2 DEF MembershipRow
  <2> QED BY <2>1, JoiningAssumption
<1> HIDE DEF given
<1>6. members' = [members EXCEPT ![m] = row]
  BY <1>1, <1>2, <1>4 DEF MembershipRow
<1>7. row \in MembershipRow /\ row.user = old.user /\ row.status = "ACTIVE" /\ row.roles = given
  BY <1>2, <1>5 DEF MembershipRow
<1> HIDE DEF row
<1>8. members' \in Seq(MembershipRow) /\ GoodRoster'
  BY <1>1, <1>2, <1>3, <1>5, <1>6, <1>7, RosterRewritten
<1> QED BY <1>3, <1>8, SamePeople, JoinStays

\* Claims of a membership that goes are revoked.
LEMMA ClaimsRevoked ==
  ASSUME JoinInv, NEW m, invitations' = RevokeMemberClaimInvitations(m), form' = form
  PROVE  /\ invitations' \in Seq(OfferRow) /\ OneOffer' /\ form'.invitation \in 0 .. Len(invitations')
         /\ DOMAIN invitations' = DOMAIN invitations
         /\ \A i \in DOMAIN invitations : invitations'[i].state = "ACCEPTED" => invitations[i].state = "ACCEPTED"
<1>1. invitations \in Seq(OfferRow) /\ form.invitation \in 0 .. Len(invitations)
  BY DEF JoinInv, JoinTypes
<1>2. \A i \in DOMAIN invitations : invitations[i] \in OfferRow
  BY <1>1, LenProperties, ElementOfSeq
<1>3. invitations' = [i \in DOMAIN invitations |-> invitations'[i]]
  BY DEF RevokeMemberClaimInvitations
<1>4. \A i \in DOMAIN invitations :
        invitations'[i] = invitations[i] \/ invitations'[i] = [invitations[i] EXCEPT !.state = "REVOKED"]
  BY DEF RevokeMemberClaimInvitations
<1>5. ASSUME NEW i \in DOMAIN invitations
      PROVE  /\ invitations'[i] \in OfferRow /\ invitations'[i].email = invitations[i].email
             /\ invitations'[i].state = "ACCEPTED" => invitations[i].state = "ACCEPTED"
             /\ invitations'[i].state = "OPEN" /\ invitations'[i].fresh =>
                  invitations[i].state = "OPEN" /\ invitations[i].fresh
  <2>1. PICK old \in OfferRow : old = invitations[i]
    BY <1>2
  <2>2. PICK new : new = invitations'[i]
    OBVIOUS
  <2>3. new = old \/ new = [old EXCEPT !.state = "REVOKED"]
    BY <1>4, <2>1, <2>2
  <2>4. new \in OfferRow /\ new.email = old.email /\ (new = old \/ new.state = "REVOKED")
    BY <2>3 DEF OfferRow
  <2> QED BY <2>1, <2>2, <2>4
<1>6. invitations' \in Seq(OfferRow) /\ DOMAIN invitations' = DOMAIN invitations /\ Len(invitations') = Len(invitations)
  BY <1>1, <1>3, <1>5, RowsRewritten
<1>7. OneOffer'
  BY <1>5, <1>6, FewerOffers
<1> QED BY <1>1, <1>5, <1>6, <1>7

\* Offers change as well.
LEMMA JoinMoves ==
  ASSUME JoinInv, UNCHANGED <<link, registrations>>, identity' \in [Identities -> IdentityRow],
         members' \in Seq(MembershipRow), UniqueAccounts', GoodRoster',
         invitations' \in Seq(OfferRow), form'.invitation \in 0 .. Len(invitations'), OneOffer'
  PROVE  JoinInv'
<1>1. JoinTypes'
  BY DEF JoinInv, JoinTypes
<1>2. GoodRegistrations'
  BY DEF JoinInv, GoodRegistrations, Confirmable, Registered
<1> QED BY <1>1, <1>2 DEF JoinInv

LEMMA LeavingKeepsInv ==
  ASSUME JoinInv, NEW m \in DOMAIN members, ArchiveMember(m) \/ PermanentlyDeleteMember(m)
  PROVE  JoinInv'
<1>1. PICK old : old = members[m]
  OBVIOUS
<1>2. /\ old \in MembershipRow /\ old.status # "DELETED" /\ old.user \in Identities
      /\ identity[old.user].kind # "NONE"
  BY <1>1, MemberTyped DEF ArchiveMember, PermanentlyDeleteMember, Active
<1>3. invitations' = RevokeMemberClaimInvitations(m) /\ UNCHANGED <<form, link, registrations>>
  BY DEF ArchiveMember, PermanentlyDeleteMember
<1>4. invitations' \in Seq(OfferRow) /\ OneOffer' /\ form'.invitation \in 0 .. Len(invitations')
  BY <1>3, ClaimsRevoked
<1>5. members \in Seq(MembershipRow) /\ GoodRoster /\ identity \in [Identities -> IdentityRow] /\ UniqueAccounts
  BY DEF JoinInv, JoinTypes
<1>6. CASE ArchiveMember(m)
  <2> DEFINE row == [old EXCEPT !.status = "ARCHIVED", !.roles = {}]
  <2>1. members' = [members EXCEPT ![m] = row] /\ identity' = identity
    BY <1>1, <1>6 DEF ArchiveMember, Archived
  <2>2. row \in MembershipRow /\ row.user = old.user /\ row.status = "ARCHIVED" /\ row.roles = {}
    BY <1>2 DEF MembershipRow
  <2> HIDE DEF row
  <2>3. members' \in Seq(MembershipRow) /\ GoodRoster'
    BY <1>1, <1>2, <2>1, <2>2, RosterRewritten
  <2> QED BY <1>3, <1>4, <2>1, <2>3, SamePeople, JoinMoves
<1>7. CASE PermanentlyDeleteMember(m)
  <2> DEFINE guest == identity[old.user].kind = "GUEST"
             row   == [user |-> IF guest THEN old.user ELSE 0, status |-> "DELETED", roles |-> {}, name |-> NoName]
  <2>1. /\ members' = [members EXCEPT ![m] = row]
        /\ identity' = IF guest THEN [identity EXCEPT ![old.user].kind = "INACTIVE"] ELSE identity
    BY <1>1, <1>7 DEF PermanentlyDeleteMember
  <2>2. /\ row \in MembershipRow /\ row.status = "DELETED" /\ row.roles = {}
        /\ row.user \in Identities => row.user = old.user
    BY <1>2, JoiningAssumption DEF MembershipRow
  <2>3. /\ identity' \in [Identities -> IdentityRow]
        /\ \A v \in Identities : /\ v # old.user => identity'[v] = identity[v]
                                 /\ identity[v].kind # "NONE" => identity'[v].kind # "NONE"
                                 /\ identity'[v].kind = "ACCOUNT" => identity'[v] = identity[v]
    <3>1. identity[old.user] \in IdentityRow
      BY <1>2, <1>5
    <3>2. [identity[old.user] EXCEPT !.kind = "INACTIVE"] \in IdentityRow
      BY <3>1 DEF IdentityRow
    <3>3. [identity[old.user] EXCEPT !.kind = "INACTIVE"].kind = "INACTIVE"
      BY <3>1 DEF IdentityRow
    <3> HIDE DEF row
    <3> QED BY <1>2, <1>5, <2>1, <3>2, <3>3
  <2> HIDE DEF row, guest
  <2>4. UniqueAccounts'
    BY <1>5, <2>3 DEF UniqueAccounts
  <2>5. /\ members' \in Seq(MembershipRow) /\ DOMAIN members' = DOMAIN members
        /\ members'[m] = row /\ \A n \in DOMAIN members : n # m => members'[n] = members[n]
    BY <1>5, <2>1, <2>2, RowReplaced
  <2>6. \A n \in DOMAIN members : n # m /\ members[n].status # "DELETED" =>
          identity'[members[n].user].kind = identity[members[n].user].kind
    BY <1>1, <1>2, <1>5, <2>3 DEF GoodRoster
  <2>7. GoodRoster'
    BY <1>2, <2>2, <2>3, <2>5, <2>6, RosterChanged
  <2> QED BY <1>3, <1>4, <2>3, <2>4, <2>5, <2>7, JoinMoves
<1> QED BY <1>6, <1>7
LEMMA MoveKeepsInv ==
  ASSUME JoinInv, NEW u \in Identities, NEW email \in Mailboxes, MoveMailbox(u, email)
  PROVE  JoinInv'
<1>1. UNCHANGED <<members, invitations, form, link, registrations>> /\ identity[u].kind = "ACCOUNT"
  BY DEF MoveMailbox
<1>2. /\ identity' \in [Identities -> IdentityRow] /\ identity'[u].kind = "ACCOUNT" /\ UniqueAccounts'
      /\ \A v \in Identities : v # u => identity'[v] = identity[v]
  BY IdentityWritten DEF MoveMailbox
<1>3. \A v \in Identities : identity'[v].kind = identity[v].kind
  BY <1>1, <1>2
<1>4. GoodRoster
  BY DEF JoinInv
<1>5. Guests' = Guests
  BY <1>1, <1>3, <1>4 DEF GoodRoster, Guests, Active
<1>6. \A m \in DOMAIN members :
        (members[m].roles # {}) <=> (members[m].status = "ACTIVE" /\ identity'[members[m].user].kind # "GUEST")
  <2> SUFFICES ASSUME NEW m \in DOMAIN members
               PROVE  (members[m].roles # {}) <=> (members[m].status = "ACTIVE" /\ identity'[members[m].user].kind # "GUEST")
    OBVIOUS
  <2>1. CASE members[m].status = "DELETED"
    BY <1>4, <2>1 DEF GoodRoster
  <2>2. CASE members[m].status # "DELETED"
    BY <1>3, <1>4, <2>2 DEF GoodRoster
  <2> QED BY <2>1, <2>2
<1>7. GoodRoster'
  BY <1>1, <1>3, <1>4, <1>5, <1>6 DEF GoodRoster
<1>8. members' \in Seq(MembershipRow)
  BY <1>1 DEF JoinInv, JoinTypes
<1> QED BY <1>1, <1>2, <1>7, <1>8, JoinStays

\* A person without a current membership gets one, or the archived one again.
Enters(u, roleSet) ==
  \/ /\ \A n \in DOMAIN members : members[n].user = u => members[n].status = "DELETED"
     /\ members' = Append(members, Joined(u, roleSet, NoName))
  \/ \E m \in DOMAIN members :
       /\ members[m].user = u /\ members[m].status = "ARCHIVED"
       /\ \/ members' = [members EXCEPT ![m].status = "ACTIVE", ![m].roles = @ \cup roleSet]
          \/ members' = [members EXCEPT ![m].status = "ACTIVE", ![m].roles = roleSet]

\* One membership is written: the person is a member now, with these roles.
BecomesMember(u, roleSet) ==
  \E m \in DOMAIN members' :
    /\ members'[m].status = "ACTIVE" /\ members'[m].roles = roleSet /\ members'[m].user = u
    /\ \A n \in DOMAIN members : n # m => members'[n] = members[n]

LEMMA Entered ==
  ASSUME JoinInv, NEW u \in Identities, NEW roleSet \in RoleSets, identity'[u].kind = "ACCOUNT",
         \A v \in Identities : v # u => identity'[v] = identity[v], Enters(u, roleSet)
  PROVE  members' \in Seq(MembershipRow) /\ GoodRoster' /\ BecomesMember(u, roleSet)
<1>1. members \in Seq(MembershipRow)
  BY DEF JoinInv, JoinTypes
<1>2. roleSet \in SUBSET UNION RoleSets /\ roleSet # {}
  BY JoiningAssumption
<1>3. ASSUME \A n \in DOMAIN members : members[n].user = u => members[n].status = "DELETED",
             members' = Append(members, Joined(u, roleSet, NoName))
      PROVE  members' \in Seq(MembershipRow) /\ GoodRoster' /\ BecomesMember(u, roleSet)
  <2> DEFINE m == Len(members) + 1
  <2>0. PICK row : row = Joined(u, roleSet, NoName)
    OBVIOUS
  <2>1. row \in MembershipRow /\ row.user = u /\ row.status = "ACTIVE" /\ row.roles = roleSet
    BY <1>2, <2>0 DEF Joined, MembershipRow
  <2>2. members' = Append(members, row)
    BY <1>3, <2>0
  <2>3. members' \in Seq(MembershipRow) /\ GoodRoster'
    BY <1>2, <1>3, <2>1, <2>2, RosterAppended
  <2>4. /\ DOMAIN members' = DOMAIN members \cup {m}
        /\ members'[m] = row /\ \A n \in DOMAIN members : members'[n] = members[n]
    <3>1. /\ DOMAIN Append(members, row) = DOMAIN members \cup {Len(members) + 1}
          /\ Append(members, row)[Len(members) + 1] = row
          /\ \A n \in DOMAIN members : Append(members, row)[n] = members[n]
      BY ONLY <1>1, <2>1, RowAdded
    <3> QED BY <2>2, <3>1
  <2> HIDE DEF m
  <2> QED BY <2>1, <2>3, <2>4 DEF BecomesMember
<1>4. ASSUME NEW m \in DOMAIN members, members[m].user = u, members[m].status = "ARCHIVED",
             \/ members' = [members EXCEPT ![m].status = "ACTIVE", ![m].roles = @ \cup roleSet]
             \/ members' = [members EXCEPT ![m].status = "ACTIVE", ![m].roles = roleSet]
      PROVE  members' \in Seq(MembershipRow) /\ GoodRoster' /\ BecomesMember(u, roleSet)
  <2>1. PICK old : old = members[m]
    OBVIOUS
  <2> DEFINE row == [old EXCEPT !.status = "ACTIVE", !.roles = roleSet]
  <2>2. old \in MembershipRow /\ old.roles = {}
    BY <1>4, <2>1, MemberTyped
  <2>3. members' = [members EXCEPT ![m].status = "ACTIVE", ![m].roles = roleSet]
    <3>1. members[m].roles \cup roleSet = roleSet
      BY <2>1, <2>2
    <3> QED BY <1>4, <3>1
  <2>4. members' = [members EXCEPT ![m] = row]
    BY <1>1, <2>1, <2>2, <2>3 DEF MembershipRow
  <2>5. row \in MembershipRow /\ row.user = u /\ row.status = "ACTIVE" /\ row.roles = roleSet
    BY <1>2, <1>4, <2>1, <2>2 DEF MembershipRow
  <2> HIDE DEF row
  <2>6. members' \in Seq(MembershipRow) /\ GoodRoster'
    <3>1. /\ members[m].status # "DELETED" /\ row.status # "DELETED" /\ row.user = members[m].user
          /\ identity'[row.user].kind # "NONE" /\ identity'[row.user].kind # "GUEST" /\ row.roles # {}
      BY <1>2, <1>4, <2>5
    <3>2. \A v \in Identities : v # row.user => identity'[v].kind = identity[v].kind
      BY <2>5
    <3> QED BY <2>4, <2>5, <3>1, <3>2, RosterRewritten
  <2>7. /\ DOMAIN members' = DOMAIN members /\ members'[m] = row
        /\ \A n \in DOMAIN members : n # m => members'[n] = members[n]
    BY <1>1, <2>4, <2>5, RowReplaced
  <2> QED BY <2>5, <2>6, <2>7 DEF BecomesMember
<1> QED BY <1>3, <1>4 DEF Enters

LEMMA PublicKeepsInv ==
  ASSUME JoinInv, (\E u \in Identities : AcceptPublicJoinLink(u))
                    \/ \E r \in DOMAIN registrations : ConfirmPublicJoinRegistration(r)
  PROVE  JoinInv'
<1>1. DefaultRoles \in RoleSets
  BY JoiningAssumption
<1>2. ASSUME NEW u \in Identities, AcceptPublicJoinLink(u) PROVE JoinInv'
  <2>1. identity[u].kind = "ACCOUNT" /\ UNCHANGED <<identity, invitations, form, link, registrations>>
    BY <1>2 DEF AcceptPublicJoinLink
  <2>2. Enters(u, DefaultRoles)
    BY <1>2 DEF AcceptPublicJoinLink, MembershipsOf, Enters
  <2>3. members' \in Seq(MembershipRow) /\ GoodRoster'
    BY <1>1, <2>1, <2>2, Entered
  <2> QED BY <2>1, <2>3, SamePeople, JoinStays
<1>3. ASSUME NEW r \in DOMAIN registrations, ConfirmPublicJoinRegistration(r) PROVE JoinInv'
  <2>1. PICK email : email = registrations[r].email
    OBVIOUS
  <2>2. registrations \in Seq(RegistrationRow) /\ link \in LinkRow
    BY DEF JoinInv, JoinTypes
  <2>3. registrations[r] \in RegistrationRow
    BY <2>2, LenProperties, ElementOfSeq
  <2>4. email \in Mailboxes
    BY <2>1, <2>3 DEF RegistrationRow
  <2>5. PICK u \in Identities : /\ Fresh(u) /\ Identified(u, "ACCOUNT", email)
                                /\ members' = Append(members, Joined(u, DefaultRoles, NoName))
    BY <1>3, <2>1 DEF ConfirmPublicJoinRegistration
  <2>6. Accounts(email) = {}
    BY <1>3, <2>1 DEF ConfirmPublicJoinRegistration
  <2>7. /\ identity' \in [Identities -> IdentityRow] /\ identity'[u].kind = "ACCOUNT" /\ UniqueAccounts'
        /\ \A v \in Identities : v # u => identity'[v] = identity[v]
    BY <2>4, <2>5, <2>6, IdentityWritten
  <2>8. \A n \in DOMAIN members : members[n].user # u
    BY <2>5, FreshHasNoMembership
  <2>9. members' \in Seq(MembershipRow) /\ GoodRoster'
    <3>1. Enters(u, DefaultRoles)
      BY <2>5, <2>8 DEF Enters
    <3> QED BY <1>1, <2>7, <3>1, Entered
  <2>10. /\ registrations' = [registrations EXCEPT ![r].state = "CONSUMED"]
         /\ UNCHANGED <<invitations, form, link>>
    BY <1>3 DEF ConfirmPublicJoinRegistration
  <2>11. /\ registrations' = [q \in DOMAIN registrations |-> registrations'[q]]
         /\ \A q \in DOMAIN registrations :
              registrations'[q] = registrations[q] \/ registrations'[q] = [registrations[q] EXCEPT !.state = "CONSUMED"]
    BY <2>2, <2>10
  <2>12. /\ registrations' \in Seq(RegistrationRow) /\ DOMAIN registrations' = DOMAIN registrations
         /\ \A q \in DOMAIN registrations :
              /\ registrations'[q].version = registrations[q].version /\ registrations'[q].token = registrations[q].token
              /\ registrations'[q].state = "OPEN" => registrations[q].state = "OPEN"
              /\ registrations'[q].fresh => registrations[q].fresh
    BY <2>11, RegistrationsRewritten
  <2>13. GoodRegistrations'
    BY <2>10, <2>12 DEF JoinInv, GoodRegistrations, Confirmable, Registered
  <2>14. JoinTypes'
    BY <2>7, <2>9, <2>10, <2>12 DEF JoinInv, JoinTypes
  <2>15. OneOffer'
    BY <2>10 DEF JoinInv, OneOffer, Current, Pending
  <2> QED BY <2>7, <2>9, <2>13, <2>14, <2>15 DEF JoinInv
<1> QED BY <1>2, <1>3
\* The accepted invitation is bound and closed; others are at most bound.
LEMMA AcceptedOffers ==
  ASSUME JoinInv, NEW i \in DOMAIN invitations, NEW u \in Identities, invitations' = Accepted(i, u), form' = NoForm
  PROVE  /\ invitations' \in Seq(OfferRow) /\ OneOffer' /\ form'.invitation \in 0 .. Len(invitations')
         /\ DOMAIN invitations' = DOMAIN invitations
         /\ \A j \in DOMAIN invitations :
              j # i /\ invitations'[j].state = "ACCEPTED" => invitations[j].state = "ACCEPTED"
<1>1. PICK bound : bound = BindOpenInvitations(invitations, invitations[i].email, u)
  OBVIOUS
<1>2. invitations \in Seq(OfferRow)
  BY DEF JoinInv, JoinTypes
<1>3. \A j \in DOMAIN invitations : invitations[j] \in OfferRow
  BY <1>2, LenProperties, ElementOfSeq
<1>4. /\ bound = [j \in DOMAIN invitations |-> bound[j]]
      /\ \A j \in DOMAIN invitations :
           bound[j] = invitations[j] \/ bound[j] = [invitations[j] EXCEPT !.bound = u]
  BY <1>1 DEF BindOpenInvitations
<1>5. ASSUME NEW j \in DOMAIN invitations
      PROVE  /\ bound[j] \in OfferRow /\ bound[j].email = invitations[j].email
             /\ bound[j].state = invitations[j].state /\ bound[j].fresh = invitations[j].fresh
  <2>1. invitations[j] \in OfferRow
    BY <1>3
  <2> QED BY <1>4, <2>1 DEF OfferRow
<1>6. bound \in Seq(OfferRow) /\ DOMAIN bound = DOMAIN invitations
  BY <1>2, <1>4, <1>5, RowsRewritten
<1>7. PICK row : row = [bound[i] EXCEPT !.state = "ACCEPTED"]
  OBVIOUS
<1>8. row \in OfferRow /\ row.email = invitations[i].email /\ row.state = "ACCEPTED"
  BY <1>5, <1>7 DEF OfferRow
<1>9. invitations' = [bound EXCEPT ![i] = row]
  BY <1>1, <1>7 DEF Accepted
<1>10. /\ invitations' \in Seq(OfferRow) /\ DOMAIN invitations' = DOMAIN invitations /\ invitations'[i] = row
       /\ \A j \in DOMAIN invitations : j # i => invitations'[j] = bound[j]
  <2>1. /\ [bound EXCEPT ![i] = row] \in Seq(OfferRow) /\ DOMAIN [bound EXCEPT ![i] = row] = DOMAIN bound
        /\ [bound EXCEPT ![i] = row][i] = row
        /\ \A j \in DOMAIN bound : j # i => [bound EXCEPT ![i] = row][j] = bound[j]
    BY <1>6, <1>8, RowReplaced
  <2> QED BY <1>6, <1>9, <2>1
<1>11. \A j \in DOMAIN invitations :
         /\ invitations'[j].email = invitations[j].email
         /\ invitations'[j].state = "OPEN" /\ invitations'[j].fresh =>
              invitations[j].state = "OPEN" /\ invitations[j].fresh
  BY <1>5, <1>8, <1>10
<1>12. OneOffer'
  BY <1>10, <1>11, FewerOffers
<1>13. form'.invitation \in 0 .. Len(invitations')
  BY <1>10, LenProperties DEF NoForm
<1>14. \A j \in DOMAIN invitations : j # i /\ invitations'[j].state = "ACCEPTED" => invitations[j].state = "ACCEPTED"
  BY <1>5, <1>10
<1> QED BY <1>10, <1>12, <1>13, <1>14

\* The members after an invitation was accepted: one row is written, with the
\* roles of the invitation, and a claim names it.
GivenRoles(i) ==
  \E m \in DOMAIN members' :
    /\ members'[m].status = "ACTIVE" /\ members'[m].roles = invitations[i].roles
    /\ invitations[i].claim \in {0, m}
    /\ invitations[i].bound \in {0, members'[m].user}
    /\ \A n \in DOMAIN members \ {m} : members'[n] = members[n]

\* What a person who accepts needs of the invitation.
LEMMA OfferTyped ==
  ASSUME JoinInv, NEW i \in DOMAIN invitations
  PROVE  /\ invitations[i] \in OfferRow
         /\ \A u \in InvitationAccounts(i) :
              u \in Identities /\ identity[u].kind = "ACCOUNT" /\ invitations[i].bound \in {0, u}
         /\ AccountState(i) # "EXISTING" /\ invitations[i].bound = 0 => Accounts(invitations[i].email) = {}
<1>1. invitations \in Seq(OfferRow)
  BY DEF JoinInv, JoinTypes
<1>2. invitations[i] \in OfferRow
  BY <1>1, LenProperties, ElementOfSeq
<1>3. invitations[i].bound \in Identities \cup {0}
  BY <1>2 DEF OfferRow
<1>4. ASSUME NEW u \in InvitationAccounts(i)
      PROVE  u \in Identities /\ identity[u].kind = "ACCOUNT" /\ invitations[i].bound \in {0, u}
  BY <1>3, <1>4 DEF InvitationAccounts, Accounts
<1>5. AccountState(i) # "EXISTING" /\ invitations[i].bound = 0 => Accounts(invitations[i].email) = {}
  BY DEF AccountState, InvitationAccounts
<1> QED BY <1>2, <1>4, <1>5

LEMMA StandardKeepsInv ==
  ASSUME JoinInv, NEW i \in DOMAIN invitations, AcceptStandard(i), form' = NoForm, UNCHANGED <<link, registrations>>
  PROVE  /\ JoinInv' /\ GivenRoles(i)
         /\ \A j \in DOMAIN invitations :
              j # i /\ invitations'[j].state = "ACCEPTED" => invitations[j].state = "ACCEPTED"
<1>1. PICK inv : inv = invitations[i]
  OBVIOUS
<1>2. inv \in OfferRow /\ inv.claim = 0
  BY <1>1, OfferTyped DEF AcceptStandard
<1>3. inv.roles \in RoleSets /\ inv.email \in Mailboxes
  BY <1>2 DEF OfferRow
<1>4. \E u \in Identities :
        /\ JoinInvitationMembership(u, inv.roles) /\ invitations' = Accepted(i, u) /\ inv.bound \in {0, u}
        /\ identity' \in [Identities -> IdentityRow] /\ UniqueAccounts' /\ identity'[u].kind = "ACCOUNT"
        /\ \A v \in Identities : v # u => identity'[v] = identity[v]
  <2>1. CASE AccountState(i) = "EXISTING"
    <3>1. PICK u \in InvitationAccounts(i) :
            JoinInvitationMembership(u, inv.roles) /\ invitations' = Accepted(i, u) /\ identity' = identity
      BY <1>1, <2>1 DEF AcceptStandard
    <3>2. u \in Identities /\ identity[u].kind = "ACCOUNT" /\ inv.bound \in {0, u}
      BY <1>1, OfferTyped
    <3>3. identity' \in [Identities -> IdentityRow] /\ UniqueAccounts'
      BY <3>1, SamePeople
    <3> QED BY <3>1, <3>2, <3>3
  <2>2. CASE AccountState(i) # "EXISTING"
    <3>1. inv.bound = 0
      BY <1>1, <2>2 DEF AcceptStandard
    <3>2. PICK u \in Identities : /\ Identified(u, "ACCOUNT", inv.email)
                                  /\ JoinInvitationMembership(u, inv.roles) /\ invitations' = Accepted(i, u)
      BY <1>1, <2>2 DEF AcceptStandard
    <3>3. Accounts(inv.email) = {}
      BY <1>1, <2>2, <3>1, OfferTyped
    <3>4. /\ identity' \in [Identities -> IdentityRow] /\ identity'[u].kind = "ACCOUNT" /\ UniqueAccounts'
          /\ \A v \in Identities : v # u => identity'[v] = identity[v]
      BY <1>3, <3>2, <3>3, IdentityWritten
    <3> QED BY <3>1, <3>2, <3>4
  <2> QED BY <2>1, <2>2
<1>5. PICK u \in Identities :
        /\ JoinInvitationMembership(u, inv.roles) /\ invitations' = Accepted(i, u) /\ inv.bound \in {0, u}
        /\ identity' \in [Identities -> IdentityRow] /\ UniqueAccounts' /\ identity'[u].kind = "ACCOUNT"
        /\ \A v \in Identities : v # u => identity'[v] = identity[v]
  BY <1>4
<1>6. Enters(u, inv.roles)
  BY <1>5 DEF JoinInvitationMembership, MembershipsOf, Enters
<1>7. members' \in Seq(MembershipRow) /\ GoodRoster' /\ BecomesMember(u, inv.roles)
  BY <1>3, <1>5, <1>6, Entered
<1>8. /\ invitations' \in Seq(OfferRow) /\ OneOffer' /\ form'.invitation \in 0 .. Len(invitations')
      /\ \A j \in DOMAIN invitations :
           j # i /\ invitations'[j].state = "ACCEPTED" => invitations[j].state = "ACCEPTED"
  BY <1>5, AcceptedOffers
<1>9. JoinInv'
  BY <1>5, <1>7, <1>8, JoinMoves
<1>10. GivenRoles(i)
  BY <1>1, <1>2, <1>5, <1>7 DEF GivenRoles, BecomesMember
<1> QED BY <1>8, <1>9, <1>10
LEMMA ClaimKeepsInv ==
  ASSUME JoinInv, NEW i \in DOMAIN invitations, AcceptClaim(i), form' = NoForm, UNCHANGED <<link, registrations>>
  PROVE  /\ JoinInv' /\ GivenRoles(i)
         /\ \A j \in DOMAIN invitations :
              j # i /\ invitations'[j].state = "ACCEPTED" => invitations[j].state = "ACCEPTED"
<1>1. PICK inv : inv = invitations[i]
  OBVIOUS
<1>2. PICK claim : claim = inv.claim
  OBVIOUS
<1>3. PICK guest : guest = members[claim].user
  OBVIOUS
<1>4. inv \in OfferRow
  BY <1>1, OfferTyped
<1>5. inv.roles \in RoleSets /\ inv.email \in Mailboxes /\ inv.roles \in SUBSET UNION RoleSets /\ inv.roles # {}
  <2>1. inv.roles \in RoleSets /\ inv.email \in Mailboxes
    BY <1>4 DEF OfferRow
  <2> QED BY <2>1, JoiningAssumption
<1>6. claim \in DOMAIN members /\ members[claim].status = "ACTIVE" /\ identity[guest].kind = "GUEST"
  BY <1>1, <1>2, <1>3 DEF AcceptClaim, Guests, Active
<1>7. guest \in Identities
  BY <1>3, <1>6, MemberTyped
<1>8. members \in Seq(MembershipRow) /\ GoodRoster
  BY DEF JoinInv, JoinTypes
<1>9. \A n \in DOMAIN members : n # claim /\ members[n].status # "DELETED" =>
        members[n].user \in Identities /\ members[n].user # guest
  BY <1>3, <1>6, <1>8 DEF GoodRoster
<1>10. \E u \in Identities :
         /\ members' = [members EXCEPT ![claim] = Joined(u, inv.roles, NoName)] /\ members' \in Seq(MembershipRow)
         /\ invitations' = Accepted(i, u) /\ inv.bound \in {0, u} /\ GoodRoster'
         /\ identity' \in [Identities -> IdentityRow] /\ UniqueAccounts'
  <2>1. CASE AccountState(i) = "EXISTING"
    <3>1. PICK u \in InvitationAccounts(i) :
            /\ MembershipsOf(u) = {} /\ members' = [members EXCEPT ![claim] = Joined(u, inv.roles, NoName)]
            /\ Identified(guest, "INACTIVE", NoMailbox) /\ invitations' = Accepted(i, u)
      BY <1>1, <1>2, <1>3, <2>1 DEF AcceptClaim
    <3>2. u \in Identities /\ identity[u].kind = "ACCOUNT" /\ inv.bound \in {0, u}
      BY <1>1, OfferTyped
    <3>3. /\ identity' \in [Identities -> IdentityRow] /\ identity'[guest].kind = "INACTIVE" /\ UniqueAccounts'
          /\ \A v \in Identities : v # guest => identity'[v] = identity[v]
      BY <1>7, <3>1, IdentityWritten
    <3>4. u # guest /\ identity'[u].kind = "ACCOUNT"
      BY <1>6, <3>2, <3>3
    <3>5. \A n \in DOMAIN members : members[n].user # u
      BY <3>1 DEF MembershipsOf
    <3>6. PICK row : row = Joined(u, inv.roles, NoName)
      OBVIOUS
    <3>7. row \in MembershipRow /\ row.user = u /\ row.status = "ACTIVE" /\ row.roles = inv.roles
      BY <1>5, <3>2, <3>6 DEF Joined, MembershipRow
    <3>8. /\ members' \in Seq(MembershipRow) /\ DOMAIN members' = DOMAIN members
          /\ members'[claim] = row /\ \A n \in DOMAIN members : n # claim => members'[n] = members[n]
      <4>1. members' = [members EXCEPT ![claim] = row]
        BY <3>1, <3>6
      <4> QED BY <1>6, <1>8, <3>7, <4>1, RowReplaced
    <3>9. DOMAIN members' = DOMAIN members \cup {claim}
      BY <1>6, <3>8
    <3>10. \A v \in Identities : identity[v].kind # "NONE" => identity'[v].kind # "NONE"
      BY <3>3
    <3>11. \A n \in DOMAIN members : n # claim /\ members[n].status # "DELETED" =>
             /\ identity'[members[n].user].kind = identity[members[n].user].kind
             /\ members'[claim].status # "DELETED" => members[n].user # members'[claim].user
      BY <1>9, <3>3, <3>5, <3>7, <3>8
    <3>12. /\ members'[claim].user \in Identities /\ members'[claim].status = "ACTIVE" /\ members'[claim].roles # {}
           /\ identity'[members'[claim].user].kind = "ACCOUNT"
      BY <1>5, <3>2, <3>4, <3>7, <3>8
    <3>13. GoodRoster'
      BY <3>8, <3>9, <3>10, <3>11, <3>12, RosterChanged
    <3> QED BY <3>1, <3>2, <3>3, <3>8, <3>13
  <2>2. CASE AccountState(i) # "EXISTING"
    <3>1. /\ inv.bound = 0 /\ Identified(guest, "ACCOUNT", inv.email) /\ invitations' = Accepted(i, guest)
          /\ members' = [members EXCEPT ![claim] = Joined(guest, inv.roles, NoName)]
      BY <1>1, <1>2, <1>3, <2>2 DEF AcceptClaim
    <3>2. Accounts(inv.email) = {}
      BY <1>1, <2>2, <3>1, OfferTyped
    <3>3. /\ identity' \in [Identities -> IdentityRow] /\ identity'[guest].kind = "ACCOUNT" /\ UniqueAccounts'
          /\ \A v \in Identities : v # guest => identity'[v] = identity[v]
      BY <1>5, <1>7, <3>1, <3>2, IdentityWritten
    <3>4. PICK row : row = Joined(guest, inv.roles, NoName)
      OBVIOUS
    <3>5. row \in MembershipRow /\ row.user = guest /\ row.status = "ACTIVE" /\ row.roles = inv.roles
      BY <1>5, <1>7, <3>4 DEF Joined, MembershipRow
    <3>6. members' = [members EXCEPT ![claim] = row]
      BY <3>1, <3>4
    <3>7. /\ members[claim].status # "DELETED" /\ row.status # "DELETED" /\ row.user = members[claim].user
          /\ identity'[row.user].kind = "ACCOUNT" /\ row.roles # {}
          /\ \A v \in Identities : v # row.user => identity'[v].kind = identity[v].kind
      BY <1>3, <1>5, <1>6, <3>3, <3>5
    <3>8. members' \in Seq(MembershipRow) /\ GoodRoster'
      BY <1>6, <3>5, <3>6, <3>7, RosterRewritten
    <3> QED BY <1>7, <3>1, <3>3, <3>8
  <2> QED BY <2>1, <2>2
<1>11. PICK u \in Identities :
         /\ members' = [members EXCEPT ![claim] = Joined(u, inv.roles, NoName)] /\ members' \in Seq(MembershipRow)
         /\ invitations' = Accepted(i, u) /\ inv.bound \in {0, u} /\ GoodRoster'
         /\ identity' \in [Identities -> IdentityRow] /\ UniqueAccounts'
  BY <1>10
<1>12. /\ invitations' \in Seq(OfferRow) /\ OneOffer' /\ form'.invitation \in 0 .. Len(invitations')
       /\ \A j \in DOMAIN invitations :
            j # i /\ invitations'[j].state = "ACCEPTED" => invitations[j].state = "ACCEPTED"
  BY <1>11, AcceptedOffers
<1>13. JoinInv'
  BY <1>11, <1>12, JoinMoves
<1>14. GivenRoles(i)
  <2>1. PICK row : row = Joined(u, inv.roles, NoName)
    OBVIOUS
  <2>2. row.user = u /\ row.status = "ACTIVE" /\ row.roles = inv.roles
    BY <2>1 DEF Joined
  <2>3. /\ claim \in DOMAIN members' /\ members'[claim] = row
        /\ \A n \in DOMAIN members : n # claim => members'[n] = members[n]
    BY <1>6, <1>11, <2>1
  <2> QED BY <1>1, <1>2, <1>11, <2>2, <2>3 DEF GivenRoles
<1> QED BY <1>12, <1>13, <1>14

LEMMA AcceptKeepsInv ==
  ASSUME JoinInv, AcceptInvitation
  PROVE  /\ JoinInv'
         /\ \A i \in DOMAIN invitations : Pending(i) /\ invitations'[i].state = "ACCEPTED" => GivenRoles(i)
<1>1. PICK i : i = form.invitation
  OBVIOUS
<1>2. i # 0 /\ (AcceptStandard(i) \/ AcceptClaim(i)) /\ form' = NoForm /\ UNCHANGED <<link, registrations>>
  BY <1>1 DEF AcceptInvitation
<1>3. i \in DOMAIN invitations
  <2>1. invitations \in Seq(OfferRow) /\ i \in 0 .. Len(invitations)
    BY <1>1 DEF JoinInv, JoinTypes
  <2>2. DOMAIN invitations = 1 .. Len(invitations) /\ Len(invitations) \in Nat
    BY <2>1, LenProperties
  <2> QED BY <1>2, <2>1, <2>2
<1>4. /\ JoinInv' /\ GivenRoles(i)
      /\ \A j \in DOMAIN invitations : j # i /\ invitations'[j].state = "ACCEPTED" => invitations[j].state = "ACCEPTED"
  BY <1>2, <1>3, StandardKeepsInv, ClaimKeepsInv
<1> QED BY <1>4 DEF Pending
LEMMA JoinStepKeepsInv ==
  ASSUME JoinInv, [JoinNext]_joinVars
  PROVE  JoinInv'
<1>1. CASE \E e \in Mailboxes, r \in RoleSets, c \in 0 .. Len(members) : CreateInvitation(e, r, c)
  BY <1>1, CreateInvitationKeepsInv
<1>2. CASE \E i \in DOMAIN invitations :
             \/ \E r \in RoleSets : UpdateInvitation(i, r)
             \/ ResendInvitationEmail(i) \/ RevokeInvitation(i) \/ ExpireInvitation(i) \/ PreviewInvitation(i)
  BY <1>2, OffersKeepInv
<1>3. CASE AcceptInvitation
  BY <1>3, AcceptKeepsInv
<1>4. CASE \/ \E n \in GuestNames : CreateTemporaryGuest(n)
           \/ \E m \in DOMAIN members, n \in GuestNames : RenameTemporaryGuest(m, n) \/ ReactivateGuest(m, n)
  BY <1>4, GuestsKeepInv
<1>5. CASE \E m \in DOMAIN members : (\E r \in RoleSets : ReactivateAccount(m, r))
                                       \/ ArchiveMember(m) \/ PermanentlyDeleteMember(m)
  BY <1>5, ReactivateKeepsInv, LeavingKeepsInv
<1>6. CASE \E u \in Identities, e \in Mailboxes : MoveMailbox(u, e)
  BY <1>6, MoveKeepsInv
<1>7. CASE \/ \E u \in Identities : AcceptPublicJoinLink(u)
           \/ \E r \in DOMAIN registrations : ConfirmPublicJoinRegistration(r)
  BY <1>7, PublicKeepsInv
<1>8. CASE (\E enabled \in BOOLEAN : PutPublicJoinLink(enabled)) \/ RotatePublicJoinLink \/ ExpireLink
  BY <1>8, LinkKeepsInv
<1>9. CASE \/ \E e \in Mailboxes : StartPublicJoinRegistration(e)
           \/ \E r \in DOMAIN registrations : ResendPublicJoinVerification(r)
  BY <1>9, RegistrationsKeepInv
<1>10. CASE UNCHANGED joinVars
  <2>1. UNCHANGED <<identity, members, invitations, form, link, registrations>>
    BY <1>10 DEF joinVars
  <2>2. invitations' \in Seq(OfferRow) /\ form'.invitation \in 0 .. Len(invitations') /\ OneOffer'
    BY <2>1 DEF JoinInv, JoinTypes, OneOffer, Current, Pending
  <2> QED BY <2>1, <2>2, OffersOnly
<1> QED BY <1>1, <1>2, <1>3, <1>4, <1>5, <1>6, <1>7, <1>8, <1>9, <1>10 DEF JoinNext

\* No other command, and no expiry, makes an invitation an accepted one.
LEMMA OnlyAcceptanceAccepts ==
  ASSUME JoinInv, [JoinNext]_joinVars, ~AcceptInvitation
  PROVE  \A i \in DOMAIN invitations : invitations'[i].state = "ACCEPTED" => invitations[i].state = "ACCEPTED"
<1>1. invitations \in Seq(OfferRow)
  BY DEF JoinInv, JoinTypes
<1>2. \A i \in DOMAIN invitations : invitations[i] \in OfferRow
  BY <1>1, LenProperties, ElementOfSeq
<1>3. ASSUME NEW e, NEW r, NEW c, CreateInvitation(e, r, c)
      PROVE  \A i \in DOMAIN invitations : invitations'[i] = invitations[i]
  <2>1. PICK row : invitations' = Append(invitations, row)
    BY <1>3 DEF CreateInvitation
  <2>2. \A i \in DOMAIN invitations : Append(invitations, row)[i] = invitations[i]
    BY <1>1, LenProperties
  <2> QED BY <2>1, <2>2
<1>4. ASSUME NEW i \in DOMAIN invitations,
             \/ \E r \in RoleSets : UpdateInvitation(i, r)
             \/ ResendInvitationEmail(i) \/ RevokeInvitation(i) \/ ExpireInvitation(i) \/ PreviewInvitation(i),
             NEW j \in DOMAIN invitations, invitations'[j].state = "ACCEPTED"
      PROVE  invitations[j].state = "ACCEPTED"
  <2>1. invitations[j] \in OfferRow /\ invitations[i] \in OfferRow
    BY <1>2
  <2>2. invitations'[j].state \in {invitations[j].state, "REVOKED"}
    BY <1>4, <2>1 DEF UpdateInvitation, ResendInvitationEmail, RevokeInvitation, ExpireInvitation, PreviewInvitation, OfferRow
  <2> QED BY <1>4, <2>2
<1>5. ASSUME NEW m, ArchiveMember(m) \/ PermanentlyDeleteMember(m)
      PROVE  \A i \in DOMAIN invitations : invitations'[i].state = "ACCEPTED" => invitations[i].state = "ACCEPTED"
  <2>1. invitations' = RevokeMemberClaimInvitations(m) /\ form' = form
    BY <1>5 DEF ArchiveMember, PermanentlyDeleteMember
  <2> QED BY <2>1, ClaimsRevoked
<1>6. CASE \/ \E n \in GuestNames : CreateTemporaryGuest(n)
           \/ \E m \in DOMAIN members, n \in GuestNames : RenameTemporaryGuest(m, n) \/ ReactivateGuest(m, n)
           \/ \E m \in DOMAIN members, r \in RoleSets : ReactivateAccount(m, r)
           \/ \E u \in Identities : AcceptPublicJoinLink(u)
           \/ \E u \in Identities, e \in Mailboxes : MoveMailbox(u, e)
  <2>1. invitations' = invitations
    BY <1>6 DEF CreateTemporaryGuest, RenameTemporaryGuest, ReactivateGuest, ReactivateAccount, AcceptPublicJoinLink, MoveMailbox
  <2> QED BY <2>1
<1>7. CASE \/ \E enabled \in BOOLEAN : PutPublicJoinLink(enabled)
           \/ RotatePublicJoinLink \/ ExpireLink
           \/ \E e \in Mailboxes : StartPublicJoinRegistration(e)
           \/ \E r \in DOMAIN registrations : ResendPublicJoinVerification(r) \/ ConfirmPublicJoinRegistration(r)
           \/ UNCHANGED joinVars
  <2>1. invitations' = invitations
    BY <1>7 DEF PutPublicJoinLink, RotatePublicJoinLink, ExpireLink, StartPublicJoinRegistration,
                ResendPublicJoinVerification, ConfirmPublicJoinRegistration, joinVars
  <2> QED BY <2>1
<1> QED BY <1>3, <1>4, <1>5, <1>6, <1>7 DEF JoinNext

\* The invariant of the people in a group holds of every behaviour: memberships
\* belong to people there are, nobody has two, accounts and current offers are
\* unique, and registrations belong to the link they were started at (every
\* command of the membership and of the public join services).
THEOREM MembershipsFit == JoinSpec => []JoinInv
<1>1. JoinInit => JoinInv
  BY JoinInvInit
<1>2. JoinInv /\ [JoinNext]_joinVars => JoinInv'
  BY JoinStepKeepsInv
<1> QED BY <1>1, <1>2, PTL DEF JoinSpec

\* However invitations, claims, guests, archive and the public link interleave:
\* one account and one current invitation for a mailbox, one membership for a
\* person, roles exactly for active members with an account, distinct names of
\* guests, and no registration survives the link it came from.
THEOREM OnePersonOneMembership == JoinSpec => []MembershipsConsistent
<1>1. JoinInv => MembershipsConsistent
  BY JoinInvImplies
<1> QED BY <1>1, MembershipsFit, PTL

\* A pending invitation becomes an accepted one only with a membership that has
\* exactly its roles: for the account it is bound to, in place of the guest it
\* claims, and with every other membership as it was (AcceptInvitation).
THEOREM InvitedRolesGiven == JoinSpec => AcceptanceGivesInvitedRoles
<1> DEFINE Gives == \A i \in DOMAIN invitations : Pending(i) /\ invitations'[i].state = "ACCEPTED" => GivenRoles(i)
<1>1. ASSUME JoinInv, [JoinNext]_joinVars PROVE Gives
  <2>1. CASE AcceptInvitation
    BY <1>1, <2>1, AcceptKeepsInv
  <2>2. CASE ~AcceptInvitation
    <3>1. \A i \in DOMAIN invitations : invitations'[i].state = "ACCEPTED" => invitations[i].state = "ACCEPTED"
      BY <1>1, <2>2, OnlyAcceptanceAccepts
    <3> QED BY <3>1 DEF Pending
  <2> QED BY <2>1, <2>2
<1>2. JoinInv /\ [JoinNext]_joinVars =>
        [\A i \in DOMAIN invitations : Pending(i) /\ invitations'[i].state = "ACCEPTED" =>
           \E m \in DOMAIN members' :
             /\ members'[m].status = "ACTIVE" /\ members'[m].roles = invitations[i].roles
             /\ invitations[i].claim \in {0, m}
             /\ invitations[i].bound \in {0, members'[m].user}
             /\ \A n \in DOMAIN members \ {m} : members'[n] = members[n]]_joinVars
  BY <1>1 DEF GivenRoles
<1> QED BY <1>2, MembershipsFit, PTL DEF JoinSpec, AcceptanceGivesInvitedRoles

-----------------------------------------------------------------------------
(***************************************************************************)
(* Catalog.  A screen says the truth about what is current because a       *)
(* version that a screen shows never comes back for other contents         *)
(* (GoodList): in the middle of a read it lacks the barcodes, and gets     *)
(* those of now together with the version of before.  That a category      *)
(* outlives its tombstones rests on their bookings (GoodBookings).         *)
(***************************************************************************)
CategoryRow == [status : {"NONE", "ACTIVE", "ARCHIVED", "GONE"}, order : Int, version : Nat]
ProductRow  == [status : {"NONE", "ACTIVE", "ARCHIVED", "TOMBSTONE", "GONE"},
                category : Categories \cup {CHOOSE c \in Categories : TRUE}, price : Nat, order : Int,
                codes : SUBSET Codes, version : Nat]

CatalogTypes ==
  /\ category \in [Categories -> CategoryRow]
  /\ product \in [Products -> ProductRow]
  /\ DOMAIN list = Clients

\* Kept products are in a category that is there.
Sorted ==
  \A p \in Products : product[p].status \in {"ACTIVE", "ARCHIVED", "TOMBSTONE"} => product[p].category \in Present

DistinctCodes ==
  /\ \A p \in Products : product[p].codes # {} => p \in Visible
  /\ \A p, q \in Products : p # q =>
       \A a \in product[p].codes, b \in product[q].codes : BarcodeKey(a) # BarcodeKey(b)

\* A booked product keeps its category, and a tombstone stands for a booking.
GoodBookings ==
  /\ \A b \in booked :
       /\ b.product \in Products /\ product[b.product].status \in {"ACTIVE", "ARCHIVED", "TOMBSTONE"}
       /\ b.category = product[b.product].category /\ b.shown = b.charged
  /\ \A p \in Products : product[p].status = "TOMBSTONE" => \E b \in booked : b.product = p

\* What a screen shows of a category, and of a product, is what is stored, or older.
SeenCategory(c, k) ==
  /\ category[k].status # "NONE" /\ list[c].category[k].version \in Nat
  /\ list[c].category[k].version <= category[k].version
  /\ list[c].category[k].version = category[k].version /\ k \in Present =>
       list[c].category[k] = category[k]

SeenProduct(c, p) ==
  /\ product[p].status # "NONE" /\ list[c].product[p] \in ProductRow
  /\ list[c].product[p].version <= product[p].version
  /\ list[c].product[p].version = product[p].version =>
       list[c].product[p] = IF list[c].phase = "LOADED" THEN product[p] ELSE [product[p] EXCEPT !.codes = {}]

GoodList(c) ==
  /\ list[c].phase \in {"NONE", "CATEGORIES", "PRODUCTS", "LOADED"}
  /\ list[c].phase # "NONE" => list[c].shown \subseteq Categories /\ \A k \in list[c].shown : SeenCategory(c, k)
  /\ list[c].phase \in {"PRODUCTS", "LOADED"} =>
       list[c].items \subseteq Products /\ \A p \in list[c].items : SeenProduct(c, p)

GoodPoster ==
  /\ poster.version \in Nat \/ poster.version = -1
  /\ template.phase \in {"NONE", "ROW", "LOADED"}
  /\ template.phase # "NONE" =>
       /\ template.version \in Nat \ {0}
       /\ poster.version = -1 \/ template.version <= poster.version
       /\ template.phase = "LOADED" /\ template.version = poster.version => template.products = poster.products

CatalogInv == CatalogTypes /\ Sorted /\ DistinctCodes /\ GoodBookings /\ (\A c \in Clients : GoodList(c)) /\ GoodPoster

LEMMA CatalogInvImplies ==
  ASSUME CatalogInv
  PROVE  CatalogConsistent
<1>1. ASSUME NEW c \in Clients, list[c].phase = "LOADED", NEW p \in list[c].items,
             list[c].product[p].version = product[p].version
      PROVE  list[c].product[p] = product[p]
  BY <1>1 DEF CatalogInv, GoodList, SeenProduct
<1>2. template.phase = "LOADED" /\ template.version = poster.version => template.products = poster.products
  BY DEF CatalogInv, GoodPoster
<1>3. \A p \in Products : p \in Visible \/ product[p].status = "TOMBSTONE" => product[p].category \in Present
  BY DEF CatalogInv, Sorted, Visible
<1>4. ASSUME NEW b \in booked
      PROVE  b.shown = b.charged /\ category[b.category].status # "GONE" /\ product[b.product].status # "GONE"
  <2>1. /\ b.product \in Products /\ product[b.product].status \in {"ACTIVE", "ARCHIVED", "TOMBSTONE"}
        /\ b.category = product[b.product].category /\ b.shown = b.charged
    BY DEF CatalogInv, GoodBookings
  <2>2. b.category \in Present
    BY <1>3, <2>1 DEF Visible
  <2> QED BY <2>1, <2>2 DEF Present
<1>5. ASSUME NEW c \in Clients, list[c].phase = "LOADED", NEW k \in list[c].shown \cap Present,
             list[c].category[k].version = category[k].version
      PROVE  list[c].category[k] = category[k]
  BY <1>5 DEF CatalogInv, GoodList, SeenCategory
<1>6. \A p \in Products : product[p].codes # {} => p \in Visible /\ ~OwnerElsewhere(p, product[p].codes)
  BY DEF CatalogInv, DistinctCodes, OwnerElsewhere
<1> QED BY <1>1, <1>2, <1>3, <1>4, <1>5, <1>6 DEF CatalogConsistent

LEMMA CatalogInvInit ==
  ASSUME CatalogInit
  PROVE  CatalogInv
<1>1. PICK any : any = CHOOSE c \in Categories : TRUE
  OBVIOUS
<1>2. CatalogTypes
  <2>1. category \in [Categories -> CategoryRow] /\ DOMAIN list = Clients
    BY DEF CatalogInit, CategoryRow
  <2>2. product \in [Products -> ProductRow]
    BY <1>1 DEF CatalogInit, ProductRow
  <2> QED BY <2>1, <2>2 DEF CatalogTypes
<1>3. /\ \A p \in Products : product[p].status = "NONE" /\ product[p].codes = {}
      /\ \A k \in Categories : category[k].status = "NONE"
      /\ booked = {} /\ \A c \in Clients : list[c].phase = "NONE"
  BY DEF CatalogInit, NoList
<1>4. Sorted /\ DistinctCodes /\ GoodBookings
  BY <1>3 DEF Sorted, DistinctCodes, GoodBookings, Present, Visible
<1>5. \A c \in Clients : GoodList(c)
  BY <1>3 DEF GoodList
<1>6. GoodPoster
  BY DEF CatalogInit, NoList, GoodPoster
<1> QED BY <1>2, <1>4, <1>5, <1>6 DEF CatalogInv

LEMMA CatalogRow ==
  ASSUME CatalogInv
  PROVE  /\ \A p \in Products : product[p] \in ProductRow /\ product[p].version \in Nat /\ product[p].order \in Int
         /\ \A k \in Categories : category[k] \in CategoryRow /\ category[k].version \in Nat /\ category[k].order \in Int
<1>1. \A p \in Products : product[p] \in ProductRow
  BY DEF CatalogInv, CatalogTypes
<1>2. \A k \in Categories : category[k] \in CategoryRow
  BY DEF CatalogInv, CatalogTypes
<1> QED BY <1>1, <1>2 DEF ProductRow, CategoryRow

\* A row that changes gets a later version, so screens are as current or as
\* outdated as their versions say.
Newer(old, new) ==
  \/ new = old
  \/ old.status = "NONE"
  \/ new.status # "NONE" /\ old.version < new.version
Dropped(old, new) == new.status = "GONE" /\ new.version = old.version

LEMMA ScreensStay ==
  ASSUME CatalogInv, list' = list, product' \in [Products -> ProductRow], category' \in [Categories -> CategoryRow],
         \A p \in Products : Newer(product[p], product'[p]),
         \A k \in Categories : Newer(category[k], category'[k]) \/ Dropped(category[k], category'[k])
  PROVE  \A c \in Clients : GoodList(c)'
<1> SUFFICES ASSUME NEW c \in Clients PROVE GoodList(c)'
  OBVIOUS
<1>1. GoodList(c)
  BY DEF CatalogInv
<1>2. ASSUME NEW k \in Categories, SeenCategory(c, k) PROVE SeenCategory(c, k)'
  <2>1. PICK row : row = list[c].category[k]
    OBVIOUS
  <2>2. PICK new \in CategoryRow : new = category'[k]
    OBVIOUS
  <2>3. category[k].version \in Nat /\ new.version \in Nat
    BY CatalogRow DEF CategoryRow
  <2>4. /\ category[k].status # "NONE" /\ row.version \in Nat /\ row.version <= category[k].version
        /\ row.version = category[k].version /\ category[k].status \in {"ACTIVE", "ARCHIVED"} => row = category[k]
    BY <1>2, <2>1 DEF SeenCategory, Present
  <2>5. \/ new = category[k]
        \/ new.status # "NONE" /\ category[k].version < new.version
        \/ new.status = "GONE" /\ new.version = category[k].version
    BY <2>2, <2>4 DEF Newer, Dropped
  <2>6. /\ new.status # "NONE" /\ row.version <= new.version
        /\ row.version = new.version /\ new.status \in {"ACTIVE", "ARCHIVED"} => row = new
    BY <2>3, <2>4, <2>5
  <2> QED BY <2>1, <2>2, <2>4, <2>6 DEF SeenCategory, Present
<1>3. ASSUME NEW p \in Products, SeenProduct(c, p) PROVE SeenProduct(c, p)'
  <2>1. PICK row : row = list[c].product[p]
    OBVIOUS
  <2>2. PICK new \in ProductRow : new = product'[p]
    OBVIOUS
  <2>3. product[p].version \in Nat /\ new.version \in Nat
    BY CatalogRow DEF ProductRow
  <2>4. /\ product[p].status # "NONE" /\ row \in ProductRow /\ row.version <= product[p].version
        /\ row.version = product[p].version =>
             row = IF list[c].phase = "LOADED" THEN product[p] ELSE [product[p] EXCEPT !.codes = {}]
    BY <1>3, <2>1 DEF SeenProduct
  <2>5. row.version \in Nat
    BY <2>4 DEF ProductRow
  <2>6. new = product[p] \/ (new.status # "NONE" /\ row.version < new.version)
    BY <2>2, <2>3, <2>4, <2>5 DEF Newer
  <2>7. CASE new = product[p]
    BY <2>1, <2>2, <2>4, <2>7 DEF SeenProduct
  <2>8. CASE new.status # "NONE" /\ row.version < new.version
    <3>1. row.version <= new.version /\ row.version # new.version
      BY <2>3, <2>5, <2>8
    <3> QED BY <2>1, <2>2, <2>4, <2>8, <3>1 DEF SeenProduct
  <2> QED BY <2>6, <2>7, <2>8
<1>4. list[c].phase # "NONE" => list[c].shown \subseteq Categories /\ \A k \in list[c].shown : SeenCategory(c, k)'
  BY <1>1, <1>2 DEF GoodList
<1>5. list[c].phase \in {"PRODUCTS", "LOADED"} =>
        list[c].items \subseteq Products /\ \A p \in list[c].items : SeenProduct(c, p)'
  BY <1>1, <1>3 DEF GoodList
<1> QED BY <1>1, <1>4, <1>5 DEF GoodList

\* One product is written.
LEMMA ProductWritten ==
  ASSUME CatalogInv, UNCHANGED <<category, booked, list, poster, template>>, NEW p \in Products, NEW row \in ProductRow,
         product' = [product EXCEPT ![p] = row],
         \/ product[p].status = "NONE"
         \/ row.status # "NONE" /\ product[p].version < row.version /\ row.category = product[p].category,
         row.status \in {"ACTIVE", "ARCHIVED", "TOMBSTONE"} => row.category \in Present,
         row.codes # {} => row.status \in {"ACTIVE", "ARCHIVED"},
         ~OwnerElsewhere(p, row.codes),
         \A b \in booked : b.product = p => row.status \in {"ACTIVE", "ARCHIVED", "TOMBSTONE"},
         row.status = "TOMBSTONE" => \E b \in booked : b.product = p
  PROVE  CatalogInv'
<1>1. product \in [Products -> ProductRow] /\ category \in [Categories -> CategoryRow] /\ DOMAIN list = Clients
  BY DEF CatalogInv, CatalogTypes
<1>2. /\ product' \in [Products -> ProductRow] /\ product'[p] = row
      /\ \A q \in Products : q # p => product'[q] = product[q]
  BY <1>1
<1>3. CatalogTypes'
  BY <1>1, <1>2 DEF CatalogTypes
<1>4. Present' = Present
  BY DEF Present
<1>5. Sorted'
  <2>1. \A q \in Products : product'[q].status \in {"ACTIVE", "ARCHIVED", "TOMBSTONE"} => product'[q].category \in Present
    BY <1>2 DEF CatalogInv, Sorted
  <2> QED BY <1>4, <2>1 DEF Sorted
<1>6. DistinctCodes'
  <2>1. \A q \in Products : product'[q].codes # {} => product'[q].status \in {"ACTIVE", "ARCHIVED"}
    BY <1>2 DEF CatalogInv, DistinctCodes, Visible
  <2>2. \A q \in Products : q # p => \A a \in row.codes, b \in product[q].codes : BarcodeKey(a) # BarcodeKey(b)
    BY DEF OwnerElsewhere
  <2>3. \A q, r \in Products : q # r =>
          \A a \in product'[q].codes, b \in product'[r].codes : BarcodeKey(a) # BarcodeKey(b)
    BY <1>2, <2>2 DEF CatalogInv, DistinctCodes
  <2> QED BY <2>1, <2>3 DEF DistinctCodes, Visible
<1>7. GoodBookings'
  BY <1>2 DEF CatalogInv, GoodBookings
<1>8. \A c \in Clients : GoodList(c)'
  <2>1. \A q \in Products : Newer(product[q], product'[q])
    BY <1>2 DEF Newer
  <2>2. \A k \in Categories : Newer(category[k], category'[k])
    BY DEF Newer
  <2> QED BY <1>1, <1>2, <2>1, <2>2, ScreensStay
<1>9. GoodPoster'
  BY DEF CatalogInv, GoodPoster
<1> QED BY <1>3, <1>5, <1>6, <1>7, <1>8, <1>9 DEF CatalogInv

\* One category is written.
LEMMA CategoryWritten ==
  ASSUME CatalogInv, UNCHANGED <<product, booked, list, poster, template>>, NEW k \in Categories, NEW row \in CategoryRow,
         category' = [category EXCEPT ![k] = row], Newer(category[k], row) \/ Dropped(category[k], row),
         row.status \notin {"ACTIVE", "ARCHIVED"} =>
           \A p \in Products : product[p].status \in {"ACTIVE", "ARCHIVED", "TOMBSTONE"} => product[p].category # k
  PROVE  CatalogInv'
<1>1. product \in [Products -> ProductRow] /\ category \in [Categories -> CategoryRow] /\ DOMAIN list = Clients
  BY DEF CatalogInv, CatalogTypes
<1>2. /\ category' \in [Categories -> CategoryRow] /\ category'[k] = row
      /\ \A l \in Categories : l # k => category'[l] = category[l]
  BY <1>1
<1>3. CatalogTypes'
  BY <1>1, <1>2 DEF CatalogTypes
<1>4. Visible' = Visible
  BY DEF Visible
<1>5. Sorted'
  <2>1. \A p \in Products : product[p].status \in {"ACTIVE", "ARCHIVED", "TOMBSTONE"} =>
          product[p].category \in Categories /\ category'[product[p].category].status \in {"ACTIVE", "ARCHIVED"}
    BY <1>2 DEF CatalogInv, Sorted, Present
  <2>2. \A p \in Products : product'[p].status \in {"ACTIVE", "ARCHIVED", "TOMBSTONE"} => product'[p].category \in Present'
    BY <2>1 DEF Present
  <2> QED BY <2>2 DEF Sorted
<1>6. DistinctCodes' /\ GoodBookings' /\ GoodPoster'
  BY <1>4 DEF CatalogInv, DistinctCodes, GoodBookings, GoodPoster
<1>7. \A c \in Clients : GoodList(c)'
  <2>1. \A p \in Products : Newer(product[p], product'[p])
    BY DEF Newer
  <2>2. \A l \in Categories : Newer(category[l], category'[l]) \/ Dropped(category[l], category'[l])
    BY <1>2 DEF Newer
  <2> QED BY <1>1, <1>2, <2>1, <2>2, ScreensStay
<1> QED BY <1>3, <1>5, <1>6, <1>7 DEF CatalogInv

\* A finite set of integers that is not empty has a greatest one.
LEMMA GreatestPosition ==
  ASSUME NEW S, IsFiniteSet(S), S # {}, NEW pos, \A m \in S : pos[m] \in Int
  PROVE  \E m \in S : \A l \in S : pos[m] >= pos[l]
<1> DEFINE below == [m \in S |-> IF pos[m] < 0 THEN -pos[m] ELSE 0]
<1>1. \A m \in S : below[m] \in Nat /\ pos[m] + below[m] >= 0
  OBVIOUS
<1> HIDE DEF below
<1>2. PICK n \in Nat : \A m \in S : below[m] <= n
  BY <1>1, FiniteBound
<1> DEFINE up == [m \in S |-> pos[m] + n]
<1>3. \A m \in S : up[m] \in Nat /\ up[m] = pos[m] + n
  BY <1>1, <1>2
<1> HIDE DEF up
<1>4. PICK k \in Nat : \A m \in S : up[m] <= k
  BY <1>3, FiniteBound
<1> DEFINE T == {up[m] : m \in S}
<1>5. T \subseteq 0 .. k /\ T # {}
  BY <1>3, <1>4
<1>6. \A m \in S : up[m] \in T
  OBVIOUS
<1>7. \A x \in T : \E m \in S : x = up[m]
  OBVIOUS
<1> HIDE DEF T
<1>8. PICK x \in T : \A y \in T : x >= y
  BY <1>5, GreatestNumber
<1>9. PICK m \in S : x = up[m]
  BY <1>7
<1>10. \A l \in S : up[m] >= up[l]
  BY <1>6, <1>8, <1>9
<1> QED BY <1>3, <1>10

\* A position behind all that are there, whatever editors have sent.
LEMMA BehindIsAPosition ==
  ASSUME NEW S, IsFiniteSet(S), NEW pos, \A m \in S : pos[m] \in Int
  PROVE  Behind({pos[m] : m \in S}) \in Int
<1> DEFINE T == {pos[m] : m \in S}
<1>1. CASE S = {}
  BY <1>1 DEF Behind
<1>2. CASE S # {}
  <2>1. PICK m \in S : \A l \in S : pos[m] >= pos[l]
    BY <1>2, GreatestPosition
  <2>2. pos[m] \in T /\ pos[m] \in Int
    OBVIOUS
  <2>3. \A y \in T : pos[m] >= y
    BY <2>1
  <2>4. \A y \in T : y \in Int
    OBVIOUS
  <2> HIDE DEF T
  <2>5. Max(T) \in T
    BY <2>2, <2>3 DEF Max
  <2>6. T # {} /\ Max(T) \in Int
    BY <2>2, <2>4, <2>5
  <2>7. Behind(T) = Max(T) + 1
    BY <2>6 DEF Behind
  <2>8. Behind(T) \in Int
    BY <2>6, <2>7
  <2> QED BY <2>8 DEF T
<1> QED BY <1>1, <1>2

LEMMA CreateProductKeepsInv ==
  ASSUME CatalogInv, NEW p \in Products, NEW k \in Categories, NEW price \in Prices, NEW codes \in SUBSET Codes,
         CreateProduct(p, k, price, codes)
  PROVE  CatalogInv'
<1> DEFINE pos == [q \in Products |-> product[q].order]
<1>1. PICK order : order = Behind({product[q].order : q \in Shelf(k)})
  OBVIOUS
<1>2. order \in Int
  <2>1. IsFiniteSet(Shelf(k)) /\ Shelf(k) \subseteq Products
    <3>1. Shelf(k) \subseteq Products
      BY DEF Shelf, Visible
    <3> QED BY <3>1, CatalogAssumption, FS_Subset
  <2>2. \A q \in Shelf(k) : pos[q] = product[q].order /\ pos[q] \in Int
    BY <2>1, CatalogRow
  <2>3. {pos[q] : q \in Shelf(k)} = {product[q].order : q \in Shelf(k)}
    BY <2>2
  <2> HIDE DEF pos
  <2>4. Behind({pos[q] : q \in Shelf(k)}) \in Int
    BY <2>1, <2>2, BehindIsAPosition
  <2> QED BY <1>1, <2>3, <2>4
<1>3. PICK row : row = [status |-> "ACTIVE", category |-> k, price |-> price, codes |-> codes, version |-> 1, order |-> order]
  OBVIOUS
<1>4. /\ row \in ProductRow /\ row.status = "ACTIVE" /\ row.category = k /\ row.codes = codes
  BY <1>2, <1>3, CatalogAssumption DEF ProductRow
<1>5. /\ product' = [product EXCEPT ![p] = row] /\ product[p].status = "NONE" /\ k \in Present
      /\ ~OwnerElsewhere(p, codes) /\ UNCHANGED <<category, booked, list, poster, template>>
  BY <1>1, <1>3 DEF CreateProduct
<1>6. \A b \in booked : b.product # p
  BY <1>5 DEF CatalogInv, GoodBookings
<1> QED BY <1>4, <1>5, <1>6, ProductWritten

\* A screen with the current version shows the product as it is.
LEMMA CurrentScreen ==
  ASSUME CatalogInv, NEW c \in Clients, NEW p, OnScreen(c, p), list[c].product[p].version = product[p].version
  PROVE  p \in Products /\ list[c].product[p] = product[p]
BY DEF CatalogInv, GoodList, SeenProduct, OnScreen

LEMMA UpdateProductKeepsInv ==
  ASSUME CatalogInv, NEW c \in Clients, NEW p \in Products, NEW price, NEW codes \in SUBSET Codes,
         NEW status \in {"ACTIVE", "ARCHIVED"}, NEW order \in Positions, UpdateProduct(c, p, price, codes, status, order)
  PROVE  CatalogInv'
<1>1. PICK old \in ProductRow : old = product[p]
  BY CatalogRow
<1>2. list[c].product[p] = old
  BY <1>1, CurrentScreen DEF UpdateProduct
<1>3. /\ p \in Visible /\ price \in Prices /\ ~OwnerElsewhere(p, codes)
      /\ UNCHANGED <<category, booked, list, poster, template>>
  BY DEF UpdateProduct, ValidateProductPricing
<1>4. PICK next \in Nat : next = old.version + 1 /\ old.version < next
  BY DEF ProductRow
<1>5. PICK row : row = [status |-> status, category |-> old.category, price |-> price, codes |-> codes, version |-> next,
                        order |-> order]
  OBVIOUS
<1>6. /\ row \in ProductRow /\ row.status = status /\ row.category = old.category /\ row.codes = codes
      /\ row.version = next
  BY <1>3, <1>5, CatalogAssumption DEF ProductRow
<1>7. product' = [product EXCEPT ![p] = row]
  BY <1>1, <1>2, <1>4, <1>5 DEF UpdateProduct
<1>8. old.category \in Present
  BY <1>1, <1>3 DEF CatalogInv, Sorted, Visible
<1>9. /\ row.status # "NONE" /\ row.status # "TOMBSTONE" /\ row.status \in {"ACTIVE", "ARCHIVED"}
      /\ product[p].version < row.version /\ row.category = product[p].category /\ row.category \in Present
      /\ ~OwnerElsewhere(p, row.codes)
  BY <1>1, <1>3, <1>4, <1>6, <1>8
<1> QED BY <1>3, <1>6, <1>7, <1>9, ProductWritten

LEMMA ProductEditsKeepInv ==
  ASSUME CatalogInv, NEW c \in Clients, NEW p \in Products, NEW order \in Positions,
         \/ \E price \in Prices : EditPrice(c, p, price, order)
         \/ \E codes \in SUBSET Codes : EditCodes(c, p, codes, order)
         \/ \E status \in {"ACTIVE", "ARCHIVED"} : EditActive(c, p, status, order)
  PROVE  CatalogInv'
<1>1. OnScreen(c, p) /\ list[c].product[p].version = product[p].version /\ p \in Visible
  BY DEF EditPrice, EditCodes, EditActive, UpdateProduct
<1>2. list[c].product[p].codes \in SUBSET Codes /\ list[c].product[p].status \in {"ACTIVE", "ARCHIVED"}
  <2>1. list[c].product[p] = product[p] /\ product[p] \in ProductRow
    BY <1>1, CurrentScreen, CatalogRow
  <2> QED BY <1>1, <2>1 DEF ProductRow, Visible
<1> QED BY <1>2, UpdateProductKeepsInv DEF EditPrice, EditCodes, EditActive

LEMMA ImageKeepsInv ==
  ASSUME CatalogInv, NEW p \in Products, SetProductImage(p)
  PROVE  CatalogInv'
<1>1. PICK old \in ProductRow : old = product[p]
  BY CatalogRow
<1>2. PICK next \in Nat : next = old.version + 1 /\ old.version < next
  BY DEF ProductRow
<1>3. PICK row : row = [old EXCEPT !.version = next]
  OBVIOUS
<1>4. /\ row \in ProductRow /\ row.status = old.status /\ row.category = old.category /\ row.codes = old.codes
      /\ row.version = next
  BY <1>3 DEF ProductRow
<1>5. /\ product' = [product EXCEPT ![p] = row] /\ p \in Visible
      /\ UNCHANGED <<category, booked, list, poster, template>>
  BY <1>1, <1>2, <1>3 DEF SetProductImage
<1>6. old.category \in Present /\ old.status \in {"ACTIVE", "ARCHIVED"}
  BY <1>1, <1>5 DEF CatalogInv, Sorted, Visible
<1>7. ~OwnerElsewhere(p, old.codes)
  BY <1>1 DEF CatalogInv, DistinctCodes, OwnerElsewhere
<1>8. /\ row.status # "NONE" /\ row.status # "TOMBSTONE" /\ row.status \in {"ACTIVE", "ARCHIVED"}
      /\ product[p].version < row.version /\ row.category = product[p].category /\ row.category \in Present
      /\ ~OwnerElsewhere(p, row.codes)
  BY <1>1, <1>2, <1>4, <1>6, <1>7
<1> QED BY <1>4, <1>5, <1>8, ProductWritten

LEMMA DeleteProductKeepsInv ==
  ASSUME CatalogInv, NEW c \in Clients, NEW p \in Products, DeleteProduct(c, p)
  PROVE  CatalogInv'
<1>1. PICK old \in ProductRow : old = product[p]
  BY CatalogRow
<1>2. PICK next \in Nat : next = old.version + 1 /\ old.version < next
  BY DEF ProductRow
<1>3. PICK status : status = IF \E b \in booked : b.product = p THEN "TOMBSTONE" ELSE "GONE"
  OBVIOUS
<1>4. PICK row : row = [old EXCEPT !.status = status, !.codes = {}, !.version = next]
  OBVIOUS
<1>5. /\ row \in ProductRow /\ row.status = status /\ row.category = old.category /\ row.codes = {} /\ row.version = next
  BY <1>3, <1>4 DEF ProductRow
<1>6. p \in Visible /\ UNCHANGED <<category, booked, list, poster, template>>
  BY DEF DeleteProduct
<1>7. product' = [product EXCEPT ![p] = row]
  <2>1. product' = [product EXCEPT ![p].status = status, ![p].codes = {}, ![p].version = next]
    BY <1>1, <1>2, <1>3 DEF DeleteProduct
  <2>2. product \in [Products -> ProductRow]
    BY DEF CatalogInv, CatalogTypes
  <2> QED BY <1>1, <1>4, <2>1, <2>2 DEF ProductRow
<1>8. old.category \in Present
  BY <1>1, <1>6 DEF CatalogInv, Sorted, Visible
<1>9. ~OwnerElsewhere(p, {})
  BY DEF OwnerElsewhere
<1>10. status \in {"TOMBSTONE", "GONE"} /\ (status = "TOMBSTONE" <=> \E b \in booked : b.product = p)
  BY <1>3
<1>11. /\ row.status # "NONE" /\ product[p].version < row.version /\ row.category = product[p].category
       /\ row.category \in Present /\ row.status \notin {"ACTIVE", "ARCHIVED"}
       /\ row.codes = {} /\ ~OwnerElsewhere(p, row.codes)
  BY <1>1, <1>2, <1>5, <1>8, <1>9, <1>10
<1>12. /\ \A b \in booked : b.product = p => row.status = "TOMBSTONE"
       /\ row.status = "TOMBSTONE" => \E b \in booked : b.product = p
  BY <1>5, <1>10
<1>13. row \in ProductRow
  BY <1>5
<1> HIDE DEF CatalogInv
<1> QED BY ONLY CatalogInv, p \in Products, <1>6, <1>7, <1>11, <1>12, <1>13, ProductWritten

LEMMA UpdateCategoryKeepsInv ==
  ASSUME CatalogInv, NEW c \in Clients, NEW k \in Categories, NEW status \in {"ACTIVE", "ARCHIVED"},
         NEW order \in Positions, UpdateCategory(c, k, status, order)
  PROVE  CatalogInv'
<1>1. PICK old \in CategoryRow : old = category[k]
  BY CatalogRow
<1>2. PICK next \in Nat : next = old.version + 1 /\ old.version < next
  BY DEF CategoryRow
<1>3. PICK row : row = [status |-> status, order |-> order, version |-> next]
  OBVIOUS
<1>4. row \in CategoryRow /\ row.status = status /\ row.version = next
  BY <1>3, CatalogAssumption DEF CategoryRow
<1>5. category' = [category EXCEPT ![k] = row] /\ UNCHANGED <<product, booked, list, poster, template>>
  BY <1>1, <1>2, <1>3 DEF UpdateCategory
<1>6. Newer(category[k], row)
  BY <1>1, <1>2, <1>4 DEF Newer
<1> QED BY <1>4, <1>5, <1>6, CategoryWritten

LEMMA CreateCategoryKeepsInv ==
  ASSUME CatalogInv, NEW k \in Categories, CreateCategory(k)
  PROVE  CatalogInv'
<1> DEFINE pos == [l \in Categories |-> category[l].order]
<1>1. PICK order : order = Behind({category[d].order : d \in Present})
  OBVIOUS
<1>2. order \in Int
  <2>1. IsFiniteSet(Present) /\ Present \subseteq Categories
    <3>1. Present \subseteq Categories
      BY DEF Present
    <3> QED BY <3>1, CatalogAssumption, FS_Subset
  <2>2. \A l \in Present : pos[l] = category[l].order /\ pos[l] \in Int
    BY <2>1, CatalogRow
  <2>3. {pos[l] : l \in Present} = {category[l].order : l \in Present}
    BY <2>2
  <2> HIDE DEF pos
  <2>4. Behind({pos[l] : l \in Present}) \in Int
    BY <2>1, <2>2, BehindIsAPosition
  <2> QED BY <1>1, <2>3, <2>4
<1>3. PICK row : row = [status |-> "ACTIVE", order |-> order, version |-> 1]
  OBVIOUS
<1>4. row \in CategoryRow /\ row.status = "ACTIVE"
  BY <1>2, <1>3 DEF CategoryRow
<1>5. /\ category' = [category EXCEPT ![k] = row] /\ UNCHANGED <<product, booked, list, poster, template>>
      /\ Newer(category[k], row)
  BY <1>1, <1>3 DEF CreateCategory, Newer
<1> QED BY <1>4, <1>5, CategoryWritten

LEMMA DeleteCategoryKeepsInv ==
  ASSUME CatalogInv, NEW c \in Clients, NEW k \in Categories, DeleteCategory(c, k)
  PROVE  CatalogInv'
<1>1. PICK old \in CategoryRow : old = category[k]
  BY CatalogRow
<1>2. PICK row : row = [old EXCEPT !.status = "GONE"]
  OBVIOUS
<1>3. row \in CategoryRow /\ row.status = "GONE" /\ row.version = old.version
  BY <1>2 DEF CategoryRow
<1>4. category' = [category EXCEPT ![k] = row] /\ UNCHANGED <<product, booked, list, poster, template>>
  BY <1>1, <1>2 DEF DeleteCategory
<1>5. Dropped(category[k], row)
  BY <1>1, <1>3 DEF Dropped
<1>6. ASSUME NEW p \in Products, product[p].status \in {"ACTIVE", "ARCHIVED", "TOMBSTONE"}
      PROVE  product[p].category # k
  <2>1. CASE product[p].status \in {"ACTIVE", "ARCHIVED"}
    BY <2>1 DEF DeleteCategory, Shelf, Visible
  <2>2. CASE product[p].status = "TOMBSTONE"
    <3>1. PICK b \in booked : b.product = p
      BY <2>2 DEF CatalogInv, GoodBookings
    <3>2. b.category = product[p].category
      BY <3>1 DEF CatalogInv, GoodBookings
    <3> QED BY <3>2 DEF DeleteCategory
  <2> QED BY <1>6, <2>1, <2>2
<1> QED BY <1>3, <1>4, <1>5, <1>6, CategoryWritten

LEMMA ReorderKeepsInv ==
  ASSUME CatalogInv, NEW c \in Clients, NEW order \in CategoryOrders, NEW shelf \in ShelfOrders, Reorder(c, order, shelf)
  PROVE  CatalogInv'
<1>1. /\ category' = [k \in Categories |-> IF k \in Present THEN Positioned(category[k], order[k]) ELSE category[k]]
      /\ product' = [p \in Products |-> IF p \in Visible THEN Positioned(product[p], shelf[p]) ELSE product[p]]
      /\ UNCHANGED <<booked, list, poster, template>>
  BY DEF Reorder
<1>2. \A k \in Present : order[k] \in Nat
  <2>1. Present \subseteq Categories
    BY DEF Present
  <2>2. Cardinality(Present) \in Nat
    BY <2>1, CatalogAssumption, FS_Subset, FS_CardinalityType
  <2> QED BY <2>2 DEF CategoryOrders
<1>3. \A p \in Visible : shelf[p] \in Nat
  <2>1. Visible \subseteq Products
    BY DEF Visible
  <2>2. Cardinality(Visible) \in Nat
    BY <2>1, CatalogAssumption, FS_Subset, FS_CardinalityType
  <2> QED BY <2>2 DEF ShelfOrders
<1>4. ASSUME NEW k \in Categories
      PROVE  /\ category'[k] \in CategoryRow /\ category'[k].status = category[k].status
             /\ Newer(category[k], category'[k])
  <2>1. PICK old \in CategoryRow : old = category[k]
    BY CatalogRow
  <2>2. PICK next \in Nat : next = old.version + 1 /\ old.version < next
    BY DEF CategoryRow
  <2>3. CASE k \in Present /\ old.order # order[k]
    <3>1. category'[k] = [old EXCEPT !.order = order[k], !.version = next]
      BY <1>1, <2>1, <2>2, <2>3 DEF Positioned
    <3>2. order[k] \in Int /\ old.status # "NONE"
      BY <1>2, <2>1, <2>3 DEF Present
    <3>3. category'[k] \in CategoryRow
      BY <2>2, <3>1, <3>2 DEF CategoryRow
    <3>4. category'[k].version = next /\ category'[k].status = old.status
      BY <3>1 DEF CategoryRow
    <3> QED BY <2>1, <2>2, <3>2, <3>3, <3>4 DEF Newer
  <2>4. CASE ~(k \in Present /\ old.order # order[k])
    <3>1. category'[k] = old
      BY <1>1, <2>1, <2>4 DEF Positioned
    <3> QED BY <2>1, <2>4, <3>1 DEF Newer
  <2> QED BY <2>3, <2>4
<1>5. ASSUME NEW p \in Products
      PROVE  /\ product'[p] \in ProductRow /\ product'[p].status = product[p].status
             /\ product'[p].category = product[p].category /\ product'[p].codes = product[p].codes
             /\ Newer(product[p], product'[p])
  <2>1. PICK old \in ProductRow : old = product[p]
    BY CatalogRow
  <2>2. PICK next \in Nat : next = old.version + 1 /\ old.version < next
    BY DEF ProductRow
  <2>3. CASE p \in Visible /\ old.order # shelf[p]
    <3>1. product'[p] = [old EXCEPT !.order = shelf[p], !.version = next]
      BY <1>1, <2>1, <2>2, <2>3 DEF Positioned
    <3>2. shelf[p] \in Int /\ old.status # "NONE"
      BY <1>3, <2>1, <2>3 DEF Visible
    <3>3. product'[p] \in ProductRow
      BY <2>2, <3>1, <3>2 DEF ProductRow
    <3>4. product'[p].version = next /\ product'[p].status = old.status /\ product'[p].category = old.category /\ product'[p].codes = old.codes
      BY <3>1 DEF ProductRow
    <3> QED BY <2>1, <2>2, <3>2, <3>3, <3>4 DEF Newer
  <2>4. CASE ~(p \in Visible /\ old.order # shelf[p])
    <3>1. product'[p] = old
      BY <1>1, <2>1, <2>4 DEF Positioned
    <3> QED BY <2>1, <2>4, <3>1 DEF Newer
  <2> QED BY <2>3, <2>4
<1>6. product' \in [Products -> ProductRow] /\ category' \in [Categories -> CategoryRow]
  BY <1>1, <1>4, <1>5
<1>7. Present' = Present /\ Visible' = Visible
  BY <1>4, <1>5 DEF Present, Visible
<1>8. CatalogTypes'
  BY <1>1, <1>6 DEF CatalogInv, CatalogTypes
<1>9. Sorted'
  <2>1. \A p \in Products : product'[p].status \in {"ACTIVE", "ARCHIVED", "TOMBSTONE"} => product'[p].category \in Present
    BY <1>5 DEF CatalogInv, Sorted
  <2> QED BY <1>7, <2>1 DEF Sorted
<1>10. DistinctCodes'
  <2>1. DistinctCodes
    BY DEF CatalogInv
  <2> QED BY <1>5, <1>7, <2>1 DEF DistinctCodes
<1>11. GoodBookings'
  <2>1. GoodBookings
    BY DEF CatalogInv
  <2> QED BY <1>1, <1>5, <2>1 DEF GoodBookings
<1>12. \A d \in Clients : GoodList(d)'
  BY <1>1, <1>4, <1>5, <1>6, ScreensStay
<1>13. GoodPoster'
  BY <1>1 DEF CatalogInv, GoodPoster
<1> QED BY <1>8, <1>9, <1>10, <1>11, <1>12, <1>13 DEF CatalogInv

\* One client's screen changes.
LEMMA ScreenWritten ==
  ASSUME CatalogInv, UNCHANGED <<category, product, booked, poster, template>>, NEW c \in Clients, NEW screenful,
         list' = [list EXCEPT ![c] = screenful], GoodList(c)'
  PROVE  CatalogInv'
<1>1. DOMAIN list = Clients
  BY DEF CatalogInv, CatalogTypes
<1>2. CatalogTypes'
  BY <1>1 DEF CatalogInv, CatalogTypes
<1>3. Sorted' /\ DistinctCodes' /\ GoodBookings' /\ GoodPoster'
  BY DEF CatalogInv, Sorted, DistinctCodes, GoodBookings, GoodPoster, Present, Visible
<1>4. ASSUME NEW d \in Clients, d # c PROVE GoodList(d)'
  <2>1. list'[d] = list[d] /\ GoodList(d)
    BY <1>1, <1>4 DEF CatalogInv
  <2> QED BY <2>1 DEF GoodList, SeenCategory, SeenProduct, Present
<1> QED BY <1>2, <1>3, <1>4 DEF CatalogInv

LEMMA ListsKeepInv ==
  ASSUME CatalogInv, NEW c \in Clients, ListCategories(c) \/ ListProducts(c) \/ ListBarcodes(c) \/ CloseList(c)
  PROVE  CatalogInv'
<1>1. UNCHANGED <<category, product, booked, poster, template>> /\ DOMAIN list = Clients /\ GoodList(c)
  BY DEF ListCategories, ListProducts, ListBarcodes, CloseList, CatalogInv, CatalogTypes
<1>2. CASE ListCategories(c)
  <2>1. PICK rows : rows = [k \in Present |-> category[k]]
    OBVIOUS
  <2>2. PICK screenful : screenful = [phase |-> "CATEGORIES", shown |-> Present, category |-> rows]
    OBVIOUS
  <2>3. list' = [list EXCEPT ![c] = screenful]
    BY <1>2, <2>1, <2>2 DEF ListCategories
  <2>4. /\ list'[c].phase = "CATEGORIES" /\ list'[c].shown = Present /\ list'[c].category = rows
    BY <1>1, <2>2, <2>3
  <2>5. Present \subseteq Categories /\ \A k \in Present : category[k].status # "NONE"
    BY DEF Present
  <2>6. ASSUME NEW k \in Present PROVE SeenCategory(c, k)'
    <3>1. list'[c].category[k] = category[k] /\ category[k].version \in Nat
      BY <2>1, <2>4, <2>5, CatalogRow
    <3> QED BY <1>1, <2>5, <3>1 DEF SeenCategory, Present
  <2>7. GoodList(c)'
    BY <2>4, <2>5, <2>6 DEF GoodList
  <2> QED BY <1>1, <2>3, <2>7, ScreenWritten
<1>3. CASE ListProducts(c)
  <2>1. PICK items : items = {p \in Visible : product[p].category \in list[c].shown}
    OBVIOUS
  <2>2. PICK rows : rows = [p \in items |-> [product[p] EXCEPT !.codes = {}]]
    OBVIOUS
  <2>3. PICK screenful : screenful = [phase |-> "PRODUCTS", category |-> list[c].category, shown |-> list[c].shown,
                                      items |-> items, product |-> rows]
    OBVIOUS
  <2>4. list' = [list EXCEPT ![c] = screenful] /\ list[c].phase = "CATEGORIES"
    BY <1>3, <2>1, <2>2, <2>3 DEF ListProducts
  <2>5. /\ list'[c].phase = "PRODUCTS" /\ list'[c].shown = list[c].shown /\ list'[c].category = list[c].category
        /\ list'[c].items = items /\ list'[c].product = rows
    BY <1>1, <2>3, <2>4
  <2>6. items \subseteq Products /\ \A p \in items : product[p].status # "NONE"
    BY <2>1 DEF Visible
  <2>7. list[c].shown \subseteq Categories /\ \A k \in list[c].shown : SeenCategory(c, k)'
    BY <1>1, <2>4, <2>5 DEF GoodList, SeenCategory, Present
  <2>8. ASSUME NEW p \in items PROVE SeenProduct(c, p)'
    <3>1. PICK old \in ProductRow : old = product[p]
      BY <2>6, CatalogRow
    <3>2. PICK row : row = [old EXCEPT !.codes = {}]
      OBVIOUS
    <3>3. row \in ProductRow /\ row.version = old.version /\ old.version \in Nat
      BY <3>2 DEF ProductRow
    <3>4. list'[c].product[p] = row /\ product'[p] = old
      BY <1>1, <2>2, <2>5, <3>1, <3>2
    <3> QED BY <2>5, <2>6, <3>1, <3>2, <3>3, <3>4 DEF SeenProduct
  <2>9. GoodList(c)'
    BY <2>5, <2>6, <2>7, <2>8 DEF GoodList
  <2> QED BY <1>1, <2>4, <2>9, ScreenWritten
<1>4. CASE ListBarcodes(c)
  <2>1. PICK items : items = list[c].items
    OBVIOUS
  <2>2. PICK rows : rows = [p \in items |-> [list[c].product[p] EXCEPT !.codes = product[p].codes]]
    OBVIOUS
  <2>3. PICK screenful : screenful = [list[c] EXCEPT !.phase = "LOADED", !.product = rows]
    OBVIOUS
  <2>4. list' = [list EXCEPT ![c] = screenful] /\ list[c].phase = "PRODUCTS"
    BY <1>1, <1>4, <2>1, <2>2, <2>3 DEF ListBarcodes
  <2>5. /\ list[c].shown \subseteq Categories /\ \A k \in list[c].shown : SeenCategory(c, k)
        /\ items \subseteq Products /\ \A p \in items : SeenProduct(c, p)
    BY <1>1, <2>1, <2>4 DEF GoodList
  <2>6. /\ list'[c].phase = "LOADED" /\ list'[c].shown = list[c].shown /\ list'[c].category = list[c].category
        /\ list'[c].items = items /\ list'[c].product = rows
    BY <1>1, <2>1, <2>3, <2>4
  <2>7. \A k \in list[c].shown : SeenCategory(c, k)'
    BY <1>1, <2>5, <2>6 DEF SeenCategory, Present
  <2>8. ASSUME NEW p \in items PROVE SeenProduct(c, p)'
    <3>1. PICK stored \in ProductRow : stored = product[p]
      BY <2>5, CatalogRow
    <3>2. PICK seen : seen = list[c].product[p]
      OBVIOUS
    <3>3. /\ stored.status # "NONE" /\ seen \in ProductRow /\ seen.version <= stored.version
          /\ seen.version = stored.version => seen = [stored EXCEPT !.codes = {}]
      BY <2>4, <2>5, <3>1, <3>2 DEF SeenProduct
    <3>4. PICK row : row = [seen EXCEPT !.codes = stored.codes]
      OBVIOUS
    <3>5. /\ row \in ProductRow /\ row.version = seen.version
          /\ seen = [stored EXCEPT !.codes = {}] => row = stored
      BY <3>3, <3>4 DEF ProductRow
    <3>6. list'[c].product[p] = row /\ product'[p] = stored
      BY <1>1, <2>2, <2>6, <3>1, <3>2, <3>4
    <3> QED BY <2>6, <3>3, <3>5, <3>6 DEF SeenProduct
  <2>9. GoodList(c)'
    BY <2>5, <2>6, <2>7, <2>8 DEF GoodList
  <2> QED BY <1>1, <2>4, <2>9, ScreenWritten
<1>5. CASE CloseList(c)
  <2>1. list' = [list EXCEPT ![c] = NoList] /\ list'[c].phase = "NONE"
    BY <1>1, <1>5 DEF CloseList, NoList
  <2>2. GoodList(c)'
    BY <2>1 DEF GoodList
  <2> QED BY <1>1, <2>1, <2>2, ScreenWritten
<1> QED BY <1>2, <1>3, <1>4, <1>5

LEMMA BookingKeepsInv ==
  ASSUME CatalogInv, NEW c \in Clients, NEW p \in Products, NEW named, CreateBooking(c, p, named)
  PROVE  CatalogInv'
<1>1. PICK old : old = product[p]
  OBVIOUS
<1>2. list[c].product[p] = old
  BY <1>1, CurrentScreen DEF CreateBooking
<1>3. PICK price : price = IF old.price = 0 THEN named ELSE old.price
  OBVIOUS
<1>4. PICK b : b = [product |-> p, category |-> old.category, shown |-> price, charged |-> price]
  OBVIOUS
<1>5. booked' = booked \cup {b} /\ old.status = "ACTIVE" /\ UNCHANGED <<category, product, list, poster, template>>
  BY <1>1, <1>2, <1>3, <1>4 DEF CreateBooking, Bookable
<1>6. b.product = p /\ b.category = product[p].category /\ b.shown = b.charged /\ product[p].status = "ACTIVE"
  BY <1>1, <1>4, <1>5
<1>7. GoodBookings'
  BY <1>5, <1>6 DEF CatalogInv, GoodBookings
<1>8. CatalogTypes' /\ Sorted' /\ DistinctCodes' /\ GoodPoster'
  BY <1>5 DEF CatalogInv, CatalogTypes, Sorted, DistinctCodes, GoodPoster, Present, Visible
<1>9. \A d \in Clients : GoodList(d)'
  BY <1>5 DEF CatalogInv, GoodList, SeenCategory, SeenProduct, Present
<1> QED BY <1>7, <1>8, <1>9 DEF CatalogInv

LEMMA PostersKeepInv ==
  ASSUME CatalogInv, PosterStep \/ UNCHANGED catalogVars
  PROVE  CatalogInv'
<1>1. UNCHANGED <<category, product, booked, list>>
  BY DEF PosterStep, CreatePoster, UpdatePoster, ListPosters, PosterProductIDs, DeletePoster, catalogVars
<1>2. CatalogTypes' /\ Sorted' /\ DistinctCodes' /\ GoodBookings'
  BY <1>1 DEF CatalogInv, CatalogTypes, Sorted, DistinctCodes, GoodBookings, Present, Visible
<1>3. \A d \in Clients : GoodList(d)'
  BY <1>1 DEF CatalogInv, GoodList, SeenCategory, SeenProduct, Present
<1>4. GoodPoster
  BY DEF CatalogInv
<1>5. GoodPoster'
  <2>1. ASSUME NEW ps, CreatePoster(ps) PROVE GoodPoster'
    <3>1. poster.version = 0 /\ poster'.version = 1 /\ template' = template
      BY <2>1 DEF CreatePoster
    <3>2. template.phase = "NONE"
      BY <1>4, <3>1 DEF GoodPoster
    <3> QED BY <3>1, <3>2 DEF GoodPoster
  <2>2. ASSUME NEW ps, NEW version, UpdatePoster(ps, version) PROVE GoodPoster'
    <3>1. poster.version > 0 /\ poster'.version = poster.version + 1 /\ template' = template
      BY <2>2 DEF UpdatePoster
    <3>2. poster.version \in Nat
      BY <1>4, <3>1 DEF GoodPoster
    <3>3. template.phase # "NONE" => template.version <= poster.version /\ template.version \in Nat \ {0}
      BY <1>4, <3>1, <3>2 DEF GoodPoster
    <3>4. poster'.version \in Nat /\ (template.phase # "NONE" => template.version < poster'.version)
      BY <3>1, <3>2, <3>3
    <3> QED BY <1>4, <3>1, <3>3, <3>4 DEF GoodPoster
  <2>3. CASE ListPosters
    <3>1. poster.version > 0 /\ poster' = poster /\ template'.phase = "ROW" /\ template'.version = poster.version
      BY <2>3 DEF ListPosters
    <3> QED BY <1>4, <3>1 DEF GoodPoster
  <2>4. CASE PosterProductIDs
    <3>1. /\ template.phase = "ROW" /\ poster' = poster /\ template'.phase = "LOADED"
          /\ template'.version = template.version /\ template'.products = poster.products
      BY <2>4 DEF PosterProductIDs
    <3> QED BY <1>4, <3>1 DEF GoodPoster
  <2>5. CASE DeletePoster
    <3>1. poster'.version = -1 /\ template'.phase = "NONE"
      BY <2>5 DEF DeletePoster, NoList
    <3> QED BY <3>1 DEF GoodPoster
  <2>6. CASE UNCHANGED catalogVars
    BY <1>4, <2>6 DEF catalogVars, GoodPoster
  <2> QED BY <2>1, <2>2, <2>3, <2>4, <2>5, <2>6 DEF PosterStep
<1> QED BY <1>2, <1>3, <1>5 DEF CatalogInv

LEMMA CatalogStepKeepsInv ==
  ASSUME CatalogInv, [CatalogStep(Clients, Categories, Products) \/ PosterStep]_catalogVars
  PROVE  CatalogInv'
<1>1. ASSUME NEW c \in Clients, ClientStep(c) PROVE CatalogInv'
  <2>1. CASE ListCategories(c) \/ ListProducts(c) \/ ListBarcodes(c) \/ CloseList(c)
    BY <2>1, ListsKeepInv
  <2>2. CASE \E p \in Products, order \in Positions :
               \/ \E price \in Prices : EditPrice(c, p, price, order)
               \/ \E codes \in SUBSET Codes : EditCodes(c, p, codes, order)
               \/ \E status \in {"ACTIVE", "ARCHIVED"} : EditActive(c, p, status, order)
    BY <2>2, ProductEditsKeepInv
  <2>3. CASE \E p \in Products : DeleteProduct(c, p)
    BY <2>3, DeleteProductKeepsInv
  <2>4. CASE \E p \in Products, named \in 0 .. 1 : CreateBooking(c, p, named)
    BY <2>4, BookingKeepsInv
  <2>5. CASE \E k \in Categories :
               DeleteCategory(c, k) \/ \E s \in {"ACTIVE", "ARCHIVED"}, order \in Positions : UpdateCategory(c, k, s, order)
    BY <2>5, DeleteCategoryKeepsInv, UpdateCategoryKeepsInv
  <2>6. CASE \E order \in CategoryOrders, shelf \in ShelfOrders : Reorder(c, order, shelf)
    BY <2>6, ReorderKeepsInv
  <2> QED BY <1>1, <2>1, <2>2, <2>3, <2>4, <2>5, <2>6 DEF ClientStep
<1>2. CASE CatalogStep(Clients, Categories, Products)
  BY <1>1, <1>2, CreateProductKeepsInv, ImageKeepsInv, CreateCategoryKeepsInv DEF CatalogStep
<1>3. CASE PosterStep \/ UNCHANGED catalogVars
  BY <1>3, PostersKeepInv
<1> QED BY <1>2, <1>3

\* The inductive invariant of the catalog (catalog, kiosk, loadBookingDetails),
\* for any categories, products, codes and readers.
THEOREM CatalogFits == CatalogSpec => []CatalogInv
<1>1. CatalogInit => CatalogInv
  BY CatalogInvInit
<1>2. CatalogInv /\ [CatalogStep(Clients, Categories, Products) \/ PosterStep]_catalogVars => CatalogInv'
  BY CatalogStepKeepsInv
<1> QED BY <1>1, <1>2, PTL DEF CatalogSpec

\* Although a list is read in three queries: who has the current version of a
\* category, a product or a poster sees it as it is, so a booking charges the
\* price that was shown and no edit undoes another or a reordering its author
\* has not seen; codes stay unique, and bookings and tombstones keep their
\* category (loadBookingDetails, UpdateProduct, UpdateCategory, Reorder,
\* DeleteProduct, DeleteCategory).
THEOREM ShownIsCharged == CatalogSpec => []CatalogConsistent
<1>1. CatalogInv => CatalogConsistent
  BY CatalogInvImplies
<1> QED BY <1>1, CatalogFits, PTL

-----------------------------------------------------------------------------
(***************************************************************************)
(* Backup and restore.  That nothing is lost rests on where a restore is:  *)
(* what it has moved aside is gone from its place (Cleared), its directory *)
(* is empty where it has not been (Room), and once it installs, or has     *)
(* finished, everything from before is in a recovery directory (Rescued).    *)
(* The server never sees a directory in between (Attended).                *)
(***************************************************************************)
AllKeys   == ImageKeys \cup AttachmentKeys
ItemRow   == [present : BOOLEAN, keys : SUBSET AllKeys, schema : Nat]
GoodItem(row) == row \in ItemRow /\ (~row.present => row = Missing)
Directory == {d \in [Items -> ItemRow] : \A i \in Items : GoodItem(d[i])}

DirectoriesFit ==
  /\ live \in Directory /\ previous \in Directory
  /\ recovery \in Seq([Items -> ItemRow])
  /\ binary \in Nat

GoodCreate ==
  /\ create.phase # "NONE" => create.refs \subseteq AllKeys
  /\ create.phase = "ADD" =>
       create = [phase |-> "ADD", refs |-> create.refs, files |-> create.files] /\ create.files \subseteq create.refs

GoodArchive ==
  /\ archive.number \in Nat
  /\ archive.number > 0 => archive.refs \subseteq AllKeys /\ archive.files = archive.refs /\ archive.schema \in Nat

\* What MoveAside has passed, and what it has still to move.
Passed(i) ==
  \/ restore.phase = "MOVE" /\ \E n \in 1 .. 4 : n < restore.next /\ MoveOrder[n] = i
  \/ restore.phase = "INSTALL" /\ (i = "wal" \/ \E n \in 1 .. 3 : n >= restore.next /\ InstallOrder[n] = i)

Installed(i) == restore.phase = "INSTALL" /\ \E n \in 1 .. 3 : n < restore.next /\ InstallOrder[n] = i

GoodRestore ==
  /\ restore.phase \in {"NONE", "MOVE", "INSTALL", "DONE"}
  /\ restore.phase # "NONE" =>
       /\ restore = [phase |-> restore.phase, next |-> restore.next, staged |-> restore.staged]
       /\ restore.staged \in Directory /\ restore.staged["wal"] = Missing
       /\ restore.staged["db"].keys \subseteq restore.staged["images"].keys \cup restore.staged["attachments"].keys
  /\ restore.phase = "MOVE" => restore.next \in 1 .. 4
  /\ restore.phase = "INSTALL" => restore.next \in 1 .. 3
  /\ restore.phase = "DONE" => live = restore.staged

Cleared == \A i \in Items : Passed(i) => live[i] = Missing
Placed  == \A i \in Items : Installed(i) => live[i] = restore.staged[i]
Room    ==
  restore.phase = "MOVE" =>
    \A i \in Items : live[i].present => recovery # <<>> /\ recovery[Len(recovery)][i] = Missing

Kept(i)  == \E d \in DOMAIN recovery : recovery[d][i] = previous[i]
Rescued    ==
  \A i \in Items : previous[i].present =>
    \/ Kept(i)
    \/ live[i] = previous[i] /\ interrupted /\ restore.phase # "INSTALL"

Attended ==
  /\ interrupted \in BOOLEAN /\ server \in {"DOWN", "OPENING", "UP"}
  /\ server # "DOWN" => restore.phase = "NONE" /\ ~interrupted
  /\ restore.phase \in {"MOVE", "INSTALL"} => interrupted
  /\ restore.phase = "DONE" => ~interrupted
  /\ ~interrupted => Referenced \subseteq Stored
  /\ server = "UP" => Database.schema = binary

BackupInv ==
  DirectoriesFit /\ GoodCreate /\ GoodArchive /\ GoodRestore /\ Cleared /\ Placed /\ Room /\ Rescued /\ Attended

LEMMA BackupInvImplies ==
  ASSUME BackupInv
  PROVE  RestoreKeepsData
<1>1. archive.number > 0 => archive.files = archive.refs
  BY DEF BackupInv, GoodArchive
<1>2. server = "UP" => Referenced \subseteq Stored /\ Database.schema = binary
  BY DEF BackupInv, Attended
<1>3. restore.phase = "DONE" => live = restore.staged
  BY DEF BackupInv, GoodRestore
<1>4. \A i \in Items : previous[i].present => live[i] = previous[i] \/ \E d \in DOMAIN recovery : recovery[d][i] = previous[i]
  BY DEF BackupInv, Rescued, Kept
<1> QED BY <1>1, <1>2, <1>3, <1>4 DEF RestoreKeepsData

\* What the server does to its directory while no restore is under way.
LEMMA ServerKeeps ==
  ASSUME BackupInv, restore.phase = "NONE" \/ restore'.phase = "NONE", ~interrupted,
         UNCHANGED <<create, archive, recovery, interrupted, previous>>,
         (restore' = restore /\ restore.phase = "NONE") \/ restore' = NoCommand,
         live' \in Directory, binary' \in Nat, server' \in {"DOWN", "OPENING", "UP"},
         (Referenced \subseteq Stored)', server' = "UP" => Database'.schema = binary'
  PROVE  BackupInv'
<1>1. restore'.phase = "NONE"
  BY DEF NoCommand
<1>2. GoodRestore' /\ Cleared' /\ Placed' /\ Room'
  BY <1>1 DEF GoodRestore, Cleared, Placed, Room, Passed, Installed
<1>3. Rescued'
  BY DEF BackupInv, Rescued, Kept
<1>4. Attended'
  BY <1>1 DEF BackupInv, Attended
<1>5. DirectoriesFit' /\ GoodCreate' /\ GoodArchive'
  BY DEF BackupInv, DirectoriesFit, GoodCreate, GoodArchive
<1> QED BY <1>2, <1>3, <1>4, <1>5 DEF BackupInv

\* One directory is another with one item replaced.
Put(d, e, i, row) == e = [d EXCEPT ![i] = row]

LEMMA Replaced ==
  ASSUME NEW d \in Directory, NEW i \in Items, NEW row, GoodItem(row), NEW e, Put(d, e, i, row)
  PROVE  e \in Directory /\ e[i] = row /\ \A j \in Items : j # i => e[j] = d[j]
<1>1. d \in [Items -> ItemRow] /\ row \in ItemRow
  BY DEF Directory, GoodItem
<1>2. e \in [Items -> ItemRow] /\ e[i] = row /\ \A j \in Items : j # i => e[j] = d[j]
  BY <1>1 DEF Put
<1> QED BY <1>2 DEF Directory

LEMMA ItemsOf ==
  ASSUME NEW d \in Directory
  PROVE  /\ d["db"] \in ItemRow /\ d["wal"] \in ItemRow /\ d["images"] \in ItemRow /\ d["attachments"] \in ItemRow
         /\ \A i \in Items : GoodItem(d[i])
  BY DEF Directory, Items

LEMMA GoodRows ==
  /\ GoodItem(Missing)
  /\ \A keys \in SUBSET AllKeys : GoodItem(Holding(keys)) /\ \A n \in Nat : GoodItem(Rows(keys, n))
  BY DEF GoodItem, Missing, Holding, Rows, ItemRow

\* Rows, files, or nothing in the place of an item.
LEMMA RowsPut ==
  ASSUME NEW d \in Directory, NEW i \in Items, NEW keys \in SUBSET AllKeys, NEW n \in Nat,
         NEW e, Put(d, e, i, Rows(keys, n))
  PROVE  e \in Directory /\ e[i] = Rows(keys, n) /\ \A j \in Items : j # i => e[j] = d[j]
<1>1. PICK row : row = Rows(keys, n) /\ GoodItem(row)
  BY GoodRows
<1> QED BY <1>1, Replaced

LEMMA FilesPut ==
  ASSUME NEW d \in Directory, NEW i \in Items, NEW keys \in SUBSET AllKeys, NEW e, Put(d, e, i, Holding(keys))
  PROVE  e \in Directory /\ e[i] = Holding(keys) /\ \A j \in Items : j # i => e[j] = d[j]
<1>1. PICK row : row = Holding(keys) /\ GoodItem(row)
  BY GoodRows
<1> QED BY <1>1, Replaced

LEMMA ItemRemoved ==
  ASSUME NEW d \in Directory, NEW i \in Items, NEW e, Put(d, e, i, Missing)
  PROVE  e \in Directory /\ e[i] = Missing /\ \A j \in Items : j # i => e[j] = d[j]
<1>1. PICK row : row = Missing /\ GoodItem(row)
  BY GoodRows
<1> QED BY <1>1, Replaced

LEMMA DatabaseFits ==
  ASSUME BackupInv
  PROVE  /\ Database \in ItemRow /\ GoodItem(Database) /\ Referenced \subseteq AllKeys /\ live \in Directory
         /\ binary \in Nat
<1>1. live \in Directory /\ binary \in Nat
  BY DEF BackupInv, DirectoriesFit
<1>2. live["db"] \in ItemRow /\ live["wal"] \in ItemRow /\ GoodItem(live["db"]) /\ GoodItem(live["wal"])
  BY <1>1, ItemsOf DEF Items
<1>3. Database \in ItemRow /\ GoodItem(Database)
  BY <1>2 DEF Database
<1> QED BY <1>1, <1>3 DEF Referenced, ItemRow

LEMMA ServerAlone ==
  ASSUME BackupInv, server # "DOWN"
  PROVE  restore.phase = "NONE" /\ ~interrupted /\ Referenced \subseteq Stored /\ (server = "UP" => Database.schema = binary)
  BY DEF BackupInv, Attended

\* The server commits rows to the log and changes its stores.
LEMMA Committed ==
  ASSUME BackupInv, server = "UP", NEW keys \in SUBSET AllKeys, live' \in Directory,
         live'["wal"] = Rows(keys, binary), keys \subseteq live'["images"].keys \cup live'["attachments"].keys,
         UNCHANGED <<server, binary, create, archive, restore, recovery, interrupted, previous>>
  PROVE  BackupInv'
<1>1. restore.phase = "NONE" /\ ~interrupted
  BY ServerAlone
<1>2. Database' = Rows(keys, binary) /\ Referenced' = keys
  BY DEF Database, Referenced, Rows
<1>3. (Referenced \subseteq Stored)' /\ Database'.schema = binary'
  BY <1>2 DEF Stored, Rows
<1>4. binary' \in Nat /\ server' \in {"DOWN", "OPENING", "UP"}
  BY DatabaseFits
<1> QED BY <1>1, <1>3, <1>4, ServerKeeps

LEMMA ReferKeeps ==
  ASSUME BackupInv, NEW k \in AllKeys, Refer(k)
  PROVE  BackupInv'
<1>1. PICK s \in {"images", "attachments"} : s = StoreOfKey(k)
  BY DEF StoreOfKey
<1>2. PICK keys \in SUBSET AllKeys : keys = Referenced \cup {k}
  BY DatabaseFits
<1>3. live \in Directory /\ live[s] \in ItemRow /\ live[s].keys \subseteq AllKeys /\ binary \in Nat
  BY DatabaseFits, ItemsOf DEF ItemRow
<1>4. PICK held \in SUBSET AllKeys : held = live[s].keys \cup {k}
  BY <1>3
<1>5. PICK one : one = [live EXCEPT !["wal"] = Rows(keys, binary)]
  OBVIOUS
<1>put. Put(live, one, "wal", Rows(keys, binary))
  BY <1>5 DEF Put
<1>6. one \in Directory /\ one["wal"] = Rows(keys, binary) /\ \A j \in Items : j # "wal" => one[j] = live[j]
  BY <1>3, <1>put, RowsPut DEF Items
<1>7. Put(one, live', s, Holding(held))
  BY <1>1, <1>2, <1>3, <1>4, <1>5, <1>6 DEF Refer, Items, Put
<1>8. live' \in Directory /\ live'[s] = Holding(held) /\ \A j \in Items : j # s => live'[j] = one[j]
  BY <1>6, <1>7, FilesPut DEF Items
<1>9. keys \subseteq live'["images"].keys \cup live'["attachments"].keys
  <2>1. Referenced \subseteq live["images"].keys \cup live["attachments"].keys
    BY ServerAlone DEF Refer, Stored
  <2>2. live'[s].keys = live[s].keys \cup {k} /\ \A j \in {"images", "attachments"} : j # s => live'[j] = live[j]
    BY <1>4, <1>6, <1>8 DEF Holding, Items
  <2> QED BY <1>2, <2>1, <2>2
<1>10. live'["wal"] = Rows(keys, binary)
  BY <1>6, <1>8 DEF Items
<1> QED BY <1>8, <1>9, <1>10, Committed DEF Refer

LEMMA UnreferKeeps ==
  ASSUME BackupInv, NEW k \in AllKeys, Unrefer(k)
  PROVE  BackupInv'
<1>1. PICK keys \in SUBSET AllKeys : keys = Referenced \ {k}
  BY DatabaseFits
<1>2. Put(live, live', "wal", Rows(keys, binary))
  BY <1>1 DEF Unrefer, Put
<1>3. live' \in Directory /\ live'["wal"] = Rows(keys, binary) /\ \A j \in Items : j # "wal" => live'[j] = live[j]
  BY <1>2, DatabaseFits, RowsPut DEF Items
<1>4. keys \subseteq live'["images"].keys \cup live'["attachments"].keys
  BY <1>1, <1>3, ServerAlone DEF Unrefer, Stored, Items
<1> QED BY <1>3, <1>4, Committed DEF Unrefer

LEMMA CollectKeeps ==
  ASSUME BackupInv, NEW k \in AllKeys, Collect(k)
  PROVE  BackupInv'
<1>1. PICK s \in {"images", "attachments"} : s = StoreOfKey(k)
  BY DEF StoreOfKey
<1>2. live \in Directory /\ live[s] \in ItemRow /\ live[s].keys \subseteq AllKeys /\ binary \in Nat
  BY DatabaseFits, ItemsOf DEF ItemRow
<1>3. PICK held \in SUBSET AllKeys : held = live[s].keys \ {k}
  BY <1>2
<1>4. Put(live, live', s, Holding(held))
  BY <1>1, <1>2, <1>3 DEF Collect, Put
<1>5. live' \in Directory /\ live'[s] = Holding(held) /\ \A j \in Items : j # s => live'[j] = live[j]
  BY <1>2, <1>4, FilesPut DEF Items
<1>6. Database' = Database /\ Referenced' = Referenced
  BY <1>5 DEF Database, Referenced, Items
<1>7. (Referenced \subseteq Stored)'
  <2>1. Referenced \subseteq live["images"].keys \cup live["attachments"].keys /\ k \notin Referenced
    BY ServerAlone DEF Collect, Stored
  <2>2. live'[s].keys = live[s].keys \ {k} /\ \A j \in {"images", "attachments"} : j # s => live'[j] = live[j]
    BY <1>3, <1>5 DEF Holding, Items
  <2> QED BY <1>6, <2>1, <2>2 DEF Stored
<1>8. server = "UP" /\ UNCHANGED <<server, binary, create, archive, restore, recovery, interrupted, previous>>
  BY DEF Collect
<1> QED BY <1>2, <1>5, <1>6, <1>7, <1>8, ServerAlone, ServerKeeps

\* Folding the log into the database changes no row.
LEMMA FoldedFits ==
  ASSUME BackupInv, live' = Folded
  PROVE  live' \in Directory /\ Database' = Database /\ Referenced' = Referenced /\ Stored' = Stored
<1>1. PICK one : one = [live EXCEPT !["db"] = Database]
  OBVIOUS
<1>put. Put(live, one, "db", Database)
  BY <1>1 DEF Put
<1>2. one \in Directory /\ one["db"] = Database /\ \A j \in Items : j # "db" => one[j] = live[j]
  BY <1>put, DatabaseFits, Replaced DEF Items
<1>3. Put(one, live', "wal", Missing)
  BY <1>1 DEF Folded, Put
<1>4. live' \in Directory /\ live'["wal"] = Missing /\ \A j \in Items : j # "wal" => live'[j] = one[j]
  BY <1>2, <1>3, ItemRemoved DEF Items
<1>5. Database' = Database
  BY <1>2, <1>4 DEF Database, Missing, Items
<1> QED BY <1>2, <1>4, <1>5 DEF Referenced, Stored, Items

LEMMA StopServerKeeps ==
  ASSUME BackupInv, NEW clean \in BOOLEAN, StopServer(clean)
  PROVE  BackupInv'
<1>1. /\ server # "DOWN" /\ server' = "DOWN"
      /\ UNCHANGED <<binary, create, archive, restore, recovery, interrupted, previous>>
  BY DEF StopServer
<1>2. live' = live \/ live' = Folded
  BY DEF StopServer
<1>3. live' \in Directory /\ (Referenced \subseteq Stored)'
  <2>1. CASE live' = live
    BY <1>1, <2>1, ServerAlone, DatabaseFits DEF Referenced, Stored, Database
  <2>2. CASE live' = Folded
    BY <1>1, <2>2, ServerAlone, FoldedFits
  <2> QED BY <1>2, <2>1, <2>2
<1> QED BY <1>1, <1>3, ServerAlone, DatabaseFits, ServerKeeps

LEMMA RestAttended ==
  ASSUME BackupInv, MayOpen, ~OperatorStartsEarly
  PROVE  ~interrupted /\ Referenced \subseteq Stored /\ server = "DOWN"
  BY DEF BackupInv, Attended, MayOpen

LEMMA OpenDatabaseKeeps ==
  ASSUME BackupInv, OpenDatabase, ~OperatorStartsEarly
  PROVE  BackupInv'
<1>1. /\ ~interrupted /\ Referenced \subseteq Stored /\ restore' = NoCommand /\ server' = "OPENING"
      /\ UNCHANGED <<binary, create, archive, recovery, interrupted, previous>>
  BY RestAttended DEF OpenDatabase
<1>2. live' \in Directory /\ (Referenced \subseteq Stored)'
  <2>1. CASE live' = live
    BY <1>1, <2>1, DatabaseFits DEF Referenced, Stored, Database
  <2>2. CASE live' = [live EXCEPT !["db"] = Rows({}, 0), !["wal"] = Missing]
    <3>1. PICK one : one = [live EXCEPT !["db"] = Rows({}, 0)]
      OBVIOUS
    <3>put. Put(live, one, "db", Rows({}, 0))
      BY <3>1 DEF Put
    <3>2. one \in Directory /\ one["db"] = Rows({}, 0)
      BY <3>put, DatabaseFits, RowsPut DEF Items
    <3>3. Put(one, live', "wal", Missing)
      BY <2>2, <3>1 DEF Put
    <3>4. live' \in Directory /\ live'["wal"] = Missing /\ live'["db"] = one["db"]
      BY <3>2, <3>3, ItemRemoved DEF Items
    <3>5. Referenced' = {}
      BY <3>2, <3>4 DEF Referenced, Database, Missing, Rows
    <3> QED BY <3>4, <3>5
  <2> QED BY <2>1, <2>2 DEF OpenDatabase
<1>3. binary' \in Nat
  BY <1>1, DatabaseFits
<1>4. restore'.phase = "NONE"
  BY <1>1 DEF NoCommand
<1> QED BY <1>1, <1>2, <1>3, <1>4, ServerKeeps

LEMMA RefuseNewerKeeps ==
  ASSUME BackupInv, RefuseNewer, ~OperatorStartsEarly
  PROVE  BackupInv'
<1>1. /\ ~interrupted /\ Referenced \subseteq Stored /\ restore' = NoCommand /\ server' = "DOWN"
      /\ UNCHANGED <<binary, create, archive, recovery, interrupted, previous>>
  BY RestAttended DEF RefuseNewer
<1>2. live' \in Directory /\ (Referenced \subseteq Stored)'
  BY <1>1, FoldedFits DEF RefuseNewer
<1>3. restore'.phase = "NONE" /\ binary' \in Nat
  BY <1>1, DatabaseFits DEF NoCommand
<1> QED BY <1>1, <1>2, <1>3, ServerKeeps

LEMMA ApplyMigrationKeeps ==
  ASSUME BackupInv, ApplyMigration
  PROVE  BackupInv'
<1>1. /\ server = "OPENING" /\ UNCHANGED <<server, binary, create, archive, restore, recovery, interrupted, previous>>
      /\ restore.phase = "NONE" /\ ~interrupted /\ Referenced \subseteq Stored
  BY ServerAlone DEF ApplyMigration
<1>2. PICK n \in Nat : n = Database.schema + 1
  BY DatabaseFits DEF ItemRow
<1>3. PICK keys \in SUBSET AllKeys : keys = Referenced
  BY DatabaseFits
<1>4. Put(live, live', "wal", Rows(keys, n))
  BY <1>2, <1>3 DEF ApplyMigration, Put
<1>5. live' \in Directory /\ live'["wal"] = Rows(keys, n) /\ \A j \in Items : j # "wal" => live'[j] = live[j]
  BY <1>4, DatabaseFits, RowsPut DEF Items
<1>6. Referenced' = Referenced /\ Stored' = Stored
  BY <1>3, <1>5 DEF Referenced, Database, Stored, Rows, Items
<1> QED BY <1>1, <1>5, <1>6, DatabaseFits, ServerKeeps

LEMMA ServeKeeps ==
  ASSUME BackupInv, Serve
  PROVE  BackupInv'
<1>1. /\ server = "OPENING" /\ server' = "UP"
      /\ UNCHANGED <<live, binary, create, archive, restore, recovery, interrupted, previous>>
      /\ restore.phase = "NONE" /\ ~interrupted /\ Referenced \subseteq Stored
  BY ServerAlone DEF Serve
<1>2. Database' = Database /\ Referenced' = Referenced /\ Stored' = Stored
  BY <1>1 DEF Referenced, Database, Stored
<1>3. Database'.schema = binary'
  BY <1>1, <1>2 DEF Serve
<1> QED BY <1>1, <1>2, <1>3, DatabaseFits, ServerKeeps

\* A command that leaves the data directory and the restore alone.
LEMMA CommandKeeps ==
  ASSUME BackupInv, UNCHANGED <<live, server, restore, recovery, interrupted, previous>>,
         GoodCreate', GoodArchive', binary' \in Nat, server = "UP" => binary' = binary
  PROVE  BackupInv'
<1>1. Referenced' = Referenced /\ Stored' = Stored /\ Database' = Database
  BY DEF Referenced, Stored, Database
<1>2. Attended'
  BY <1>1 DEF BackupInv, Attended
<1>3. Rescued'
  BY DEF BackupInv, Rescued, Kept
<1>4. GoodRestore' /\ Room' /\ DirectoriesFit'
  BY DEF BackupInv, GoodRestore, Room, DirectoriesFit
<1>5. Cleared' /\ Placed'
  BY DEF BackupInv, Cleared, Placed, Passed, Installed
<1> QED BY <1>2, <1>3, <1>4, <1>5 DEF BackupInv

LEMMA CreateStepKeeps ==
  ASSUME BackupInv,
         \/ SnapshotDatabase \/ InventoryFiles \/ PublishArchive \/ CreateKilled
         \/ \E k \in AllKeys : AddFile(k)
  PROVE  BackupInv'
<1>1. UNCHANGED <<live, server, binary, restore, recovery, interrupted, previous>>
  BY DEF SnapshotDatabase, InventoryFiles, PublishArchive, CreateKilled, AddFile
<1>2. GoodCreate /\ GoodArchive /\ binary \in Nat
  BY DEF BackupInv, DirectoriesFit
<1>3. GoodCreate' /\ GoodArchive'
  <2>1. CASE SnapshotDatabase
    BY <2>1, <1>2, DatabaseFits DEF SnapshotDatabase, GoodCreate, GoodArchive
  <2>2. CASE InventoryFiles
    BY <2>2, <1>2 DEF InventoryFiles, GoodCreate, GoodArchive, NoCommand
  <2>3. CASE PublishArchive
    BY <2>3, <1>2 DEF PublishArchive, GoodCreate, GoodArchive, NoCommand
  <2>4. CASE CreateKilled
    BY <2>4, <1>2 DEF CreateKilled, GoodCreate, GoodArchive, NoCommand
  <2>5. CASE \E k \in AllKeys : AddFile(k)
    <3>1. PICK k \in AllKeys : AddFile(k)
      BY <2>5
    <3>2. GoodArchive'
      BY <3>1, <1>2 DEF AddFile, GoodArchive
    <3>3. CASE create' = NoCommand
      BY <3>2, <3>3 DEF GoodCreate, NoCommand
    <3>4. CASE create' = [create EXCEPT !.files = @ \cup {k}]
      <4>1. PICK refs, held : create = [phase |-> "ADD", refs |-> refs, files |-> held]
        BY <3>1, <1>2 DEF AddFile, GoodCreate
      <4>2. create' = [phase |-> "ADD", refs |-> refs, files |-> held \cup {k}]
        BY <3>4, <4>1
      <4>3. refs \subseteq AllKeys /\ held \subseteq refs /\ k \in refs
        BY <3>1, <1>2, <4>1 DEF AddFile, GoodCreate
      <4> QED BY <3>2, <4>2, <4>3 DEF GoodCreate
    <3> QED BY <3>1, <3>2, <3>3, <3>4 DEF AddFile
  <2> QED BY <2>1, <2>2, <2>3, <2>4, <2>5
<1> QED BY <1>1, <1>2, <1>3, CommandKeeps

LEMMA DamageArchiveKeeps ==
  ASSUME BackupInv, DamageArchive
  PROVE  BackupInv'
<1>1. GoodCreate' /\ GoodArchive' /\ binary \in Nat
  BY DEF BackupInv, DirectoriesFit, GoodCreate, GoodArchive, DamageArchive
<1> QED BY <1>1, CommandKeeps DEF DamageArchive

LEMMA InstallReleaseKeeps ==
  ASSUME BackupInv, NEW release \in Releases, InstallRelease(release)
  PROVE  BackupInv'
<1>1. GoodCreate' /\ GoodArchive' /\ binary' \in Nat
  BY BackupAssumption DEF BackupInv, GoodCreate, GoodArchive, InstallRelease
<1> QED BY <1>1, CommandKeeps DEF InstallRelease

-----------------------------------------------------------------------------
LEMMA ExtractedFits ==
  ASSUME NEW a, a.refs \subseteq AllKeys, a.files = a.refs, a.schema \in Nat
  PROVE  /\ Extracted(a) \in Directory /\ Extracted(a)["wal"] = Missing
         /\ Extracted(a)["db"].keys \subseteq Extracted(a)["images"].keys \cup Extracted(a)["attachments"].keys
<1> DEFINE Files(keys) == IF keys = {} THEN Missing ELSE Holding(keys)
<1>1. /\ GoodItem(Rows(a.refs, a.schema)) /\ GoodItem(Missing)
      /\ GoodItem(Files(a.files \cap ImageKeys)) /\ GoodItem(Files(a.files \cap AttachmentKeys))
  BY GoodRows
<1>2. Files(a.files \cap ImageKeys).keys = a.files \cap ImageKeys
  BY DEF Missing, Holding
<1>3. Files(a.files \cap AttachmentKeys).keys = a.files \cap AttachmentKeys
  BY DEF Missing, Holding
<1>4. Rows(a.refs, a.schema).keys = a.refs
  BY DEF Rows
<1>5. PICK db, images, attachments :
        /\ db = Rows(a.refs, a.schema)
        /\ images = Files(a.files \cap ImageKeys)
        /\ attachments = Files(a.files \cap AttachmentKeys)
  OBVIOUS
<1>6. Extracted(a) = [Empty EXCEPT !["db"] = db, !["images"] = images, !["attachments"] = attachments]
  BY <1>5 DEF Extracted
<1> HIDE DEF Files
<1>7. PICK d : d = [Empty EXCEPT !["db"] = db, !["images"] = images, !["attachments"] = attachments]
  OBVIOUS
<1>8. /\ d \in [Items -> ItemRow] /\ d["db"] = db /\ d["wal"] = Missing /\ d["images"] = images
      /\ d["attachments"] = attachments
  BY <1>1, <1>5, <1>7 DEF Empty, Items, GoodItem
<1>9. \A i \in Items : GoodItem(d[i])
  BY <1>1, <1>5, <1>8 DEF Items
<1>10. a.refs \subseteq (a.files \cap ImageKeys) \cup (a.files \cap AttachmentKeys)
  BY DEF AllKeys
<1> QED BY <1>2, <1>3, <1>4, <1>5, <1>6, <1>7, <1>8, <1>9, <1>10 DEF Directory

LEMMA BeginRestoreKeeps ==
  ASSUME BackupInv, NEW force \in BOOLEAN, BeginRestore(force)
  PROVE  BackupInv'
<1>1. /\ server = "DOWN" /\ UNCHANGED <<live, server, binary, create, archive>> /\ interrupted' = TRUE
      /\ archive.number > 0 /\ archive.refs \subseteq AllKeys /\ archive.files = archive.refs /\ archive.schema \in Nat
  BY DEF BeginRestore, BackupInv, GoodArchive
<1>2. PICK staged : staged = Extracted(archive)
  OBVIOUS
<1>3. /\ staged \in Directory /\ staged["wal"] = Missing
      /\ staged["db"].keys \subseteq staged["images"].keys \cup staged["attachments"].keys
  BY <1>1, <1>2, ExtractedFits
<1>4. restore' = [phase |-> "MOVE", next |-> 1, staged |-> staged]
  BY <1>2 DEF BeginRestore
<1>5. restore'.phase = "MOVE" /\ restore'.next = 1 /\ restore'.staged = staged
  BY <1>4
<1>6. GoodRestore'
  BY <1>3, <1>4, <1>5 DEF GoodRestore
<1>7. Cleared' /\ Placed'
  BY <1>5 DEF Cleared, Placed, Passed, Installed
<1>8. DirectoriesFit /\ live \in Directory
  BY DEF BackupInv, DirectoriesFit
<1>9. Empty \in [Items -> ItemRow]
  BY GoodRows DEF Empty, GoodItem
<1>10. recovery' \in Seq([Items -> ItemRow]) /\ (HasExistingData => recovery' = Append(recovery, Empty))
       /\ (~HasExistingData => recovery' = recovery)
  BY <1>8, <1>9 DEF DirectoriesFit, BeginRestore
<1>11. Room'
  <2> SUFFICES ASSUME NEW i \in Items, live[i].present
               PROVE  recovery' # <<>> /\ recovery'[Len(recovery')][i] = Missing
    BY <1>1 DEF Room
  <2>1. recovery' = Append(recovery, Empty)
    BY <1>10 DEF HasExistingData
  <2>2. Len(recovery') = Len(recovery) + 1 /\ recovery'[Len(recovery')] = Empty /\ Len(recovery) \in Nat
    BY <1>8, <2>1 DEF DirectoriesFit
  <2>3. Empty[i] = Missing
    BY DEF Empty
  <2> QED BY <2>2, <2>3
<1>12. previous' = IF interrupted THEN previous ELSE live
  BY DEF BeginRestore
<1>13. previous' \in Directory
  BY <1>8, <1>12 DEF DirectoriesFit
<1>14. \A d \in DOMAIN recovery : d \in DOMAIN recovery' /\ recovery'[d] = recovery[d]
  <2>1. recovery \in Seq([Items -> ItemRow])
    BY <1>8 DEF DirectoriesFit
  <2>2. CASE HasExistingData
    <3>1. recovery' = Append(recovery, Empty)
      BY <1>10, <2>2
    <3>2. DOMAIN recovery = 1 .. Len(recovery) /\ Len(recovery) \in Nat
      BY <2>1
    <3>3. DOMAIN Append(recovery, Empty) = 1 .. (Len(recovery) + 1)
      BY <1>9, <2>1
    <3>4. \A d \in 1 .. Len(recovery) : Append(recovery, Empty)[d] = recovery[d]
      BY <1>9, <2>1
    <3> QED BY <3>1, <3>2, <3>3, <3>4
  <2>3. CASE ~HasExistingData
    BY <1>10, <2>3
  <2> QED BY <2>2, <2>3
<1>15. Rescued'
  <2>1. CASE interrupted
    BY <1>1, <1>5, <1>12, <1>14, <2>1 DEF BackupInv, Rescued, Kept
  <2>2. CASE ~interrupted
    BY <1>1, <1>5, <1>12, <2>2 DEF Rescued
  <2> QED BY <2>1, <2>2
<1>16. Attended'
  BY <1>1, <1>5 DEF Attended
<1>17. DirectoriesFit' /\ GoodCreate' /\ GoodArchive'
  BY <1>1, <1>8, <1>10, <1>13 DEF BackupInv, DirectoriesFit, GoodCreate, GoodArchive
<1> QED BY <1>6, <1>7, <1>11, <1>15, <1>16, <1>17 DEF BackupInv

LEMMA MoveOrderIs ==
  /\ MoveOrder[1] = "db" /\ MoveOrder[2] = "wal" /\ MoveOrder[3] = "images" /\ MoveOrder[4] = "attachments"
  /\ Len(MoveOrder) = 4 /\ \A n \in 1 .. 4 : MoveOrder[n] \in Items
  /\ InstallOrder[1] = "db" /\ InstallOrder[2] = "images" /\ InstallOrder[3] = "attachments"
  /\ Len(InstallOrder) = 3 /\ \A n \in 1 .. 3 : InstallOrder[n] \in Items
  BY DEF MoveOrder, InstallOrder, Items

\* What one rename of MoveAside does to one item.
LEMMA MovedAside ==
  ASSUME BackupInv, restore.phase = "MOVE", NEW item \in Items, previous' = previous,
         IF live[item].present
         THEN /\ recovery' = [recovery EXCEPT ![Len(recovery)][item] = live[item]]
              /\ live' = [live EXCEPT ![item] = Missing]
         ELSE UNCHANGED <<recovery, live>>
  PROVE  /\ live' \in Directory /\ recovery' \in Seq([Items -> ItemRow])
         /\ live'[item] = Missing /\ \A i \in Items : i # item => live'[i] = live[i]
         /\ \A i \in Items : previous[i].present /\ (Kept(i) \/ (i = item /\ live[i] = previous[i])) => Kept(i)'
         /\ \A i \in Items : live'[i].present => recovery' # <<>> /\ recovery'[Len(recovery')][i] = Missing
<1>1. live \in Directory /\ recovery \in Seq([Items -> ItemRow]) /\ GoodItem(live[item]) /\ live[item] \in ItemRow
  BY ItemsOf DEF BackupInv, DirectoriesFit, GoodItem
<1>2. Room
  BY DEF BackupInv
<1>3. CASE ~live[item].present
  <2>1. UNCHANGED <<recovery, live>> /\ live[item] = Missing
    BY <1>1, <1>3 DEF GoodItem
  <2>2. \A i \in Items : Kept(i) => Kept(i)'
    BY <2>1 DEF Kept
  <2>3. \A i \in Items : previous[i].present => ~(i = item /\ live[i] = previous[i])
    BY <1>3
  <2> QED BY <1>1, <1>2, <2>1, <2>2, <2>3 DEF Room
<1>4. CASE live[item].present
  <2>1. PICK last \in 1 .. Len(recovery) : last = Len(recovery) /\ recovery[last][item] = Missing /\ recovery # <<>>
    <3>1. recovery # <<>> /\ recovery[Len(recovery)][item] = Missing
      BY <1>2, <1>4 DEF Room
    <3>2. Len(recovery) \in 1 .. Len(recovery)
      BY <1>1, <3>1
    <3> QED BY <3>1, <3>2
  <2>2. recovery \in [1 .. last -> [Items -> ItemRow]] /\ DOMAIN recovery = 1 .. last /\ last \in Nat \ {0}
    BY <1>1, <2>1
  <2>3. PICK old \in [Items -> ItemRow] : old = recovery[last]
    BY <2>1, <2>2
  <2>4. PICK row \in ItemRow : row = live[item]
    BY <1>1
  <2>5. PICK new : new = [old EXCEPT ![item] = row]
    OBVIOUS
  <2>6. new \in [Items -> ItemRow] /\ new[item] = row /\ \A i \in Items : i # item => new[i] = old[i]
    BY <2>5
  <2>7. recovery' = [recovery EXCEPT ![last] = new]
    BY <1>4, <2>1, <2>2, <2>3, <2>4, <2>5
  <2>8. /\ recovery' \in [1 .. last -> [Items -> ItemRow]] /\ recovery'[last] = new
        /\ \A d \in 1 .. last : d # last => recovery'[d] = recovery[d]
    BY <2>2, <2>6, <2>7
  <2>9. recovery' \in Seq([Items -> ItemRow]) /\ Len(recovery') = last /\ DOMAIN recovery' = 1 .. last /\ recovery' # <<>>
    BY <2>2, <2>8
  <2>10. Put(live, live', item, Missing)
    BY <1>4 DEF Put
  <2>11. live' \in Directory /\ live'[item] = Missing /\ \A i \in Items : i # item => live'[i] = live[i]
    BY <1>1, <2>10, ItemRemoved
  <2>12. \A i \in Items : live'[i].present => recovery' # <<>> /\ recovery'[Len(recovery')][i] = Missing
    <3> SUFFICES ASSUME NEW i \in Items, live'[i].present
                 PROVE  recovery'[last][i] = Missing
      BY <2>9
    <3>1. i # item /\ live[i].present
      BY <2>11 DEF Missing
    <3>2. old[i] = Missing
      BY <1>2, <2>1, <2>3, <3>1 DEF Room
    <3> QED BY <2>6, <2>8, <3>1, <3>2
  <2>13. \A i \in Items : previous[i].present /\ (Kept(i) \/ (i = item /\ live[i] = previous[i])) => Kept(i)'
    <3> SUFFICES ASSUME NEW i \in Items, previous[i].present, Kept(i) \/ (i = item /\ live[i] = previous[i])
                 PROVE  \E d \in 1 .. last : recovery'[d][i] = previous[i]
      BY <2>9 DEF Kept
    <3>1. CASE i = item /\ live[i] = previous[i]
      BY <2>4, <2>6, <2>8, <2>1, <3>1
    <3>2. CASE Kept(i)
      <4>1. PICK d \in 1 .. last : recovery[d][i] = previous[i]
        BY <2>2, <3>2 DEF Kept
      <4>2. CASE d # last
        BY <2>8, <4>1, <4>2
      <4>3. CASE d = last
        <5>1. i # item
          BY <2>1, <4>1, <4>3 DEF Missing
        <5> QED BY <2>3, <2>6, <2>8, <4>1, <4>3, <5>1
      <4> QED BY <4>2, <4>3
    <3> QED BY <3>1, <3>2
  <2> QED BY <2>9, <2>11, <2>12, <2>13
<1> QED BY <1>3, <1>4

LEMMA MoveAsideKeeps ==
  ASSUME BackupInv, MoveAside
  PROVE  BackupInv'
<1>1. /\ restore.phase = "MOVE" /\ UNCHANGED <<server, binary, create, archive, interrupted, previous>>
  BY DEF MoveAside
<1>next. PICK next \in 1 .. 4 : next = restore.next
  BY <1>1 DEF BackupInv, GoodRestore
<1>2. PICK staged : restore = [phase |-> "MOVE", next |-> next, staged |-> staged]
  BY <1>1, <1>next DEF BackupInv, GoodRestore
<1>3. /\ staged \in Directory /\ staged["wal"] = Missing
      /\ staged["db"].keys \subseteq staged["images"].keys \cup staged["attachments"].keys
  BY <1>1, <1>2 DEF BackupInv, GoodRestore
<1>4. PICK item \in Items : item = MoveOrder[next]
  BY MoveOrderIs
<1>5. IF live[item].present
      THEN /\ recovery' = [recovery EXCEPT ![Len(recovery)][item] = live[item]]
           /\ live' = [live EXCEPT ![item] = Missing]
      ELSE UNCHANGED <<recovery, live>>
  BY <1>2, <1>4 DEF MoveAside
<1>6. /\ live' \in Directory /\ recovery' \in Seq([Items -> ItemRow])
      /\ live'[item] = Missing /\ \A i \in Items : i # item => live'[i] = live[i]
      /\ \A i \in Items : previous[i].present /\ (Kept(i) \/ (i = item /\ live[i] = previous[i])) => Kept(i)'
      /\ \A i \in Items : live'[i].present => recovery' # <<>> /\ recovery'[Len(recovery')][i] = Missing
  BY <1>1, <1>5, MovedAside
<1>7. \/ restore' = [phase |-> "MOVE", next |-> next + 1, staged |-> staged] /\ next < 4
      \/ restore' = [phase |-> "INSTALL", next |-> 1, staged |-> staged] /\ next = 4
  <2>1. restore' = IF next < 4 THEN [restore EXCEPT !.next = next + 1] ELSE [restore EXCEPT !.phase = "INSTALL", !.next = 1]
    BY <1>2, MoveOrderIs DEF MoveAside
  <2>2. CASE next < 4
    BY <1>2, <2>1, <2>2
  <2>3. CASE next = 4
    <3>1. restore' = [restore EXCEPT !.phase = "INSTALL", !.next = 1]
      BY <2>1, <2>3
    <3> QED BY <1>2, <2>3, <3>1
  <2> QED BY <2>2, <2>3
<1>8. interrupted /\ server = "DOWN"
  BY <1>1 DEF BackupInv, Attended
<1>9. DirectoriesFit' /\ GoodCreate' /\ GoodArchive'
  BY <1>1, <1>6 DEF BackupInv, DirectoriesFit, GoodCreate, GoodArchive
<1>10. GoodRestore'
  BY <1>2, <1>3, <1>7 DEF GoodRestore
<1>11. Attended'
  BY <1>1, <1>7, <1>8 DEF Attended
<1>12. \A n \in 1 .. 4 : n < next => live[MoveOrder[n]] = Missing
  BY <1>2, MoveOrderIs DEF BackupInv, Cleared, Passed
<1>13. \A n \in 1 .. 4 : n <= next => live'[MoveOrder[n]] = Missing
  <2> SUFFICES ASSUME NEW n \in 1 .. 4, n <= next PROVE live'[MoveOrder[n]] = Missing
    OBVIOUS
  <2>1. CASE MoveOrder[n] = item
    BY <1>6, <2>1
  <2>2. CASE MoveOrder[n] # item
    <3>1. n < next
      BY <1>4, <2>2
    <3> QED BY <1>6, <1>12, <2>2, <3>1, MoveOrderIs
  <2> QED BY <2>1, <2>2
<1>14. CASE restore' = [phase |-> "MOVE", next |-> next + 1, staged |-> staged] /\ next < 4
  <2>1. restore'.phase = "MOVE" /\ restore'.next = next + 1
    BY <1>14
  <2>2. Cleared' /\ Placed'
    <3>1. \A n \in 1 .. 4 : n < next + 1 => n <= next
      OBVIOUS
    <3> QED BY <1>13, <2>1, <3>1 DEF Cleared, Placed, Passed, Installed
  <2>3. Room'
    BY <1>6 DEF Room
  <2>4. Rescued'
    BY <1>1, <1>6, <1>8, <2>1 DEF BackupInv, Rescued
  <2> QED BY <1>9, <1>10, <1>11, <2>2, <2>3, <2>4 DEF BackupInv
<1>15. CASE restore' = [phase |-> "INSTALL", next |-> 1, staged |-> staged] /\ next = 4
  <2>1. restore'.phase = "INSTALL" /\ restore'.next = 1
    BY <1>15
  <2>2. \A i \in Items : live'[i] = Missing
    BY <1>13, <1>15, MoveOrderIs DEF Items
  <2>3. Cleared' /\ Placed' /\ Room'
    BY <2>1, <2>2 DEF Cleared, Placed, Room, Installed
  <2>4. Rescued'
    <3> SUFFICES ASSUME NEW i \in Items, previous[i].present PROVE Kept(i)'
      BY <1>1 DEF Rescued
    <3>1. Kept(i) \/ live[i] = previous[i]
      BY DEF BackupInv, Rescued
    <3>2. live[i] = previous[i] => i = item
      BY <1>6, <2>2 DEF Missing
    <3> QED BY <1>6, <3>1, <3>2
  <2> QED BY <1>9, <1>10, <1>11, <2>3, <2>4 DEF BackupInv
<1> QED BY <1>7, <1>14, <1>15

LEMMA InstallKeeps ==
  ASSUME BackupInv, Install
  PROVE  BackupInv'
<1>1. restore.phase = "INSTALL" /\ UNCHANGED <<server, binary, create, archive, recovery, previous>>
  BY DEF Install
<1>next. PICK next \in 1 .. 3 : next = restore.next
  BY <1>1 DEF BackupInv, GoodRestore
<1>2. PICK staged : restore = [phase |-> "INSTALL", next |-> next, staged |-> staged]
  BY <1>1, <1>next DEF BackupInv, GoodRestore
<1>3. /\ staged \in Directory /\ staged["wal"] = Missing
      /\ staged["db"].keys \subseteq staged["images"].keys \cup staged["attachments"].keys
  BY <1>1, <1>2 DEF BackupInv, GoodRestore
<1>4. PICK item \in Items : item = InstallOrder[next]
  BY MoveOrderIs
<1>5. GoodItem(staged[item])
  BY <1>3, ItemsOf
<1>6. live[item] = Missing /\ live["wal"] = Missing /\ live \in Directory
  BY <1>2, <1>4, MoveOrderIs DEF BackupInv, Cleared, Passed, Items, DirectoriesFit
<1>7. live' = IF staged[item].present THEN [live EXCEPT ![item] = staged[item]] ELSE live
  BY <1>2, <1>4 DEF Install
<1>8. live' \in Directory /\ live'[item] = staged[item] /\ \A i \in Items : i # item => live'[i] = live[i]
  <2>1. CASE staged[item].present
    <3>1. PICK row : row = staged[item]
      OBVIOUS
    <3>2. Put(live, live', item, row)
      BY <1>7, <2>1, <3>1 DEF Put
    <3> QED BY <1>5, <1>6, <3>1, <3>2, Replaced
  <2>2. CASE ~staged[item].present
    BY <1>5, <1>6, <1>7, <2>2 DEF GoodItem
  <2> QED BY <2>1, <2>2
<1>9. /\ next < 3 => restore' = [phase |-> "INSTALL", next |-> next + 1, staged |-> staged] /\ interrupted'
      /\ next = 3 => restore' = [phase |-> "DONE", next |-> next, staged |-> staged] /\ ~interrupted'
      /\ interrupted' \in BOOLEAN
  <2>1. restore' = IF next < 3 THEN [restore EXCEPT !.next = next + 1] ELSE [restore EXCEPT !.phase = "DONE"]
    BY <1>2, MoveOrderIs DEF Install
  <2>2. restore.next = next
    BY <1>2
  <2>3. interrupted' = (next < 3)
    BY <2>2, MoveOrderIs, Zenon DEF Install
  <2>4. interrupted' \in BOOLEAN /\ (next < 3 <=> interrupted')
    <3>1. (next < 3) \in BOOLEAN
      OBVIOUS
    <3>2. interrupted' \in BOOLEAN
      BY ONLY <2>3, <3>1, Zenon
    <3> QED BY ONLY <2>3, <3>2, Zenon
  <2>5. next = 3 => ~(next < 3)
    OBVIOUS
  <2>6. next < 3 => restore' = [phase |-> "INSTALL", next |-> next + 1, staged |-> staged]
    BY <1>2, <2>1
  <2>7. next = 3 => restore' = [restore EXCEPT !.phase = "DONE"]
    BY <2>1, <2>5
  <2>8. next = 3 => restore' = [phase |-> "DONE", next |-> next, staged |-> staged]
    BY <1>2, <2>7
  <2> QED BY <2>4, <2>5, <2>6, <2>8, Zenon
<1>10. server = "DOWN"
  BY <1>1 DEF BackupInv, Attended
<1>11. DirectoriesFit' /\ GoodCreate' /\ GoodArchive'
  BY <1>1, <1>8 DEF BackupInv, DirectoriesFit, GoodCreate, GoodArchive
<1>12. \A i \in Items : previous[i].present => Kept(i)'
  BY <1>1 DEF BackupInv, Rescued, Kept
<1>13. Rescued'
  BY <1>1, <1>12 DEF Rescued
<1>14. \A n \in 1 .. 3 : n <= next => live'[InstallOrder[n]] = staged[InstallOrder[n]]
  <2> SUFFICES ASSUME NEW n \in 1 .. 3, n <= next PROVE live'[InstallOrder[n]] = staged[InstallOrder[n]]
    OBVIOUS
  <2>1. CASE InstallOrder[n] = item
    BY <1>8, <2>1
  <2>2. CASE InstallOrder[n] # item
    <3>1. n < next
      BY <1>4, <2>2
    <3>2. live[InstallOrder[n]] = staged[InstallOrder[n]]
      BY <1>2, <3>1, MoveOrderIs DEF BackupInv, Placed, Installed
    <3> QED BY <1>8, <2>2, <3>2, MoveOrderIs
  <2> QED BY <2>1, <2>2
<1>15. CASE next < 3
  <2>1. restore'.phase = "INSTALL" /\ restore'.next = next + 1 /\ restore'.staged = staged
    BY <1>9, <1>15
  <2>2. GoodRestore' /\ Attended'
    BY <1>1, <1>3, <1>9, <1>10, <1>15 DEF GoodRestore, Attended
  <2>3. Placed'
    <3>1. \A n \in 1 .. 3 : n < next + 1 => n <= next
      OBVIOUS
    <3> QED BY <1>14, <2>1, <3>1 DEF Placed, Installed
  <2>4. Cleared'
    <3>1. "wal" # item
      BY <1>4, MoveOrderIs DEF InstallOrder
    <3>2. \A n \in 1 .. 3 : n >= next + 1 => InstallOrder[n] # item
      BY <1>4, MoveOrderIs
    <3>3. \A n \in 1 .. 3 : n >= next + 1 => live[InstallOrder[n]] = Missing
      BY <1>2, MoveOrderIs DEF BackupInv, Cleared, Passed
    <3>4. live'["wal"] = Missing
      BY <1>6, <1>8, <3>1 DEF Items
    <3>5. \A n \in 1 .. 3 : n >= next + 1 => live'[InstallOrder[n]] = Missing
      BY <1>8, <3>2, <3>3, MoveOrderIs
    <3> QED BY <2>1, <3>4, <3>5 DEF Cleared, Passed
  <2>5. Room'
    BY <2>1 DEF Room
  <2> QED BY <1>11, <1>13, <2>2, <2>3, <2>4, <2>5 DEF BackupInv
<1>16. CASE next = 3
  <2>1. restore'.phase = "DONE" /\ restore'.staged = staged
    BY <1>9, <1>16
  <2>2. "wal" # item
    BY <1>4, MoveOrderIs DEF InstallOrder
  <2>3. \A i \in Items : live'[i] = staged[i]
    BY <1>3, <1>6, <1>8, <1>14, <1>16, <2>2, MoveOrderIs DEF Items
  <2>4. live' = staged
    BY <1>3, <1>8, <2>3 DEF Directory
  <2>5. GoodRestore'
    BY <1>3, <1>9, <1>16, <2>1, <2>4 DEF GoodRestore
  <2>6. (Referenced \subseteq Stored)'
    BY <1>3, <2>4 DEF Referenced, Database, Stored, Missing
  <2>7. Attended'
    BY <1>1, <1>9, <1>10, <1>16, <2>1, <2>6 DEF Attended
  <2>8. Cleared' /\ Placed' /\ Room'
    BY <2>1 DEF Cleared, Placed, Room, Passed, Installed
  <2> QED BY <1>11, <1>13, <2>5, <2>7, <2>8 DEF BackupInv
<1> QED BY <1>15, <1>16

LEMMA RestoreStopsKeeps ==
  ASSUME BackupInv, RestoreStops
  PROVE  BackupInv'
<1>1. /\ interrupted /\ server = "DOWN"
      /\ UNCHANGED <<live, server, binary, create, archive, recovery, interrupted, previous>>
  BY DEF RestoreStops, BackupInv, Attended
<1>2. restore'.phase = "NONE"
  BY DEF RestoreStops, NoCommand
<1>3. GoodRestore' /\ Cleared' /\ Placed' /\ Room' /\ Attended'
  BY <1>1, <1>2 DEF GoodRestore, Cleared, Placed, Room, Passed, Installed, Attended
<1>4. Rescued'
  BY <1>1, <1>2 DEF BackupInv, Rescued, Kept
<1>5. DirectoriesFit' /\ GoodCreate' /\ GoodArchive'
  BY <1>1 DEF BackupInv, DirectoriesFit, GoodCreate, GoodArchive
<1> QED BY <1>3, <1>4, <1>5 DEF BackupInv

LEMMA BackupInvInit ==
  ASSUME BackupInit
  PROVE  BackupInv
<1>1. Empty \in Directory
  BY GoodRows DEF Empty, Directory, GoodItem
<1>2. restore.phase = "NONE" /\ create.phase = "NONE" /\ archive.number = 0
  BY DEF BackupInit, NoCommand
<1>3. DirectoriesFit /\ GoodCreate /\ GoodArchive
  BY <1>1, <1>2, BackupAssumption DEF BackupInit, DirectoriesFit, GoodCreate, GoodArchive
<1>4. GoodRestore /\ Cleared /\ Placed /\ Room
  BY <1>2 DEF GoodRestore, Cleared, Placed, Room, Passed, Installed
<1>5. Rescued
  BY DEF BackupInit, Rescued, Empty, Missing
<1>6. Database = Missing /\ Referenced = {}
  BY DEF BackupInit, Database, Referenced, Empty, Missing, Items
<1>7. Attended
  BY <1>2, <1>6 DEF BackupInit, Attended
<1> QED BY <1>3, <1>4, <1>5, <1>7 DEF BackupInv

\* The inductive invariant of backup and restore (internal/backup), for any
\* files, releases and numbers of attempts, as long as nobody starts the server
\* on a directory that a restore has left half way.
THEOREM BackupsFit ==
  ASSUME ~OperatorStartsEarly
  PROVE  BackupSpec => []BackupInv
<1>1. BackupInit => BackupInv
  BY BackupInvInit
<1>2. BackupInv /\ [BackupNext]_backupVars => BackupInv'
  <2> SUFFICES ASSUME BackupInv, [BackupNext]_backupVars PROVE BackupInv'
    OBVIOUS
  <2>1. CASE UNCHANGED backupVars
    <3>1. UNCHANGED <<live, server, restore, recovery, interrupted, previous>> /\ UNCHANGED <<binary, create, archive>>
      BY <2>1 DEF backupVars
    <3>2. GoodCreate' /\ GoodArchive' /\ binary' \in Nat
      BY <3>1 DEF BackupInv, DirectoriesFit, GoodCreate, GoodArchive
    <3> QED BY <3>1, <3>2, CommandKeeps
  <2>2. CASE \E k \in ImageKeys \cup AttachmentKeys : Refer(k) \/ Unrefer(k) \/ Collect(k) \/ AddFile(k)
    BY <2>2, ReferKeeps, UnreferKeeps, CollectKeeps, CreateStepKeeps DEF AllKeys
  <2>3. CASE \E clean \in BOOLEAN : StopServer(clean)
    BY <2>3, StopServerKeeps
  <2>4. CASE OpenDatabase \/ RefuseNewer \/ ApplyMigration \/ Serve
    BY <2>4, OpenDatabaseKeeps, RefuseNewerKeeps, ApplyMigrationKeeps, ServeKeeps
  <2>5. CASE \E release \in Releases : InstallRelease(release)
    BY <2>5, InstallReleaseKeeps
  <2>6. CASE SnapshotDatabase \/ InventoryFiles \/ PublishArchive \/ CreateKilled \/ DamageArchive
    BY <2>6, CreateStepKeeps, DamageArchiveKeeps
  <2>7. CASE \E force \in BOOLEAN : BeginRestore(force)
    BY <2>7, BeginRestoreKeeps
  <2>8. CASE MoveAside \/ Install \/ RestoreStops
    BY <2>8, MoveAsideKeeps, InstallKeeps, RestoreStopsKeeps
  <2> QED BY <2>1, <2>2, <2>3, <2>4, <2>5, <2>6, <2>7, <2>8 DEF BackupNext
<1> QED BY <1>1, <1>2, PTL DEF BackupSpec

\* Wherever a restore is cut off and repeated, an archive has the files its
\* database refers to, the server never runs on a dangling reference or on
\* foreign migrations, a finished restore is the archive and nothing else, and
\* each part of the data from before is in its place or in a recovery directory
\* (Create, Restore of internal/backup).
THEOREM RestoresLoseNothing ==
  ASSUME ~OperatorStartsEarly
  PROVE  BackupSpec => []RestoreKeepsData
<1>1. BackupInv => RestoreKeepsData
  BY BackupInvImplies
<1> QED BY <1>1, BackupsFit, PTL
=============================================================================
