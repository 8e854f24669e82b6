-------------------------- MODULE MCAdministration --------------------------
(***************************************************************************)
(* What administrators, operators and owners of accounts do, component by  *)
(* component: a behaviour exercises one part.  The parts share no state.   *)
(***************************************************************************)
EXTENDS AccountSecurity, Joining, Roles, GroupLifecycle, SystemSettings, Catalog, Backup

VARIABLE part

Parts ==
  {"security", "invitations", "guests", "links", "joining", "roles", "groups", "images", "receipts", "smtp",
   "push", "legal", "shelf", "categories", "readers", "posters", "backup", "upgrade"}

MCEmail == [u1 |-> "e1", u2 |-> "e2"]

\* Two groups with their administrators before any file.
FilesPartInit ==
  /\ group = [g \in Groups |-> Row("ACTIVE")]
  /\ founded = TRUE
  /\ draft = "NONE" /\ screen = NoScreen
  /\ preferred = NoGroup /\ chosen = NoGroup
  /\ checkpoint = FALSE
  /\ FilesInit

MCInit ==
  /\ part \in Parts
  /\ AccountsInit /\ \A u \in Users : account[u].email = MCEmail[u] /\ account[u].hash.password = "p"
  /\ JoinInit
  /\ RolesInit
  /\ IF part \in {"images", "receipts"} THEN FilesPartInit ELSE LifecycleInit /\ (part = "groups" \/ ~founded)
  /\ SettingsInit /\ (part = "smtp" \/ cipher)
  /\ CatalogInit
  /\ BackupInit /\ (part = "upgrade" \/ binary = 1)

\* Two invitations and one member, one invitation and two members, the
\* public link alone, and one of each kind.
JoiningStep ==
  \/ part = "invitations" /\ JoinNext /\ UNCHANGED link /\ Len(members') <= 1
  \/ part = "guests" /\ JoinNext /\ UNCHANGED link /\ Len(invitations') <= 1
  \/ part = "links" /\ JoinNext /\ UNCHANGED invitations
  \/ /\ part = "joining" /\ JoinNext /\ Len(invitations') <= 1 /\ Len(registrations') <= 1 /\ link'.version <= 1
     /\ \A r \in DOMAIN registrations' : registrations'[r].mailed <= 1

\* One group with its messages and preferences; two groups with an image,
\* and with a receipt, they may share.
GroupsStep ==
  \/ part = "groups" /\ GroupStep /\ \A g \in Groups \ {"g1"} : UNCHANGED group[g]
  \/ /\ part \in {"images", "receipts"}
     /\ FilesStep \/ \E g \in Groups : ManagedGroupByID(g) \/ ArchiveGroup(g) \/ \E locally \in BOOLEAN : PurgeGroup(g, locally)
     /\ files' \subseteq IF part = "images" THEN Images ELSE Receipts

\* One category with two products, two categories, two readers of one
\* product, and posters.
ShelvesStep ==
  \/ part = "shelf" /\ CatalogStep({1}, {"k1"}, Products)
  \/ part = "categories" /\ CatalogStep({1}, Categories, {"p1"})
  \/ part = "readers" /\ CatalogStep(Clients, {"k1"}, {"p1"})
  \/ part = "posters" /\ (PosterStep \/ CatalogStep({1}, {"k1"}, {"p1"}))

\* The mail server with its password, one snapshot at a time beside the
\* commands of the operator; the other settings, with two; the legal texts.
Snapshots == {p \in Purposes : reader[p] # Idle}
ConfigurationStep ==
  \/ /\ part = "smtp" /\ SettingsStep /\ Cardinality(Snapshots') <= 1
     /\ DOMAIN overrides' \subseteq SMTPConnectionKeys \cup {"smtpEnabled"}
  \/ /\ part = "push" /\ SettingsStep /\ Cardinality(Snapshots') <= 2
     /\ DOMAIN overrides' \cap SMTPConnectionKeys = {} /\ state'.revision <= 3
  \/ part = "legal" /\ LegalStep

\* One release and two restores; two releases and one.
BackupStep ==
  \/ part = "backup" /\ BackupNext /\ UNCHANGED binary
  \/ part = "upgrade" /\ BackupNext /\ changes' <= 1 /\ Len(recovery') <= 1

MCNext ==
  /\ UNCHANGED part
  /\ \/ /\ part = "security" /\ AccountsNext /\ Cardinality(requests') + Len(securityActions') <= 3
        /\ UNCHANGED <<joinVars, roleVars, lifecycleVars, settingVars, catalogVars, backupVars>>
     \/ /\ JoiningStep
        /\ UNCHANGED <<accountVars, roleVars, lifecycleVars, settingVars, catalogVars, backupVars>>
     \/ /\ part = "roles" /\ RolesNext
        /\ UNCHANGED <<accountVars, joinVars, lifecycleVars, settingVars, catalogVars, backupVars>>
     \/ /\ GroupsStep
        /\ UNCHANGED <<accountVars, joinVars, roleVars, settingVars, catalogVars, backupVars>>
     \/ /\ ConfigurationStep
        /\ UNCHANGED <<accountVars, joinVars, roleVars, lifecycleVars, catalogVars, backupVars>>
     \/ /\ ShelvesStep
        /\ UNCHANGED <<accountVars, joinVars, roleVars, lifecycleVars, settingVars, backupVars>>
     \/ /\ BackupStep
        /\ UNCHANGED <<accountVars, joinVars, roleVars, lifecycleVars, settingVars, catalogVars>>

MCSpec ==
  MCInit /\ [][MCNext]_<<part, accountVars, joinVars, roleVars, lifecycleVars, settingVars, catalogVars, backupVars>>

\* The files alone.
FilesSpec ==
  /\ MCInit /\ part \in {"images", "receipts"}
  /\ [][MCNext]_<<part, accountVars, joinVars, roleVars, lifecycleVars, settingVars, catalogVars, backupVars>>
-----------------------------------------------------------------------------
MCRoleSets == {{"r1"}, {"r2"}}
MCDefaultRoles == {"r1"}
MCGrantSets == {{}, {"GROUP_ADMINISTRATION"}, {"MEMBER_MANAGEMENT", "ROLE_MANAGEMENT"}}
MCRoleChoices == {{"GROUP_ADMINISTRATOR"}, {"MEMBER"}, {"c1"}}
MCHostDefaults ==
  [smtpEnabled |-> TRUE, smtpHost |-> "h0", smtpPassword |-> "s0", webPushEnabled |-> FALSE, webPushKey |-> "none",
   instanceName |-> "n0"]

\* One of a reordering and one of no reordering.
MCPositions == {-1, 0}

\* Two spellings of one number.
MCCodes == {[format |-> "UPC_A", number |-> 1], [format |-> "EAN_13", number |-> 1]}
=============================================================================
