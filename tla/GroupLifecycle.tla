---------------------------- MODULE GroupLifecycle ----------------------------
(***************************************************************************)
(* The life of a group under the system administrators: provisioning,      *)
(* activation by its first administrator, archive, restoration and purge,  *)
(* with the paths into the group that each step opens or closes and the    *)
(* files it shares with others (ManagedFiles).  An administrator acts on   *)
(* the version seen on the screen.                                         *)
(***************************************************************************)
EXTENDS ManagedFiles

CONSTANT MaxVersion   \* bound

ASSUME LifecycleAssumption == MaxVersion \in Nat /\ NoGroup \notin Groups

VARIABLES
  group,         \* rows of groups with their onboarding paths
  founded,       \* whether the mailbox groups are created for has an account
  draft,         \* a creation that has looked the mailbox up: the status to give
  screen,        \* the version an administrator sees
  preferred,     \* users.default_group_id or last_used_group_id of that account
  chosen,        \* a preference that has passed its check
  checkpoint     \* system_wal_checkpoint_state.pending

lifecycleVars == <<group, founded, draft, screen, preferred, chosen, checkpoint, fileVars>>

NoScreen == [group |-> NoGroup, version |-> 0]

\* link: the public join link is open; registered, invited: registrations and
\* invitations are open; mail, notices: their messages and others are pending.
Row(status) ==
  [status |-> status, from |-> "NONE", version |-> 1, administered |-> status = "ACTIVE",
   link |-> FALSE, registered |-> FALSE, invited |-> FALSE, mail |-> FALSE, notices |-> FALSE]
Absent == [Row("NONE") EXCEPT !.version = 0]

LifecycleInit ==
  /\ group = [g \in Groups |-> Absent]
  /\ founded \in BOOLEAN
  /\ draft = "NONE"
  /\ screen = NoScreen
  /\ preferred = NoGroup /\ chosen = NoGroup
  /\ checkpoint = FALSE
  /\ FilesInit

\* A person gets an account elsewhere (Joining).
FounderRegisters ==
  /\ ~founded
  /\ founded' = TRUE
  /\ UNCHANGED <<group, draft, screen, preferred, chosen, checkpoint, fileVars>>

LookUpFounder ==
  /\ draft = "NONE"
  /\ draft' = IF founded THEN "ACTIVE" ELSE "PROVISIONING"
  /\ UNCHANGED <<group, founded, screen, preferred, chosen, checkpoint, fileVars>>

\* A conflict when an account has appeared meanwhile.
CreateGroup(g, mail) ==
  /\ draft # "NONE"
  /\ draft' = "NONE"
  /\ group[g].status = "NONE"
  /\ group' = IF draft = "PROVISIONING" /\ founded THEN group
       ELSE [group EXCEPT ![g] = [Row(draft) EXCEPT !.invited = ~founded, !.mail = mail /\ ~founded]]
  /\ UNCHANGED <<founded, screen, preferred, chosen, checkpoint, fileVars>>

\* A user creates a group and administers it.
Create(g) ==
  /\ founded
  /\ group[g].status = "NONE"
  /\ group' = [group EXCEPT ![g] = Row("ACTIVE")]
  /\ UNCHANGED <<founded, draft, screen, preferred, chosen, checkpoint, fileVars>>

ManagedGroupByID(g) ==
  /\ group[g].status # "NONE"
  /\ screen' = [group |-> g, version |-> group[g].version]
  /\ UNCHANGED <<group, founded, draft, preferred, chosen, checkpoint, fileVars>>

\* What the commands of a system administrator share.
Submitted(g) ==
  /\ screen.group = g
  /\ group[g].version = screen.version
  /\ group[g].version < MaxVersion
  /\ screen' = NoScreen

\* The old invitation is revoked and its mail cancelled.
ResendProvisioningInvitation(g, mail) ==
  /\ Submitted(g)
  /\ group[g].status = "PROVISIONING"
  /\ group' = [group EXCEPT ![g].invited = TRUE, ![g].mail = mail, ![g].version = @ + 1]
  /\ UNCHANGED <<founded, draft, preferred, chosen, checkpoint, fileVars>>

\* The invitation for the first administrator, whose account it may create.
AcceptInvitationToGroup(g) ==
  LET activates == group[g].status = "PROVISIONING"
  IN  /\ group[g].status \in {"ACTIVE", "PROVISIONING"}
      /\ group[g].invited
      /\ group[g].version < MaxVersion
      /\ founded' = TRUE
      /\ group' = [group EXCEPT ![g].invited = FALSE, ![g].mail = FALSE, ![g].status = "ACTIVE",
                     ![g].administered = @ \/ activates, ![g].version = IF activates THEN @ + 1 ELSE @]
      /\ UNCHANGED <<draft, screen, preferred, chosen, checkpoint, fileVars>>

\* Members open ways in and cause messages; permissions need an active group.
OpenPath(g, path) ==
  /\ group[g].status = "ACTIVE"
  /\ group' = [group EXCEPT ![g] =
       CASE path = "link"         -> [@ EXCEPT !.link = TRUE]
         [] path = "registration" -> [@ EXCEPT !.registered = group[g].registered \/ group[g].link]
         [] path = "invitation"   -> [@ EXCEPT !.invited = TRUE, !.mail = TRUE]
         [] path = "notice"       -> [@ EXCEPT !.notices = TRUE]]
  /\ UNCHANGED <<founded, draft, screen, preferred, chosen, checkpoint, fileVars>>

\* The outboxes; a message of an archived group is cancelled, not sent.
DeliverMail(g) ==
  /\ group[g].mail \/ group[g].notices
  /\ group' = [group EXCEPT ![g].mail = FALSE, ![g].notices = FALSE]
  /\ UNCHANGED <<founded, draft, screen, preferred, chosen, checkpoint, fileVars>>

ClosedPaths(row) ==
  [row EXCEPT !.link = FALSE, !.registered = FALSE, !.invited = FALSE, !.mail = FALSE, !.notices = FALSE]

ArchiveGroup(g) ==
  /\ Submitted(g)
  /\ group[g].status \in {"ACTIVE", "PROVISIONING"}
  /\ group' = [group EXCEPT ![g] =
       [ClosedPaths(group[g]) EXCEPT !.status = "ARCHIVED", !.from = group[g].status, !.version = @ + 1]]
  /\ preferred' = IF preferred = g THEN NoGroup ELSE preferred
  /\ UNCHANGED <<founded, draft, chosen, checkpoint, fileVars>>

\* What the archive closed stays closed.
RestoreGroup(g) ==
  /\ Submitted(g)
  /\ group[g].status = "ARCHIVED"
  /\ group[g].from \in {"ACTIVE", "PROVISIONING"}
  /\ group' = [group EXCEPT ![g].status = group[g].from, ![g].from = "NONE", ![g].version = @ + 1]
  /\ UNCHANGED <<founded, draft, preferred, chosen, checkpoint, fileVars>>

\* Every row of the group goes, in one transaction; foreign keys clear what
\* accounts prefer.  From the web, or locally by a command that collects after.
PurgeGroup(g, locally) ==
  /\ Submitted(g)
  /\ group[g].status = "ARCHIVED"
  /\ ScheduleDeletion(g)
  /\ IF locally THEN OperatorStarts ELSE UNCHANGED operatorVars
  /\ group' = [group EXCEPT ![g] = [Absent EXCEPT !.status = "PURGED"]]
  /\ preferred' = IF preferred = g THEN NoGroup ELSE preferred
  /\ checkpoint' = TRUE
  /\ UNCHANGED <<founded, draft, chosen>>

\* A busy reader leaves it pending.
RunPendingWALCheckpoint ==
  /\ checkpoint
  /\ checkpoint' = FALSE
  /\ UNCHANGED <<group, founded, draft, screen, preferred, chosen, fileVars>>

\* The check and the update are two statements.
RequireActiveGroupMembership(g) ==
  /\ chosen = NoGroup
  /\ group[g].status = "ACTIVE" /\ group[g].administered
  /\ chosen' = g
  /\ UNCHANGED <<group, founded, draft, screen, preferred, checkpoint, fileVars>>

UpdateGroupPreference ==
  /\ chosen # NoGroup
  /\ preferred' = IF group[chosen].status = "PURGED" THEN preferred ELSE chosen
  /\ chosen' = NoGroup
  /\ UNCHANGED <<group, founded, draft, screen, checkpoint, fileVars>>

\* The avatar of an account belongs to no group.
Writable(g) == IF g \in Groups THEN group[g].status = "ACTIVE" ELSE TRUE

FilesStep ==
  /\ \/ \E k \in Images, o \in Owners("images"), g \in Groups :
          group[g].status = "ACTIVE" /\ SaveImage(k, o, IF o = "avatar" THEN NoGroup ELSE g)
     \/ \E k \in Images : ImageVariantsFail(k) \/ EnsureImageVariant(k)
     \/ \E k \in Receipts, o \in Owners("attachments"), g \in Groups :
          group[g].status = "ACTIVE" /\ SaveReceipt(k, o, g)
     \/ \E s \in Stores :
          \/ Attach(s, Writable(upload[s].group))
          \/ AttachFails(s)
     \/ \E r \in references : Writable(r.group) /\ RemoveReference(r)
     \/ \E k \in Keys :
          RunMediaGarbageCollection(k) \/ RunAttachmentGarbageCollection(k) \/ SweepUnreferencedAttachments(k)
     \/ \E k \in Keys : MarkCollected(k) \/ OperatorChecks(k)
     \/ OperatorRemoves \/ OperatorEnds
     \/ FilesCrash
  /\ UNCHANGED <<group, founded, draft, screen, preferred, chosen, checkpoint>>

GroupStep ==
  \/ FounderRegisters
  \/ LookUpFounder
  \/ \E g \in Groups : Create(g) \/ ManagedGroupByID(g) \/ AcceptInvitationToGroup(g)
  \/ \E g \in Groups, mail \in BOOLEAN : CreateGroup(g, mail) \/ ResendProvisioningInvitation(g, mail)
  \/ \E g \in Groups, path \in {"link", "registration", "invitation", "notice"} : OpenPath(g, path)
  \/ \E g \in Groups : DeliverMail(g) \/ ArchiveGroup(g) \/ RestoreGroup(g)
  \/ \E g \in Groups, locally \in BOOLEAN : PurgeGroup(g, locally)
  \/ RunPendingWALCheckpoint
  \/ \E g \in Groups : RequireActiveGroupMembership(g)
  \/ UpdateGroupPreference

GroupsSpec == LifecycleInit /\ [][GroupStep \/ FilesStep]_lifecycleVars
-----------------------------------------------------------------------------
\* A file some row names is on disk, whatever uploads, failures, purges and
\* collections overlap, those of an operator's process included; only a content
\* that was being uploaded while such a process collected may be missing, since
\* the mutex does not reach it (media, paymentattachments,
\* RunMediaGarbageCollection).  An archived group has no way in and no message
\* waiting, an active one has been given an administrator, whoever was invited
\* or looked up before, and a purged one is named nowhere (system/groups.go).
GroupsAndFilesConsistent ==
  /\ \A r \in references : r.key \in files \/ r.key \in exposed
  /\ \A g \in Groups :
       /\ group[g].status = "ARCHIVED" =>
            ~(group[g].link \/ group[g].registered \/ group[g].invited \/ group[g].mail \/ group[g].notices)
       /\ group[g].status = "ACTIVE" => group[g].administered
       /\ group[g].status = "PURGED" => \A r \in references : r.group # g

\* Files are removed only when no group logo, product or account avatar still
\* references the content, receipts only after their last reference disappears
\* (system/groups.go, RunMediaGarbageCollection, RunAttachmentGarbageCollection).
RemovedOnlyUnreferenced ==
  [][\A r \in references : r.key \in files => r.key \in files']_lifecycleVars
=============================================================================
