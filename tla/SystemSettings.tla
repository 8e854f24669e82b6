---------------------------- MODULE SystemSettings ----------------------------
(***************************************************************************)
(* Settings of the installation: overrides in the database on top of what  *)
(* the host configures, the test an SMTP connection must pass before it is *)
(* enabled, and the legal documents.  A snapshot outside a transaction is  *)
(* two queries, the state first and the overrides after it, so that        *)
(* commands may come between them.  Of the web push settings the key       *)
(* stands for the configuration, of the rest the instance name.            *)
(***************************************************************************)
EXTENDS Integers, FiniteSets

CONSTANTS
  HostDefaults,     \* the value the host configures for every key
  SMTPHosts, Secrets, Names, Texts,   \* values for overrides
  MaxSettingsRevision   \* bound

SMTPConnectionKeys == {"smtpHost", "smtpPassword"}
WebPushKeys == {"webPushEnabled", "webPushKey"}
SettingKeys == SMTPConnectionKeys \cup WebPushKeys \cup {"smtpEnabled", "instanceName"}

ASSUME SettingsAssumption ==
  /\ DOMAIN HostDefaults = SettingKeys /\ HostDefaults.smtpEnabled \in BOOLEAN
  /\ MaxSettingsRevision \in Nat

VARIABLES
  state,       \* the row of system_settings_state
  overrides,   \* rows of system_setting_overrides: a function on some keys
  cipher,      \* whether the storage key opens the sealed secrets
  reader,      \* snapshots being read or in use, by purpose
  passed,      \* connections a test delivery has succeeded with
  sent,        \* the connection of the last delivery
  legal,       \* legal_documents_state and legal_document_overrides
  legalForm    \* the legal documents in an editor

settingVars == <<state, overrides, cipher, reader, passed, sent, legal, legalForm>>

Purposes == {"edit", "test", "delivery"}
NoSetting == "none"
NoConnection == [key \in SMTPConnectionKeys |-> NoSetting]
Idle == [phase |-> "IDLE"]

SettingsInit ==
  /\ state = [revision |-> 1, smtp |-> 1, tested |-> 0, status |-> "UNTESTED", push |-> 1]
  /\ overrides = <<>>
  /\ cipher \in BOOLEAN
  /\ reader = [p \in Purposes |-> Idle]
  /\ passed = {}
  /\ sent = NoConnection
  /\ legal = [revision |-> 1, text |-> NoSetting]
  /\ legalForm = Idle

Effective(ov, key) == IF key \in DOMAIN ov THEN ov[key] ELSE HostDefaults[key]
Connection(ov) == [key \in SMTPConnectionKeys |-> Effective(ov, key)]
HasSMTPConnectionOverride(ov) == DOMAIN ov \cap SMTPConnectionKeys # {}
SMTPRevisionTested(st) == st.tested = st.smtp

\* A sealed password must open; the host's needs no key.
SMTPConfigurationValid(ov) ==
  /\ Effective(ov, "smtpHost") # NoSetting /\ Effective(ov, "smtpPassword") # NoSetting
  /\ "smtpPassword" \in DOMAIN ov => cipher

WebPushConfigurationValid(ov) == cipher /\ Effective(ov, "webPushKey") # NoSetting

\* loadSettings, of a state and overrides that may be of different times.
LoadSettings(st, ov) ==
  LET requiresTest == HasSMTPConnectionOverride(ov)
      valid == SMTPConfigurationValid(ov)
  IN  [phase |-> "LOADED", state |-> st, seen |-> ov, requiresTest |-> requiresTest, valid |-> valid,
       active |-> Effective(ov, "smtpEnabled") /\ valid /\ (requiresTest => SMTPRevisionTested(st))]

ReadSettingsState(purpose) ==
  /\ reader[purpose].phase = "IDLE"
  /\ reader' = [reader EXCEPT ![purpose] = [phase |-> "STATE", state |-> state]]
  /\ UNCHANGED <<state, overrides, cipher, passed, sent, legal, legalForm>>

ReadOverrides(purpose) ==
  /\ reader[purpose].phase = "STATE"
  /\ reader' = [reader EXCEPT ![purpose] = LoadSettings(reader[purpose].state, overrides)]
  /\ UNCHANGED <<state, overrides, cipher, passed, sent, legal, legalForm>>

\* A snapshot is given up: a form is closed, a check fails, SMTP is inactive.
Forget(purpose) ==
  /\ reader[purpose].phase # "IDLE"
  /\ reader' = [reader EXCEPT ![purpose] = Idle]
  /\ UNCHANGED <<state, overrides, cipher, passed, sent, legal, legalForm>>

-----------------------------------------------------------------------------
(* Updates and resets.                                                     *)

Setting(key, value) == [k \in {key} |-> value]

\* The first one wins.
Merged(new, old) == [k \in DOMAIN new \cup DOMAIN old |-> IF k \in DOMAIN new THEN new[k] ELSE old[k]]

\* A changed connection is saved disabled; to enable it at once is refused.
PatchMutations(patch) ==
  IF DOMAIN patch \cap SMTPConnectionKeys # {} THEN Merged(Setting("smtpEnabled", FALSE), patch) ELSE patch

\* A secret is sealed before it is stored, which needs the key.
SettingValues(key) ==
  CASE key \in {"smtpEnabled", "webPushEnabled"} -> BOOLEAN
    [] key = "smtpHost" -> SMTPHosts
    [] key \in {"smtpPassword", "webPushKey"} -> IF cipher THEN Secrets ELSE {}
    [] key = "instanceName" -> Names
Patches == UNION {{Setting(key, value) : value \in SettingValues(key)} : key \in SettingKeys}

\* Mutant of Advanced: a new connection inherits the test of the old one.
AdvancedKeepingTest(keys) ==
  [state EXCEPT !.revision = @ + 1, !.push = IF "webPushKey" \in keys THEN @ + 1 ELSE @]

\* The state after overrides for these keys were written or removed.
Advanced(keys) ==
  LET changed == keys \cap SMTPConnectionKeys # {}
  IN  [state EXCEPT !.revision = @ + 1,
                    !.smtp = IF changed THEN @ + 1 ELSE @,
                    !.tested = IF changed THEN 0 ELSE @,
                    !.status = IF changed THEN "UNTESTED" ELSE @,
                    !.push = IF "webPushKey" \in keys THEN @ + 1 ELSE @]

\* The checks on the result, inside the transaction.
SettingsAcceptable(st, ov) ==
  /\ Effective(ov, "smtpEnabled") =>
       SMTPConfigurationValid(ov) /\ (HasSMTPConnectionOverride(ov) => SMTPRevisionTested(st))
  /\ Effective(ov, "webPushEnabled") => WebPushConfigurationValid(ov)

Saved(keys, ov) ==
  /\ state.revision < MaxSettingsRevision
  /\ SettingsAcceptable(Advanced(keys), ov)
  /\ state' = Advanced(keys)
  /\ overrides' = ov
  /\ UNCHANGED <<cipher, passed, sent, legal, legalForm>>

Update(patch) ==
  LET mutations == PatchMutations(patch)
  IN  Saved(DOMAIN mutations, Merged(mutations, overrides))

\* Resets of keys without an override change nothing.
Reset(keys) ==
  LET removed == keys \cap DOMAIN overrides
  IN  /\ removed # {}
      /\ Saved(removed, [key \in DOMAIN overrides \ removed |-> overrides[key]])

\* The author sends the revision of the snapshot on the screen.
RevisionOnScreen ==
  /\ reader["edit"].phase = "LOADED"
  /\ state.revision = reader["edit"].state.revision
  /\ reader' = [reader EXCEPT !["edit"] = Idle]

UpdateSettings(patch) == RevisionOnScreen /\ Update(patch)
ResetSettings(keys) == RevisionOnScreen /\ Reset(keys)

\* Commands of the operator, in a process of their own: they read the revision
\* and write with it at once, and are refused if it has changed in between.
SystemSettingsCommand(patch) == DOMAIN patch = {"instanceName"} /\ Update(patch) /\ UNCHANGED reader
SystemSMTPCommand(patch) ==
  /\ DOMAIN patch \subseteq SMTPConnectionKeys \cup {"smtpEnabled"}
  /\ Update(patch)
  /\ UNCHANGED reader
SystemWebPushCommand(patch) == DOMAIN patch \subseteq WebPushKeys /\ Update(patch) /\ UNCHANGED reader
SystemResetCommand(keys) ==
  /\ Reset(keys)
  /\ UNCHANGED reader

-----------------------------------------------------------------------------
(* The test of a connection, and its use.                                  *)

\* The delivery happens between two transactions.
TestSystemSMTP(succeeds) ==
  LET r == reader["test"]
  IN  /\ r.phase = "LOADED"
      /\ r.valid
      /\ passed' = IF succeeds THEN passed \cup {Connection(r.seen)} ELSE passed
      /\ reader' = [reader EXCEPT !["test"] =
           IF r.requiresTest THEN [r EXCEPT !.phase = IF succeeds THEN "PASSED" ELSE "FAILED"] ELSE Idle]
      /\ UNCHANGED <<state, overrides, cipher, sent, legal, legalForm>>

\* Both revisions must still be the tested ones.
TestStillCurrent(r) ==
  /\ state.revision = r.state.revision /\ state.smtp = r.state.smtp
  /\ HasSMTPConnectionOverride(overrides) /\ SMTPConfigurationValid(overrides)

MarkSMTPTested ==
  LET r == reader["test"]
  IN  /\ r.phase = "PASSED"
      /\ state.revision < MaxSettingsRevision
      /\ state' = IF TestStillCurrent(r)
           THEN [state EXCEPT !.revision = @ + 1, !.tested = state.smtp, !.status = "VERIFIED"] ELSE state
      /\ reader' = [reader EXCEPT !["test"] = Idle]
      /\ UNCHANGED <<overrides, cipher, passed, sent, legal, legalForm>>

\* A test of the same revision that has passed before stays valid.
MarkSMTPTestFailed ==
  LET r == reader["test"]
  IN  /\ r.phase = "FAILED"
      /\ state.revision < MaxSettingsRevision
      /\ state' = IF TestStillCurrent(r) THEN [state EXCEPT !.revision = @ + 1, !.status = "FAILED"] ELSE state
      /\ reader' = [reader EXCEPT !["test"] = Idle]
      /\ UNCHANGED <<overrides, cipher, passed, sent, legal, legalForm>>

\* ResolveRuntime for a worker: an active snapshot sends with its connection.
DeliverWith ==
  LET r == reader["delivery"]
  IN  /\ r.phase = "LOADED" /\ r.active
      /\ sent' = Connection(r.seen)
      /\ reader' = [reader EXCEPT !["delivery"] = Idle]
      /\ UNCHANGED <<state, overrides, cipher, passed, legal, legalForm>>

\* The storage key is the host's; it may be missing or back after a restart.
RestartWith(key) ==
  /\ cipher' = key
  /\ reader' = [p \in Purposes |-> Idle]
  /\ legalForm' = Idle
  /\ UNCHANGED <<state, overrides, passed, sent, legal>>

-----------------------------------------------------------------------------
(* Legal documents: an override, or else a file of the host.               *)

ReadLegalDocumentState ==
  /\ legalForm.phase = "IDLE"
  /\ legalForm' = [phase |-> "STATE", revision |-> legal.revision]
  /\ UNCHANGED <<state, overrides, cipher, reader, passed, sent, legal>>

LoadLegalDocuments ==
  /\ legalForm.phase = "STATE"
  /\ legalForm' = [phase |-> "LOADED", revision |-> legalForm.revision, seen |-> legal.text]
  /\ UNCHANGED <<state, overrides, cipher, reader, passed, sent, legal>>

UpdateLegalDocuments(text) ==
  /\ legalForm.phase = "LOADED"
  /\ legal.revision = legalForm.revision
  /\ legal.revision < MaxSettingsRevision
  /\ legal' = [revision |-> legal.revision + 1, text |-> text]
  /\ legalForm' = Idle
  /\ UNCHANGED <<state, overrides, cipher, reader, passed, sent>>

\* By another administrator, whose form is current.
ReplaceLegalDocuments(text) ==
  /\ legal.revision < MaxSettingsRevision
  /\ legal' = [revision |-> legal.revision + 1, text |-> text]
  /\ UNCHANGED <<state, overrides, cipher, reader, passed, sent, legalForm>>

ResetLegalDocuments ==
  /\ legalForm.phase = "LOADED"
  /\ legal.revision = legalForm.revision
  /\ legal.revision < MaxSettingsRevision
  /\ legal' = IF legal.text = NoSetting THEN legal ELSE [revision |-> legal.revision + 1, text |-> NoSetting]
  /\ legalForm' = Idle
  /\ UNCHANGED <<state, overrides, cipher, reader, passed, sent>>

SettingsStep ==
  \/ \E p \in Purposes : ReadSettingsState(p) \/ ReadOverrides(p) \/ Forget(p)
  \/ \E patch \in Patches :
       UpdateSettings(patch) \/ SystemSettingsCommand(patch) \/ SystemSMTPCommand(patch) \/ SystemWebPushCommand(patch)
  \/ \E keys \in {{k} : k \in SettingKeys} \cup {SMTPConnectionKeys \cup {"smtpEnabled"}, WebPushKeys} :
       ResetSettings(keys) \/ SystemResetCommand(keys)
  \/ \E succeeds \in BOOLEAN : TestSystemSMTP(succeeds)
  \/ MarkSMTPTested \/ MarkSMTPTestFailed \/ DeliverWith
  \/ \E key \in BOOLEAN : RestartWith(key)

LegalStep ==
  \/ ReadLegalDocumentState \/ LoadLegalDocuments \/ ResetLegalDocuments
  \/ \E text \in Texts : UpdateLegalDocuments(text) \/ ReplaceLegalDocuments(text)

SettingsSpec == SettingsInit /\ [][SettingsStep \/ LegalStep]_settingVars
-----------------------------------------------------------------------------
\* However reads, edits, resets and tests interleave: a connection counts as
\* tested only if a test with exactly it has succeeded; a message leaves only
\* by such a connection or by the host's own; and a revision that is still
\* current means that the screen, or the test, has the stored values, though
\* the snapshot was read in two queries (loadSettings, loadLegalDocuments).
SettingsAsTestedAndSeen ==
  /\ SMTPRevisionTested(state) /\ HasSMTPConnectionOverride(overrides) => Connection(overrides) \in passed
  /\ sent \in {NoConnection, Connection(<<>>)} \cup passed
  /\ \A p \in Purposes :
       reader[p].phase = "LOADED" /\ reader[p].state.revision = state.revision => reader[p].seen = overrides
  /\ legalForm.phase = "LOADED" /\ legalForm.revision = legal.revision => legalForm.seen = legal.text
=============================================================================
