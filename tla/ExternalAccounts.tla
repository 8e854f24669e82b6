-------------------------- MODULE ExternalAccounts --------------------------
(***************************************************************************)
(* Package externalaccounts: the cash boxes, bank and PayPal accounts of a *)
(* group, their movements, and the links from payment methods to them;     *)
(* with the parts of finance and groups that post to and relink them.      *)
(*                                                                         *)
(* Configuration commands carry the collection version (ETag) of a view    *)
(* read earlier.  Every command is one IMMEDIATE transaction, hence one    *)
(* action; a view is read outside a transaction, query by query.           *)
(***************************************************************************)
EXTENDS Integers, Sequences, FiniteSets, FiniteSetsExt, SequencesExt

CONSTANTS
    Accounts,         \* identifiers of external accounts
    Methods,          \* identifiers of payment methods
    Targets,          \* provider details (PayPal handles, bank targets)
    PaymentIds,       \* identifiers of payments
    Amounts,          \* positive amounts in minor units
    Views,            \* open views of administrators, possibly outdated
    MaxMinor,         \* largest representable balance (2^63 - 1)
    MaxTransactions,  \* bound on the number of account transactions
    MaxVersion        \* bound on the collection version

None      == "none"
Offset    == "EXTERNAL_OFFSET"
GroupCash == "GROUP_CASH"

ASSUME ExternalAccountsAssumption ==
    /\ {None, Offset, GroupCash} \cap (Accounts \union Targets) = {} /\ None \notin PaymentIds
    /\ IsFiniteSet(Accounts)
    /\ Amounts \subseteq Nat \ {0}
    /\ MaxMinor \in Nat /\ MaxTransactions \in Nat /\ MaxVersion \in Nat \ {0}

VARIABLES
    accounts,      \* per identifier: the stored account row
    links,         \* per configured payment method: its account or None
    transactions,  \* external_account_transactions in the order of insertion
    legs,          \* ledger entries on accounts, the offset and group cash
    payments,      \* per identifier: status and amount
    version,       \* external_accounts_version
    enabled,       \* external_accounts_enabled
    seen           \* per view: what it shows, with the version it was read under

vars == <<accounts, links, transactions, legs, payments, version, enabled, seen>>

-----------------------------------------------------------------------------
Account == [status : {"NONE", "ACTIVE", "ARCHIVED"}, deleted : BOOLEAN,
            order : Nat, target : Targets \union {None}]

NoAccount == [status |-> "NONE", deleted |-> FALSE, order |-> 0, target |-> None]

Kinds == {"PAYMENT", "OPENING_BALANCE", "INCOME", "EXPENSE", "TRANSFER", "REVERSAL"}

Transaction == [kind : Kinds, primary : Accounts, counterparty : Accounts \union {None},
                payment : PaymentIds \union {None}, amount : Int,
                reversalOf : 0 .. MaxTransactions]

Leg == [txn : 0 .. MaxTransactions, payment : PaymentIds \union {None},
        account : Accounts \union {Offset, GroupCash}, reversal : BOOLEAN, amount : Int]

Exists(a)  == accounts[a].status # "NONE"
Visible(a) == Exists(a) /\ ~accounts[a].deleted
Active(a)  == Visible(a) /\ accounts[a].status = "ACTIVE"

\* BANK and PAYPAL accounts have provider details, CASH and OTHER have none.
TypeOf(target) == IF target = None THEN "CASH" ELSE "PROVIDER"

LegsOn(a)       == {l \in legs : l.account = a}
SumLegs(S)      == MapThenSumSet(LAMBDA l : l.amount, S)
BalanceOf(a)    == SumLegs(LegsOn(a))
LinkedTo(a)     == {m \in DOMAIN links : links[m] = a}

\* Mutant of Used: a balanced account counts as unused.
UsedNow(a) == BalanceOf(a) # 0

Used(a) ==
    \/ LegsOn(a) # {}
    \/ \E i \in DOMAIN transactions : a \in {transactions[i].primary, transactions[i].counterparty}

\* The unique indexes on provider details count deleted accounts as well.
TargetFree(target, a) ==
    target = None \/ \A b \in Accounts \ {a} : Exists(b) => accounts[b].target # target

\* An account view shows the visible accounts and the methods linked to them,
\* a method view (links or group settings) the payment methods with their links.
ViewKinds == {"ACCOUNTS", "METHODS"}

VisibleAccounts == [a \in {b \in Accounts : Visible(b)} |-> accounts[a]]

ShownLinks(kind) ==
    IF kind = "METHODS" THEN links ELSE Restrict(links, {m \in DOMAIN links : links[m] # None})

\* What a view has read of the accounts and of the links: nothing or one value of each.
View(kind, readUnder, accountsRead, linksRead) ==
    [kind |-> kind, version |-> readUnder, accounts |-> accountsRead, links |-> linksRead]

NoView == View("METHODS", 0, {}, {})

\* The answer of a command, read inside its transaction.
FullView(kind) ==
    View(kind, version, IF kind = "ACCOUNTS" THEN {VisibleAccounts} ELSE {}, {ShownLinks(kind)})

\* It reaches one of the views, or none of them (a lost or unread response).
Answered(kind) ==
    \/ \E v \in Views : seen' = [seen EXCEPT ![v] = FullView(kind)']
    \/ UNCHANGED seen

Init ==
    /\ accounts = [a \in Accounts |-> NoAccount]
    /\ links = [m \in Methods |-> None]
    /\ transactions = <<>>
    /\ legs = {}
    /\ payments = [p \in PaymentIds |-> [status |-> "NONE", amount |-> 0]]
    /\ version = 1
    /\ enabled = TRUE
    /\ seen = [v \in Views |-> NoView]

(***************************************************************************)
(* Reading a view takes a query for the version, then one for the accounts *)
(* and one for the links; commands may commit between them.                *)
(***************************************************************************)
Reads(v, view) ==
    /\ seen' = [seen EXCEPT ![v] = view]
    /\ UNCHANGED <<accounts, links, transactions, legs, payments, version, enabled>>

\* Mutant of ReadLinks: the version is read last.
ReadLinksThenVersion(v) ==
    /\ seen[v].version # 0 /\ seen[v].links = {}
    /\ seen[v].kind = "ACCOUNTS" => seen[v].accounts # {}
    /\ Reads(v, View(seen[v].kind, version, seen[v].accounts, {ShownLinks(seen[v].kind)}))

\* Group settings are readable with the feature switched off.
ReadVersion(v, kind) ==
    /\ enabled \/ kind = "METHODS"
    /\ Reads(v, View(kind, version, {}, {}))

ReadAccounts(v) ==
    /\ seen[v].kind = "ACCOUNTS" /\ seen[v].accounts = {}
    /\ Reads(v, [seen[v] EXCEPT !.accounts = {VisibleAccounts}])

ReadLinks(v) ==
    /\ seen[v].version # 0 /\ seen[v].links = {}
    /\ seen[v].kind = "ACCOUNTS" => seen[v].accounts # {}
    /\ Reads(v, [seen[v] EXCEPT !.links = {ShownLinks(seen[v].kind)}])

-----------------------------------------------------------------------------
(***************************************************************************)
(* Posting movements.                                                      *)
(***************************************************************************)

\* ensureExternalAccountBalanceDelta: a balance stays within 64 bits.
Representable(a, delta) == BalanceOf(a) + delta \in -MaxMinor - 1 .. MaxMinor

NextTransaction == Len(transactions) + 1

Header(kind, primary, counterparty, payment, amount, reversalOf) ==
    [kind |-> kind, primary |-> primary, counterparty |-> counterparty,
     payment |-> payment, amount |-> amount, reversalOf |-> reversalOf]

NewLeg(txn, payment, account, reversal, amount) ==
    [txn |-> txn, payment |-> payment, account |-> account,
     reversal |-> reversal, amount |-> amount]

\* Insert a header and its legs; every account leg is checked for its range.
Insert(header, entries) ==
    /\ NextTransaction <= MaxTransactions
    /\ \A l \in entries : l.account \in Accounts => Representable(l.account, l.amount)
    /\ transactions' = Append(transactions, header)
    /\ legs' = legs \union entries

ManualLegs(primary, counterparty, amount) ==
    {NewLeg(NextTransaction, None, primary, FALSE, amount),
     NewLeg(NextTransaction, None, IF counterparty = None THEN Offset ELSE counterparty,
            FALSE, -amount)}

CreateManualTransaction(kind, primary, counterparty, amount) ==
    Insert(Header(kind, primary, counterparty, None, amount, 0),
           ManualLegs(primary, counterparty, amount))

\* Income and expense move money in from or out to the offset, a transfer between two accounts.
CreateTransaction(kind, primary, counterparty, amount) ==
    /\ enabled
    /\ Active(primary)
    /\ kind = "TRANSFER" => counterparty # primary /\ counterparty # None /\ Active(counterparty)
    /\ kind # "TRANSFER" => counterparty = None
    /\ CreateManualTransaction(kind, primary, counterparty,
                               IF kind = "INCOME" THEN amount ELSE -amount)
    /\ UNCHANGED <<accounts, links, payments, version, enabled, seen>>

\* Deleted accounts that the new entries leave with a balance come back as archived.
Restored(touched, entries) ==
    [a \in Accounts |->
        IF a \in touched /\ accounts[a].deleted
           /\ SumLegs({l \in legs \union entries : l.account = a}) # 0
        THEN [accounts[a] EXCEPT !.deleted = FALSE, !.status = "ARCHIVED"]
        ELSE accounts[a]]

\* Mutant of VersionAfter: restoring an account keeps the collection version.
VersionKept(restored) == version

\* A restored account is a change of the collection.
VersionAfter(restored) == IF restored = accounts THEN version ELSE version + 1

\* Post a reversal and restore what it brought out of balance.
InsertReversal(header, entries, touched) ==
    /\ Insert(header, entries)
    /\ accounts' = Restored(touched, entries)
    /\ version' = VersionAfter(accounts')
    /\ version' <= MaxVersion

Reversible(i) ==
    /\ transactions[i].kind \notin {"PAYMENT", "REVERSAL"}
    /\ \A j \in DOMAIN transactions : transactions[j].reversalOf # i

ReverseTransaction(i) ==
    LET t       == transactions[i]
        entries == {NewLeg(NextTransaction, None, l.account, TRUE, -l.amount) :
                        l \in {k \in legs : k.txn = i /\ ~k.reversal}}
    IN  /\ enabled
        /\ Reversible(i)
        /\ InsertReversal(Header("REVERSAL", t.primary, t.counterparty, None, -t.amount, i),
                          entries, {t.primary, t.counterparty} \ {None})
        /\ UNCHANGED <<links, payments, enabled, seen>>

-----------------------------------------------------------------------------
(***************************************************************************)
(* Payments (package finance).  The feature switch does not matter here.   *)
(***************************************************************************)

PostPayment(p, account, amount) ==
    /\ Active(account)
    /\ Insert(Header("PAYMENT", account, None, p, amount, 0),
              {NewLeg(NextTransaction, p, account, FALSE, amount)})

PostGroupCash(p, amount) ==
    /\ legs' = legs \union {NewLeg(0, p, GroupCash, FALSE, amount)}
    /\ UNCHANGED transactions

CreatePayment(p, m, amount) ==
    /\ payments[p].status = "NONE"
    /\ m \in DOMAIN links
    /\ payments' = [payments EXCEPT ![p] = [status |-> "POSTED", amount |-> amount]]
    /\ IF links[m] = None THEN PostGroupCash(p, amount) ELSE PostPayment(p, links[m], amount)
    /\ UNCHANGED <<accounts, links, version, enabled, seen>>

\* Mutant of PaymentTransaction: the account is looked up through today's link.
PaymentTransactionByLink(p) ==
    {i \in DOMAIN transactions : transactions[i].kind = "PAYMENT" /\ transactions[i].payment = p
                                 /\ LinkedTo(transactions[i].primary) # {}}

\* The immutable header of the payment, absent when it went to group cash.
PaymentTransaction(p) ==
    {i \in DOMAIN transactions : transactions[i].kind = "PAYMENT" /\ transactions[i].payment = p}

ReversePayment(p) ==
    /\ payments[p].status = "POSTED"
    /\ payments' = [payments EXCEPT ![p].status = "REVERSED"]
    /\ \/ \E i \in PaymentTransaction(p) :
              LET t == transactions[i]
              IN  InsertReversal(Header("REVERSAL", t.primary, None, p, -t.amount, i),
                                 {NewLeg(NextTransaction, p, t.primary, TRUE, -t.amount)},
                                 {t.primary})
       \/ /\ PaymentTransaction(p) = {}
          /\ legs' = legs \union {NewLeg(0, p, GroupCash, TRUE, -payments[p].amount)}
          /\ UNCHANGED <<transactions, accounts, version>>
    /\ UNCHANGED <<links, enabled, seen>>

-----------------------------------------------------------------------------
(***************************************************************************)
(* Configuration under the collection version.                             *)
(***************************************************************************)

\* requireCollectionVersion and bumpCollectionVersion.  The expected version is
\* the If-Match of the request, taken from a view of either kind on any screen.
Configures(expected) ==
    /\ enabled
    /\ expected = version
    /\ version < MaxVersion
    /\ version' = version + 1
    /\ UNCHANGED <<payments, enabled>>

NextOrder ==
    Max({accounts[a].order + 1 : a \in {b \in Accounts : Exists(b)}} \union {0})

NewAccount(target) ==
    [status |-> "ACTIVE", deleted |-> FALSE, order |-> NextOrder, target |-> target]

\* A new account, with an opening balance unless that is 0.
CreateAccount(expected, a, target, opening) ==
    /\ Configures(expected)
    /\ ~Exists(a) /\ TargetFree(target, a)
    /\ accounts' = [accounts EXCEPT ![a] = NewAccount(target)]
    /\ IF opening = 0 THEN UNCHANGED <<transactions, legs>>
       ELSE CreateManualTransaction("OPENING_BALANCE", a, None, opening)
    /\ UNCHANGED links
    /\ Answered("ACCOUNTS")

UpdateAccount(expected, a, target) ==
    /\ Configures(expected)
    /\ Visible(a) /\ TargetFree(target, a)
    /\ TypeOf(target) # TypeOf(accounts[a].target) => LegsOn(a) = {}
    /\ accounts' = [accounts EXCEPT ![a].target = target]
    /\ UNCHANGED <<links, transactions, legs>>
    /\ Answered("ACCOUNTS")

Detached(a) == [m \in DOMAIN links |-> IF links[m] = a THEN None ELSE links[m]]

SetAccountArchived(expected, a, archived) ==
    /\ Configures(expected)
    /\ Visible(a) /\ Active(a) = archived
    /\ links' = IF archived THEN Detached(a) ELSE links
    /\ accounts' = [accounts EXCEPT ![a].status = IF archived THEN "ARCHIVED" ELSE "ACTIVE"]
    /\ UNCHANGED <<transactions, legs>>
    /\ Answered("ACCOUNTS")

\* An unused account disappears, a balanced one with a history is hidden.
DeleteAccount(expected, a) ==
    /\ Configures(expected)
    /\ Visible(a) /\ ~Active(a)
    /\ LinkedTo(a) = {}
    /\ Used(a) => BalanceOf(a) = 0
    /\ accounts' = [accounts EXCEPT ![a] = IF Used(a) THEN [@ EXCEPT !.deleted = TRUE] ELSE NoAccount]
    /\ UNCHANGED <<links, transactions, legs>>
    /\ Answered("ACCOUNTS")

\* Visible accounts are numbered behind every deleted one.
VisibleBase ==
    Max({accounts[a].order + 1 : a \in {b \in Accounts : Exists(b) /\ accounts[b].deleted}} \union {0})

ReorderAccounts(expected, ids) ==
    /\ Configures(expected)
    /\ IsInjective(ids) /\ ToSet(ids) = {a \in Accounts : Visible(a)}
    /\ accounts' = [a \in Accounts |->
           IF a \in ToSet(ids)
           THEN [accounts[a] EXCEPT !.order = VisibleBase + (CHOOSE i \in DOMAIN ids : ids[i] = a) - 1]
           ELSE accounts[a]]
    /\ UNCHANGED <<links, transactions, legs>>
    /\ Answered("ACCOUNTS")

Linkable == {a \in Accounts : Active(a)} \union {None}

ReplacePaymentMethodLinks(expected, next) ==
    /\ Configures(expected)
    /\ DOMAIN next = DOMAIN links /\ \A m \in DOMAIN next : next[m] \in Linkable
    /\ links' = next
    /\ UNCHANGED <<accounts, transactions, legs>>
    /\ Answered("METHODS")

-----------------------------------------------------------------------------
(***************************************************************************)
(* Group settings (package groups): no collection version is compared, and *)
(* the response carries the payment methods and the version, no accounts.  *)
(***************************************************************************)

SetExternalAccountsEnabled(on) ==
    /\ enabled # on
    /\ enabled' = on
    /\ UNCHANGED <<accounts, links, transactions, legs, payments, version, seen>>

SettingsVersion(accs, lks) ==
    IF accs = accounts /\ lks = links THEN version ELSE version + 1

\* Replace the payment methods; a method keeps its link or gets an explicit one.
UpdatePaymentMethods(next) ==
    /\ DOMAIN next # {}
    /\ \A m \in DOMAIN next : \/ m \in DOMAIN links /\ next[m] = links[m]
                              \/ next[m] \in Linkable
    /\ next # links
    /\ links' = next
    /\ version' = SettingsVersion(accounts, next)
    /\ version' <= MaxVersion
    /\ UNCHANGED <<accounts, transactions, legs, payments, enabled>>
    /\ Answered("METHODS")

\* The visible account with these provider details.
Matching(target) == {a \in Accounts : Visible(a) /\ accounts[a].target = target}

\* An unbooked account that only this method uses is rewritten in place.
Rewritable(m) ==
    /\ m \in DOMAIN links /\ links[m] # None
    /\ Active(links[m]) /\ LinkedTo(links[m]) = {m} /\ LegsOn(links[m]) = {}

\* The account for a legacy client's payment target, and the account table with it.
ResolveLegacyPaymentTarget(m, target) ==
    IF Matching(target) # {}
    THEN {[id |-> a, table |-> accounts] : a \in {b \in Matching(target) : Active(b)}}
    ELSE IF Rewritable(m)
    THEN {[id |-> links[m], table |-> [accounts EXCEPT ![a].target = target]] :
              a \in {b \in {links[m]} : TargetFree(target, b)}}
    ELSE {[id |-> a, table |-> [accounts EXCEPT ![a] = NewAccount(target)]] :
              a \in {b \in Accounts : ~Exists(b) /\ TargetFree(target, b)}}

UpdatePaymentTarget(m, target) ==
    \E resolved \in ResolveLegacyPaymentTarget(m, target) :
        /\ m \in DOMAIN links
        /\ accounts' = resolved.table
        /\ links' = [links EXCEPT ![m] = resolved.id]
        /\ version' = SettingsVersion(accounts', links')
        /\ version' <= MaxVersion
        /\ UNCHANGED <<transactions, legs, payments, enabled>>
        /\ Answered("METHODS")

Next ==
    \/ \E v \in Views, kind \in ViewKinds : ReadVersion(v, kind)
    \/ \E v \in Views : ReadAccounts(v) \/ ReadLinks(v)
    \/ \E kind \in {"INCOME", "EXPENSE", "TRANSFER"}, a \in Accounts,
          b \in Accounts \union {None}, n \in Amounts : CreateTransaction(kind, a, b, n)
    \/ \E i \in DOMAIN transactions : ReverseTransaction(i)
    \/ \E p \in PaymentIds, m \in Methods, n \in Amounts : CreatePayment(p, m, n)
    \/ \E p \in PaymentIds : ReversePayment(p)
    \/ \E expected \in 1 .. MaxVersion, a \in Accounts, t \in Targets \union {None},
          n \in Amounts \union {0} \union {-k : k \in Amounts} : CreateAccount(expected, a, t, n)
    \/ \E expected \in 1 .. MaxVersion, a \in Accounts, t \in Targets \union {None} : UpdateAccount(expected, a, t)
    \/ \E expected \in 1 .. MaxVersion, a \in Accounts, archived \in BOOLEAN : SetAccountArchived(expected, a, archived)
    \/ \E expected \in 1 .. MaxVersion, a \in Accounts : DeleteAccount(expected, a)
    \/ \E expected \in 1 .. MaxVersion, ids \in SeqOf(Accounts, Cardinality(Accounts)) : ReorderAccounts(expected, ids)
    \/ \E expected \in 1 .. MaxVersion, next \in [Methods -> Accounts \union {None}] :
           ReplacePaymentMethodLinks(expected, Restrict(next, DOMAIN links))
    \/ \E on \in BOOLEAN : SetExternalAccountsEnabled(on)
    \/ \E S \in SUBSET Methods : \E next \in [S -> Accounts \union {None}] :
           UpdatePaymentMethods(next)
    \/ \E m \in Methods, t \in Targets : UpdatePaymentTarget(m, t)

Spec == Init /\ [][Next]_vars

-----------------------------------------------------------------------------
\* Every table holds rows of its declared shape.
TypeOK ==
    /\ accounts \in [Accounts -> Account]
    /\ DOMAIN links \subseteq Methods /\ \A m \in DOMAIN links : links[m] \in Accounts \union {None}
    /\ transactions \in Seq(Transaction) /\ Len(transactions) <= MaxTransactions
    /\ legs \subseteq Leg
    /\ \A p \in PaymentIds : payments[p].status \in {"NONE", "POSTED", "REVERSED"}
    /\ version \in 1 .. MaxVersion
    /\ \A v \in Views : seen[v].kind \in ViewKinds /\ seen[v].version \in 0 .. version

(***************************************************************************)
(* Rows that refer to each other stay together: a payment method never     *)
(* points to an account that is archived, deleted or gone, so a payment is *)
(* never refused because of its link; money that history refers to belongs *)
(* to an account that still has a row; and stored sort orders are unique,  *)
(* deleted accounts included (UNIQUE (group_id, sort_order)).              *)
(***************************************************************************)
ConfigurationConsistent ==
    /\ TypeOK
    /\ \A m \in DOMAIN links : links[m] # None => Active(links[m])
    /\ \A i \in DOMAIN transactions :
           {transactions[i].primary, transactions[i].counterparty} \ {None} \subseteq {a \in Accounts : Exists(a)}
    /\ \A a, b \in Accounts : Exists(a) /\ Exists(b) /\ a # b => accounts[a].order # accounts[b].order

(***************************************************************************)
(* Money neither appears nor vanishes: accounts, group cash and the offset *)
(* together hold exactly the payments that are not reversed, a reversal    *)
(* returns to the account the payment was posted to, each transaction is   *)
(* reversed at most once and then exactly, balances fit into 64 bits, and  *)
(* an account hidden from the workspace holds nothing: a reversal that     *)
(* would leave a balance on it brings it back (DeleteAccount,              *)
(* restoreDeletedAccountsAfterReversalTx).                                 *)
(***************************************************************************)
MoneyConserved ==
    /\ SumLegs(legs) = MapThenSumSet(LAMBDA p : payments[p].amount,
                                     {p \in PaymentIds : payments[p].status = "POSTED"})
    /\ \A p \in PaymentIds : payments[p].status = "REVERSED" =>
           \A a \in Accounts \union {GroupCash} : SumLegs({l \in LegsOn(a) : l.payment = p}) = 0
    /\ \A i \in DOMAIN transactions :
           LET reversals == {j \in DOMAIN transactions : transactions[j].reversalOf = i}
           IN  /\ Cardinality(reversals) <= 1
               /\ \A j \in reversals : \A a \in Accounts \union {Offset} :
                      SumLegs({l \in LegsOn(a) : l.txn \in {i, j}}) = 0
    /\ \A a \in Accounts : BalanceOf(a) \in -MaxMinor - 1 .. MaxMinor
    /\ \A a \in Accounts : accounts[a].deleted => BalanceOf(a) = 0

(***************************************************************************)
(* The collection version identifies the configuration (listAccounts,      *)
(* listPaymentMethodLinks, querySettings): whatever a view with the        *)
(* current version has read so far, query by query while commands commit,  *)
(* is what is stored.  A command with that version (If-Match) is therefore *)
(* never based on a view that shows less than the current accounts or      *)
(* links.  Two things are not promised: the version a method view carries  *)
(* says nothing of the accounts another screen still shows, and            *)
(* UpdateSettings compares no version at all.                              *)
(***************************************************************************)
VersionIdentifiesConfiguration ==
    \A v \in Views : seen[v].version = version =>
        /\ seen[v].accounts \subseteq {VisibleAccounts}
        /\ seen[v].links \subseteq {ShownLinks(seen[v].kind)}
=============================================================================
