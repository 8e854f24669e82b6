----------------------- MODULE ExternalAccountsProofs -----------------------
(***************************************************************************)
(* Proofs about module ExternalAccounts, for any accounts, payment methods *)
(* and views and any bounds: links, history and sort orders always refer   *)
(* to rows that are there, and whatever a view with the current collection *)
(* version has read, query by query, is what is stored.                    *)
(* The second half is about the books: every leg has a header or a payment *)
(* that caused it, and the totals over the legs follow from those rows.    *)
(***************************************************************************)
EXTENDS ExternalAccounts, Counting, SequenceTheorems

-----------------------------------------------------------------------------
(***************************************************************************)
(* The inductive invariant, table by table.                                *)
(***************************************************************************)
PaymentRow == [status : {"NONE", "POSTED", "REVERSED"}, amount : Int]
Named(t)   == {t.primary, t.counterparty} \ {None}

Ordered(table) ==
    \A a, b \in Accounts : table[a].status # "NONE" /\ table[b].status # "NONE" /\ a # b
                              => table[a].order # table[b].order

AccountsFit ==
    /\ accounts \in [Accounts -> Account]
    /\ \A a \in Accounts : accounts[a].deleted => Exists(a)
    /\ Ordered(accounts)

LinksFit ==
    /\ DOMAIN links \subseteq Methods
    /\ links \in [DOMAIN links -> Accounts \union {None}]
    /\ \A m \in DOMAIN links : links[m] # None => Active(links[m])

BooksFit ==
    /\ transactions \in Seq(Transaction) /\ Len(transactions) <= MaxTransactions
    /\ legs \subseteq Leg
    /\ payments \in [PaymentIds -> PaymentRow]
    /\ \A i \in DOMAIN transactions : Named(transactions[i]) \subseteq {a \in Accounts : Exists(a)}

\* A view of either kind, read under a version that was current; and if it
\* still is, then what has been read so far is what is stored.
IsView(view) ==
    /\ view = View(view.kind, view.version, view.accounts, view.links)
    /\ view.kind \in ViewKinds
    /\ view.version \in 0 .. version

Shows(view) ==
    view.version = version =>
        /\ view.accounts \subseteq {VisibleAccounts}
        /\ view.links \subseteq {ShownLinks(view.kind)}

ViewsFit ==
    /\ version \in 1 .. MaxVersion
    /\ seen = [v \in Views |-> seen[v]]
    /\ \A v \in Views : IsView(seen[v]) /\ Shows(seen[v])

CollectionInv == AccountsFit /\ LinksFit /\ BooksFit /\ ViewsFit

LEMMA InvImpliesConsistent ==
    ASSUME CollectionInv
    PROVE  ConfigurationConsistent
BY DEF CollectionInv, AccountsFit, LinksFit, BooksFit, ViewsFit, ConfigurationConsistent, TypeOK, Ordered, Exists,
       Named, PaymentRow, IsView

-----------------------------------------------------------------------------
(***************************************************************************)
(* Views.  Either nothing of the collection changes or its version grows.  *)
(***************************************************************************)
\* What an unchanged view shows stays true, or its version is behind.
LEMMA OldView ==
    ASSUME CollectionInv, version' \in version .. MaxVersion, NEW v \in Views, seen'[v] = seen[v],
           version' = version => accounts' = accounts /\ links' = links
    PROVE  (IsView(seen[v]) /\ Shows(seen[v]))'
<1>1. version \in Nat /\ version' \in Nat /\ version <= version'
  BY ExternalAccountsAssumption DEF CollectionInv, ViewsFit
<1>2. IsView(seen[v]) /\ Shows(seen[v])
  BY DEF CollectionInv, ViewsFit
<1>3. IsView(seen[v])'
  BY <1>1, <1>2 DEF IsView, View
<1>4. Shows(seen[v])'
  <2>1. CASE version' = version
    BY <1>2, <2>1 DEF Shows, VisibleAccounts, ShownLinks, Visible, Exists
  <2>2. CASE version' # version
    <3>1. seen[v].version <= version /\ seen[v].version \in Nat
      BY <1>1, <1>2 DEF IsView
    <3>2. seen'[v].version # version'
      BY <1>1, <2>2, <3>1
    <3> QED BY <3>2 DEF Shows
  <2> QED BY <2>1, <2>2
<1> QED BY <1>3, <1>4

LEMMA ViewsStay ==
    ASSUME CollectionInv, seen' = seen, version' \in version .. MaxVersion,
           version' = version => accounts' = accounts /\ links' = links
    PROVE  ViewsFit'
<1>1. version' \in 1 .. MaxVersion
  BY ExternalAccountsAssumption DEF CollectionInv, ViewsFit
<1>2. seen' = [v \in Views |-> seen'[v]]
  BY DEF CollectionInv, ViewsFit
<1>3. \A v \in Views : (IsView(seen[v]) /\ Shows(seen[v]))'
  BY OldView
<1> QED BY <1>1, <1>2, <1>3 DEF ViewsFit

\* One view is replaced by one that fits.
LEMMA ViewReplaced ==
    ASSUME CollectionInv, version' \in version .. MaxVersion,
           version' = version => accounts' = accounts /\ links' = links,
           NEW v \in Views, NEW view, seen' = [seen EXCEPT ![v] = view],
           (IsView(seen[v]) /\ Shows(seen[v]))'
    PROVE  ViewsFit'
<1>1. version' \in 1 .. MaxVersion
  BY ExternalAccountsAssumption DEF CollectionInv, ViewsFit
<1>2. seen' = [w \in Views |-> seen'[w]] /\ \A w \in Views \ {v} : seen'[w] = seen[w]
  BY DEF CollectionInv, ViewsFit
<1>3. \A w \in Views : (IsView(seen[w]) /\ Shows(seen[w]))'
  <2> SUFFICES ASSUME NEW w \in Views, w # v PROVE (IsView(seen[w]) /\ Shows(seen[w]))'
    OBVIOUS
  <2> QED BY <1>2, OldView
<1> QED BY <1>1, <1>2, <1>3 DEF ViewsFit

LEMMA ViewsFollow ==
    ASSUME CollectionInv, NEW kind \in ViewKinds, Answered(kind), version' \in version .. MaxVersion,
           version' = version => accounts' = accounts /\ links' = links
    PROVE  ViewsFit'
<1>1. CASE UNCHANGED seen
  BY <1>1, ViewsStay
<1>2. ASSUME NEW v \in Views, seen' = [seen EXCEPT ![v] = FullView(kind)'] PROVE ViewsFit'
  <2>1. seen'[v] = FullView(kind)'
    BY <1>2 DEF CollectionInv, ViewsFit
  <2>2. version' \in Nat
    BY ExternalAccountsAssumption DEF CollectionInv, ViewsFit
  <2>3. IsView(seen[v])'
    BY <2>1, <2>2 DEF IsView, FullView, View
  <2>4. Shows(seen[v])'
    BY <2>1 DEF Shows, FullView, View
  <2> QED BY <1>2, <2>3, <2>4, ViewReplaced
<1> QED BY <1>1, <1>2 DEF Answered

\* A query of a view reads what is stored now, under the version it began with.
LEMMA ViewsRead ==
    ASSUME CollectionInv, NEW v \in Views,
           ReadAccounts(v) \/ ReadLinks(v) \/ (\E kind \in ViewKinds : ReadVersion(v, kind))
    PROVE  ViewsFit'
<1>1. UNCHANGED <<accounts, links, version>> /\ version' \in version .. MaxVersion /\ version \in Nat
  BY ExternalAccountsAssumption DEF ReadAccounts, ReadLinks, ReadVersion, Reads, CollectionInv, ViewsFit
<1>2. /\ UNCHANGED VisibleAccounts
      /\ \A kind : ShownLinks(kind)' = ShownLinks(kind)
  BY <1>1 DEF VisibleAccounts, ShownLinks, Visible, Exists
<1>3. seen = [w \in Views |-> seen[w]] /\ IsView(seen[v]) /\ Shows(seen[v])
  BY DEF CollectionInv, ViewsFit
<1>4. CASE ReadAccounts(v)
  <2>1. seen' = [seen EXCEPT ![v] = [seen[v] EXCEPT !.accounts = {VisibleAccounts}]]
    BY <1>4 DEF ReadAccounts, Reads
  <2>2. seen'[v] = View(seen[v].kind, seen[v].version, {VisibleAccounts}, seen[v].links)
    BY <1>3, <2>1 DEF IsView, View
  <2>3. IsView(seen[v])'
    BY <1>1, <1>3, <2>2 DEF IsView, View
  <2>4. Shows(seen[v])'
    BY <1>1, <1>2, <1>3, <2>2 DEF Shows, View
  <2> QED BY <1>1, <2>1, <2>3, <2>4, ViewReplaced
<1>5. CASE ReadLinks(v)
  <2>1. seen' = [seen EXCEPT ![v] = [seen[v] EXCEPT !.links = {ShownLinks(seen[v].kind)}]]
    BY <1>5 DEF ReadLinks, Reads
  <2>2. seen'[v] = View(seen[v].kind, seen[v].version, seen[v].accounts, {ShownLinks(seen[v].kind)})
    BY <1>3, <2>1 DEF IsView, View
  <2>3. IsView(seen[v])'
    BY <1>1, <1>3, <2>2 DEF IsView, View
  <2>4. Shows(seen[v])'
    BY <1>1, <1>2, <1>3, <2>2 DEF Shows, View
  <2> QED BY <1>1, <2>1, <2>3, <2>4, ViewReplaced
<1>6. ASSUME NEW kind \in ViewKinds, ReadVersion(v, kind) PROVE ViewsFit'
  <2>1. seen' = [seen EXCEPT ![v] = View(kind, version, {}, {})]
    BY <1>6 DEF ReadVersion, Reads
  <2>2. seen'[v] = View(kind, version, {}, {})
    BY <1>3, <2>1
  <2>3. IsView(seen[v])'
    BY <1>1, <2>2 DEF IsView, View
  <2>4. Shows(seen[v])'
    BY <2>2 DEF Shows, View
  <2> QED BY <1>1, <2>1, <2>3, <2>4, ViewReplaced
<1> QED BY <1>4, <1>5, <1>6

-----------------------------------------------------------------------------
(***************************************************************************)
(* Rows.                                                                   *)
(***************************************************************************)
LEMMA RowTyped ==
    ASSUME CollectionInv, NEW a \in Accounts
    PROVE  /\ accounts[a] \in Account /\ accounts[a].order \in Nat
           /\ accounts[a].target \in Targets \union {None} /\ accounts[a].status \in {"NONE", "ACTIVE", "ARCHIVED"}
BY DEF CollectionInv, AccountsFit, Account

\* One row of the table is replaced, by one whose place nobody else has.
LEMMA RowReplaced ==
    ASSUME CollectionInv, NEW a \in Accounts, NEW row \in Account, accounts' = [accounts EXCEPT ![a] = row],
           row.deleted => row.status # "NONE",
           row.status # "NONE" => \A b \in Accounts : b # a /\ Exists(b) => accounts[b].order # row.order
    PROVE  /\ AccountsFit'
           /\ \A b \in Accounts : accounts'[b] = IF b = a THEN row ELSE accounts[b]
<1>1. accounts' \in [Accounts -> Account] /\ \A b \in Accounts : accounts'[b] = IF b = a THEN row ELSE accounts[b]
  BY DEF CollectionInv, AccountsFit
<1>2. \A b \in Accounts : accounts'[b].deleted => accounts'[b].status # "NONE"
  BY <1>1 DEF CollectionInv, AccountsFit, Exists
<1>3. Ordered(accounts')
  BY <1>1 DEF CollectionInv, AccountsFit, Ordered, Exists
<1> QED BY <1>1, <1>2, <1>3 DEF AccountsFit, Exists

\* Links stay good when every linked account stays active.
LEMMA LinksStay ==
    ASSUME CollectionInv, links' = links,
           \A a \in Accounts : LinkedTo(a) # {} => Active(a)'
    PROVE  LinksFit'
<1>1. ASSUME NEW m \in DOMAIN links, links[m] # None PROVE Active(links[m])'
  <2>1. links[m] \in Accounts /\ m \in LinkedTo(links[m])
    BY <1>1 DEF CollectionInv, LinksFit, LinkedTo
  <2> QED BY <2>1
<1> QED BY <1>1 DEF CollectionInv, LinksFit, Active, Visible, Exists

LEMMA LinkedAreActive ==
    ASSUME CollectionInv, NEW a \in Accounts, LinkedTo(a) # {}
    PROVE  Active(a)
BY ExternalAccountsAssumption DEF CollectionInv, LinksFit, LinkedTo

\* Nothing is booked, and what history names keeps a row.
LEMMA BooksStay ==
    ASSUME CollectionInv, UNCHANGED <<transactions, legs, payments>>,
           \A a \in Accounts : Exists(a) => Exists(a)' \/ ~Used(a)
    PROVE  BooksFit'
<1>1. ASSUME NEW i \in DOMAIN transactions, NEW a \in Named(transactions[i])
      PROVE  a \in Accounts /\ Exists(a) /\ Used(a)
  BY DEF CollectionInv, BooksFit, Named, Used
<1>2. ASSUME NEW i \in DOMAIN transactions PROVE Named(transactions[i]) \subseteq {a \in Accounts : Exists(a)'}
  BY <1>1
<1> QED BY <1>2 DEF CollectionInv, BooksFit, Exists

\* A transaction on accounts that have rows is booked.
LEMMA BooksGrow ==
    ASSUME CollectionInv, NEW header \in Transaction, NEW entries, entries \subseteq Leg, Insert(header, entries),
           payments' \in [PaymentIds -> PaymentRow],
           \A a \in Accounts : Exists(a) => Exists(a)', Named(header) \subseteq {a \in Accounts : Exists(a)'}
    PROVE  BooksFit'
<1> DEFINE n == Len(transactions)
<1>1. /\ transactions' = Append(transactions, header) /\ legs' = legs \union entries
      /\ n + 1 <= MaxTransactions
  BY DEF Insert, NextTransaction
<1>2. transactions \in Seq(Transaction) /\ n \in Nat /\ DOMAIN transactions = 1 .. n /\ legs \subseteq Leg
  BY LenProperties DEF CollectionInv, BooksFit
<1>3. /\ transactions' \in Seq(Transaction) /\ Len(transactions') = n + 1
      /\ \A i \in 1 .. n : transactions'[i] = transactions[i]
      /\ transactions'[n + 1] = header
  BY <1>1, <1>2, AppendProperties
<1>4. DOMAIN transactions' = 1 .. n + 1
  BY <1>3, LenProperties
<1> HIDE DEF n
<1>5. ASSUME NEW i \in DOMAIN transactions'
      PROVE  Named(transactions'[i]) \subseteq {a \in Accounts : Exists(a)'}
  <2>1. CASE i = n + 1
    BY <1>3, <2>1
  <2>2. CASE i \in 1 .. n
    BY <1>2, <1>3, <2>2 DEF CollectionInv, BooksFit
  <2> QED BY <1>2, <1>4, <2>1, <2>2
<1> QED BY <1>1, <1>2, <1>3, <1>5 DEF BooksFit, Exists
\* The next sort order is behind those of all the accounts looked at.
LEMMA Behind ==
    ASSUME CollectionInv, NEW S, S \subseteq Accounts
    PROVE  LET next == Max({accounts[a].order + 1 : a \in S} \union {0})
           IN  next \in Nat /\ \A a \in S : accounts[a].order < next
<1> DEFINE T == {accounts[a].order + 1 : a \in S} \union {0}
           pos == [a \in Accounts |-> accounts[a].order]
<1>1. \A a \in Accounts : pos[a] \in Nat /\ pos[a] = accounts[a].order
  BY RowTyped
<1> HIDE DEF pos
<1>2. PICK n \in Nat : \A a \in Accounts : pos[a] <= n
  BY <1>1, FiniteBound, ExternalAccountsAssumption
<1>3. \A a \in S : accounts[a].order \in Nat /\ accounts[a].order <= n
  BY <1>1, <1>2
<1>4. T \subseteq 0 .. (n + 1) /\ T # {} /\ n + 1 \in Nat
  BY <1>2, <1>3
<1>5. \A a \in S : accounts[a].order + 1 \in T
  OBVIOUS
<1> HIDE DEF T
<1>6. Max(T) \in T /\ \A y \in T : Max(T) >= y
  BY <1>4, GreatestNumber
<1>7. Max(T) \in Nat
  <2>1. T \subseteq Nat
    BY <1>4
  <2> QED BY <1>6, <2>1
<1>8. ASSUME NEW a \in S PROVE accounts[a].order < Max(T)
  <2>1. accounts[a].order + 1 <= Max(T) /\ accounts[a].order \in Nat
    BY <1>3, <1>5, <1>6
  <2> HIDE DEF T
  <2> QED BY <1>7, <2>1
<1> QED BY <1>7, <1>8 DEF T

-----------------------------------------------------------------------------
(***************************************************************************)
(* Movements.                                                              *)
(***************************************************************************)
LEMMA LegTyped ==
    ASSUME NEW txn \in 0 .. MaxTransactions, NEW payment \in PaymentIds \union {None},
           NEW account \in Accounts \union {Offset, GroupCash}, NEW reversal \in BOOLEAN, NEW amount \in Int
    PROVE  NewLeg(txn, payment, account, reversal, amount) \in Leg
BY DEF NewLeg, Leg

LEMMA NextTyped ==
    ASSUME CollectionInv, NextTransaction <= MaxTransactions
    PROVE  NextTransaction \in 0 .. MaxTransactions
<1>1. Len(transactions) \in Nat
  BY LenProperties DEF CollectionInv, BooksFit
<1> QED BY <1>1, ExternalAccountsAssumption DEF NextTransaction

LEMMA ManualBooked ==
    ASSUME CollectionInv, NEW kind \in Kinds, NEW primary \in Accounts, NEW counterparty \in Accounts \union {None},
           NEW amount \in Int, CreateManualTransaction(kind, primary, counterparty, amount), payments' = payments,
           \A a \in Accounts : Exists(a) => Exists(a)', Exists(primary)',
           counterparty # None => Exists(counterparty)'
    PROVE  BooksFit'
<1> DEFINE header  == Header(kind, primary, counterparty, None, amount, 0)
           entries == ManualLegs(primary, counterparty, amount)
<1>1. Insert(header, entries) /\ NextTransaction <= MaxTransactions
  BY DEF CreateManualTransaction, Insert
<1>2. NextTransaction \in 0 .. MaxTransactions /\ 0 \in 0 .. MaxTransactions
  BY <1>1, NextTyped, ExternalAccountsAssumption
<1>3. header \in Transaction /\ Named(header) = {primary, counterparty} \ {None}
  <2>1. None \in PaymentIds \union {None}
    OBVIOUS
  <2>2. header \in Transaction
    BY <1>2, <2>1 DEF Header, Transaction
  <2> QED BY <2>2 DEF Header, Named
<1> DEFINE other == IF counterparty = None THEN Offset ELSE counterparty
<1>4. other \in Accounts \union {Offset, GroupCash} /\ -amount \in Int
  OBVIOUS
<1> HIDE DEF other
<1>5. /\ NewLeg(NextTransaction, None, primary, FALSE, amount) \in Leg
      /\ NewLeg(NextTransaction, None, other, FALSE, -amount) \in Leg
  BY <1>2, <1>4, LegTyped
<1>6. entries \subseteq Leg
  BY <1>5 DEF ManualLegs, other
<1>7. payments' \in [PaymentIds -> PaymentRow]
  BY DEF CollectionInv, BooksFit
<1> HIDE DEF header, entries
<1>8. Named(header) \subseteq {a \in Accounts : Exists(a)'}
  BY <1>3
<1> QED BY <1>1, <1>3, <1>6, <1>7, <1>8, BooksGrow

\* Accounts, links and version stay as they are.
LEMMA ConfigurationStays ==
    ASSUME CollectionInv, UNCHANGED <<accounts, links, version, seen>>
    PROVE  AccountsFit' /\ LinksFit' /\ ViewsFit'
<1>1. AccountsFit' /\ LinksFit'
  BY DEF CollectionInv, AccountsFit, LinksFit, Ordered, Exists, Active, Visible
<1>2. version' \in version .. MaxVersion
  BY ExternalAccountsAssumption DEF CollectionInv, ViewsFit
<1> QED BY <1>1, <1>2, ViewsStay

LEMMA CreateTransactionStep ==
    ASSUME CollectionInv, NEW kind \in {"INCOME", "EXPENSE", "TRANSFER"}, NEW a \in Accounts,
           NEW b \in Accounts \union {None}, NEW n \in Amounts, CreateTransaction(kind, a, b, n)
    PROVE  CollectionInv'
<1>1. n \in Int /\ -n \in Int
  BY ExternalAccountsAssumption
<1> DEFINE amount == IF kind = "INCOME" THEN n ELSE -n
<1>2. amount \in Int
  BY <1>1
<1>3. CreateManualTransaction(kind, a, b, amount) /\ UNCHANGED <<accounts, links, payments, version, seen>>
  BY DEF CreateTransaction
<1>4. Exists(a) /\ (b # None => Exists(b))
  BY DEF CreateTransaction, Active, Visible
<1>5. (\A c \in Accounts : Exists(c) => Exists(c)') /\ Exists(a)' /\ (b # None => Exists(b)')
  BY <1>3, <1>4 DEF Exists
<1> HIDE DEF amount
<1>6. kind \in Kinds /\ payments' = payments
  BY <1>3 DEF Kinds
<1>7. BooksFit'
  BY <1>2, <1>3, <1>5, <1>6, ManualBooked
<1> QED BY <1>3, <1>7, ConfigurationStays DEF CollectionInv

\* A reversal, with the accounts it brings back.
LEMMA ReversalStep ==
    ASSUME CollectionInv, NEW header \in Transaction, NEW entries, entries \subseteq Leg, NEW touched,
           InsertReversal(header, entries, touched), payments' \in [PaymentIds -> PaymentRow],
           Named(header) \subseteq {a \in Accounts : Exists(a)}, links' = links, seen' = seen
    PROVE  CollectionInv'
<1> DEFINE Back(a) == a \in touched /\ accounts[a].deleted /\ SumLegs({l \in legs \union entries : l.account = a}) # 0
<1>1. Insert(header, entries) /\ accounts' = Restored(touched, entries) /\ version' = VersionAfter(accounts')
      /\ version' <= MaxVersion
  BY DEF InsertReversal
<1>2. /\ accounts' = [a \in Accounts |-> accounts'[a]]
      /\ \A a \in Accounts : accounts'[a] = IF Back(a) THEN [accounts[a] EXCEPT !.deleted = FALSE, !.status = "ARCHIVED"]
                                            ELSE accounts[a]
  BY <1>1 DEF Restored
<1>3. \A a \in Accounts : Back(a) => accounts[a].deleted
  OBVIOUS
<1> HIDE DEF Back
<1>4. ASSUME NEW a \in Accounts
      PROVE  /\ accounts'[a] \in Account /\ (accounts'[a].deleted => accounts'[a].status # "NONE")
             /\ accounts'[a].order = accounts[a].order
             /\ accounts'[a].status # "NONE" <=> accounts[a].status # "NONE"
             /\ ~accounts[a].deleted => accounts'[a] = accounts[a]
  <2>1. accounts[a] \in Account /\ (accounts[a].deleted => accounts[a].status # "NONE")
    BY DEF CollectionInv, AccountsFit, Exists
  <2>2. CASE Back(a)
    <3>1. accounts'[a] = [accounts[a] EXCEPT !.deleted = FALSE, !.status = "ARCHIVED"]
      BY <1>2, <2>2
    <3>2. accounts'[a] \in Account /\ ~accounts'[a].deleted /\ accounts'[a].status = "ARCHIVED"
          /\ accounts'[a].order = accounts[a].order
      BY <2>1, <3>1 DEF Account
    <3> QED BY <1>3, <2>1, <2>2, <3>2
  <2>3. CASE ~Back(a)
    BY <1>2, <2>1, <2>3
  <2> QED BY <2>2, <2>3
<1>5. accounts' \in [Accounts -> Account]
  BY <1>2, <1>4
<1>6. Ordered(accounts')
  BY <1>4 DEF CollectionInv, AccountsFit, Ordered
<1>7. AccountsFit'
  BY <1>4, <1>5, <1>6 DEF AccountsFit, Exists
<1>8. \A a \in Accounts : Exists(a) <=> Exists(a)'
  BY <1>4 DEF Exists
<1>9. BooksFit'
  BY <1>1, <1>8, BooksGrow
<1>10. \A a \in Accounts : LinkedTo(a) # {} => Active(a)'
  BY <1>4, LinkedAreActive DEF Active, Visible, Exists
<1>11. LinksFit'
  BY <1>10, LinksStay
<1>12. version \in Nat /\ version \in 1 .. MaxVersion
  BY ExternalAccountsAssumption DEF CollectionInv, ViewsFit
<1>13. version' = version \/ version' = version + 1
  BY <1>1 DEF VersionAfter
<1>14. version' \in version .. MaxVersion
  BY <1>1, <1>12, <1>13, ExternalAccountsAssumption
<1>15. version' = version => accounts' = accounts
  BY <1>1, <1>12 DEF VersionAfter
<1>16. ViewsFit'
  BY <1>14, <1>15, ViewsStay
<1> QED BY <1>7, <1>9, <1>11, <1>16 DEF CollectionInv

LEMMA TransactionTyped ==
    ASSUME CollectionInv, NEW i \in DOMAIN transactions
    PROVE  /\ transactions[i] \in Transaction /\ i \in 0 .. MaxTransactions
           /\ Named(transactions[i]) \subseteq {a \in Accounts : Exists(a)}
<1>1. transactions \in Seq(Transaction) /\ i \in 1 .. Len(transactions) /\ Len(transactions) \in Nat
  BY LenProperties DEF CollectionInv, BooksFit
<1>2. transactions[i] \in Transaction
  BY <1>1, ElementOfSeq
<1>3. i \in 0 .. MaxTransactions
  BY <1>1, ExternalAccountsAssumption DEF CollectionInv, BooksFit
<1> QED BY <1>2, <1>3 DEF CollectionInv, BooksFit

LEMMA ReverseTransactionStep ==
    ASSUME CollectionInv, NEW i \in DOMAIN transactions, ReverseTransaction(i)
    PROVE  CollectionInv'
<1> DEFINE t == transactions[i]
           entries == {NewLeg(NextTransaction, None, l.account, TRUE, -l.amount) :
                           l \in {k \in legs : k.txn = i /\ ~k.reversal}}
           header == Header("REVERSAL", t.primary, t.counterparty, None, -t.amount, i)
           touched == {t.primary, t.counterparty} \ {None}
<1>1. InsertReversal(header, entries, touched) /\ UNCHANGED <<links, payments, seen>>
  BY DEF ReverseTransaction
<1>2. NextTransaction \in 0 .. MaxTransactions
  BY <1>1, NextTyped DEF InsertReversal, Insert
<1>3. t \in Transaction /\ i \in 0 .. MaxTransactions /\ Named(t) \subseteq {a \in Accounts : Exists(a)}
  BY TransactionTyped
<1>4. t.primary \in Accounts /\ t.counterparty \in Accounts \union {None} /\ t.amount \in Int
  BY <1>3 DEF Transaction
<1>5. -t.amount \in Int /\ "REVERSAL" \in Kinds
  BY <1>4 DEF Kinds
<1>6. header \in Transaction /\ Named(header) = Named(t)
  <2>1. None \in PaymentIds \union {None}
    OBVIOUS
  <2> DEFINE amount == -t.amount
  <2>2. amount \in Int
    BY <1>5
  <2> HIDE DEF amount
  <2>3. Header("REVERSAL", t.primary, t.counterparty, None, amount, i) \in Transaction
    BY <1>3, <1>4, <1>5, <2>1, <2>2 DEF Header, Transaction
  <2> QED BY <2>3 DEF Header, Named, amount
<1>7. \A l \in legs : l.account \in Accounts \union {Offset, GroupCash} /\ -l.amount \in Int
  BY DEF CollectionInv, BooksFit, Leg
<1>8. entries \subseteq Leg
  BY <1>2, <1>7, LegTyped
<1>9. payments' \in [PaymentIds -> PaymentRow]
  BY <1>1 DEF CollectionInv, BooksFit
<1> HIDE DEF header, entries, touched, t
<1> QED BY <1>1, <1>3, <1>6, <1>8, <1>9, ReversalStep
LEMMA CreatePaymentStep ==
    ASSUME CollectionInv, NEW p \in PaymentIds, NEW m, NEW n \in Amounts, CreatePayment(p, m, n)
    PROVE  CollectionInv'
<1>1. n \in Int /\ 0 \in 0 .. MaxTransactions /\ UNCHANGED <<accounts, links, version, seen>> /\ m \in DOMAIN links
  BY ExternalAccountsAssumption DEF CreatePayment
<1>2. payments' \in [PaymentIds -> PaymentRow]
  <2>1. [status |-> "POSTED", amount |-> n] \in PaymentRow
    BY <1>1 DEF PaymentRow
  <2> QED BY <2>1 DEF CreatePayment, CollectionInv, BooksFit
<1>3. CASE PostGroupCash(p, n)
  <2>1. NewLeg(0, p, GroupCash, FALSE, n) \in Leg
    BY <1>1, LegTyped
  <2>2. transactions' = transactions /\ legs' \subseteq Leg
    BY <1>3, <2>1 DEF PostGroupCash, CollectionInv, BooksFit
  <2>3. BooksFit'
    BY <1>1, <1>2, <2>2 DEF CollectionInv, BooksFit, Exists
  <2> QED BY <1>1, <2>3, ConfigurationStays DEF CollectionInv
<1>4. CASE links[m] # None /\ PostPayment(p, links[m], n)
  <2> DEFINE a       == links[m]
             header  == Header("PAYMENT", a, None, p, n, 0)
             entries == {NewLeg(NextTransaction, p, a, FALSE, n)}
  <2>1. a \in Accounts /\ Exists(a)
    BY <1>1, <1>4 DEF CollectionInv, LinksFit, Active, Visible
  <2>2. Insert(header, entries)
    BY <1>4 DEF PostPayment
  <2> HIDE DEF a
  <2>3. NextTransaction \in 0 .. MaxTransactions
    BY <2>2, NextTyped DEF Insert
  <2>4. header \in Transaction
    BY <1>1, <2>1 DEF Header, Transaction, Kinds
  <2>5. Named(header) \subseteq {b \in Accounts : Exists(b)}
    BY <2>1 DEF Header, Named
  <2>6. entries \subseteq Leg
    BY <1>1, <2>1, <2>3, LegTyped
  <2> HIDE DEF header, entries
  <2>7. (\A b \in Accounts : Exists(b) => Exists(b)') /\ Named(header) \subseteq {b \in Accounts : Exists(b)'}
    BY <1>1, <2>5 DEF Exists
  <2>8. BooksFit'
    BY <1>2, <2>2, <2>4, <2>6, <2>7, BooksGrow
  <2> QED BY <1>1, <2>8, ConfigurationStays DEF CollectionInv
<1> QED BY <1>3, <1>4 DEF CreatePayment

LEMMA ReversePaymentStep ==
    ASSUME CollectionInv, NEW p \in PaymentIds, ReversePayment(p)
    PROVE  CollectionInv'
<1>1. UNCHANGED <<links, seen>> /\ 0 \in 0 .. MaxTransactions
  BY ExternalAccountsAssumption DEF ReversePayment
<1>2. payments[p] \in PaymentRow
  BY DEF CollectionInv, BooksFit
<1>3. payments' \in [PaymentIds -> PaymentRow]
  <2>1. [payments[p] EXCEPT !.status = "REVERSED"] \in PaymentRow
    BY <1>2 DEF PaymentRow
  <2> QED BY <2>1 DEF ReversePayment, CollectionInv, BooksFit
<1>4. ASSUME NEW i \in PaymentTransaction(p),
             LET t == transactions[i]
             IN  InsertReversal(Header("REVERSAL", t.primary, None, p, -t.amount, i),
                                {NewLeg(NextTransaction, p, t.primary, TRUE, -t.amount)}, {t.primary})
      PROVE  CollectionInv'
  <2> DEFINE t       == transactions[i]
             amount  == -t.amount
             header  == Header("REVERSAL", t.primary, None, p, amount, i)
             entries == {NewLeg(NextTransaction, p, t.primary, TRUE, amount)}
  <2>1. InsertReversal(header, entries, {t.primary}) /\ i \in DOMAIN transactions
    BY <1>4 DEF PaymentTransaction
  <2>2. t \in Transaction /\ i \in 0 .. MaxTransactions /\ Named(t) \subseteq {a \in Accounts : Exists(a)}
    BY <2>1, TransactionTyped
  <2>3. t.primary \in Accounts /\ Exists(t.primary) /\ amount \in Int
    BY <2>2, ExternalAccountsAssumption DEF Transaction, Named
  <2>4. NextTransaction \in 0 .. MaxTransactions
    BY <2>1, NextTyped DEF InsertReversal, Insert
  <2> HIDE DEF t, amount
  <2>5. header \in Transaction
    BY <2>2, <2>3 DEF Header, Transaction, Kinds
  <2>6. Named(header) \subseteq {a \in Accounts : Exists(a)}
    BY <2>3 DEF Header, Named
  <2>7. entries \subseteq Leg
    BY <2>3, <2>4, LegTyped
  <2> HIDE DEF header, entries
  <2> QED BY <1>1, <1>3, <2>1, <2>5, <2>6, <2>7, ReversalStep
<1>5. CASE /\ legs' = legs \union {NewLeg(0, p, GroupCash, TRUE, -payments[p].amount)}
           /\ UNCHANGED <<transactions, accounts, version>>
  <2> DEFINE amount == -payments[p].amount
  <2>1. amount \in Int
    BY <1>2 DEF PaymentRow
  <2> HIDE DEF amount
  <2>2. NewLeg(0, p, GroupCash, TRUE, amount) \in Leg
    BY <1>1, <2>1, LegTyped
  <2>3. legs' \subseteq Leg
    BY <1>5, <2>2 DEF CollectionInv, BooksFit, amount
  <2>4. BooksFit'
    BY <1>3, <1>5, <2>3 DEF CollectionInv, BooksFit, Exists
  <2> QED BY <1>1, <1>5, <2>4, ConfigurationStays DEF CollectionInv
<1> QED BY <1>4, <1>5 DEF ReversePayment

-----------------------------------------------------------------------------
(***************************************************************************)
(* Configuration.                                                          *)
(***************************************************************************)
\* A command under the collection version, answered to its author.
LEMMA ConfiguresViews ==
    ASSUME CollectionInv, NEW expected, Configures(expected), NEW kind \in ViewKinds, Answered(kind)
    PROVE  ViewsFit' /\ payments' = payments
<1>1. version \in Nat /\ version < MaxVersion /\ version' = version + 1 /\ payments' = payments
  BY ExternalAccountsAssumption DEF CollectionInv, ViewsFit, Configures
<1>2. version' \in version .. MaxVersion /\ version' # version
  BY <1>1, ExternalAccountsAssumption
<1> QED BY <1>1, <1>2, ViewsFollow

LEMMA NewAccountTyped ==
    ASSUME CollectionInv, NEW target \in Targets \union {None}
    PROVE  /\ NewAccount(target) \in Account /\ NewAccount(target).status = "ACTIVE" /\ ~NewAccount(target).deleted
           /\ \A b \in Accounts : Exists(b) => accounts[b].order # NewAccount(target).order
<1> DEFINE S == {b \in Accounts : Exists(b)}
<1>1. NextOrder \in Nat /\ \A b \in S : accounts[b].order < NextOrder
  BY Behind DEF NextOrder
<1>2. NewAccount(target) \in Account /\ NewAccount(target).order = NextOrder
  BY <1>1 DEF NewAccount, Account
<1>3. \A b \in S : accounts[b].order # NextOrder
  <2> SUFFICES ASSUME NEW b \in S PROVE accounts[b].order # NextOrder
    OBVIOUS
  <2>1. accounts[b].order \in Nat /\ accounts[b].order < NextOrder
    BY <1>1, RowTyped
  <2> QED BY <1>1, <2>1
<1> QED BY <1>2, <1>3 DEF NewAccount

\* A new row, where nothing refers to yet.
LEMMA AccountAdded ==
    ASSUME CollectionInv, NEW a \in Accounts, ~Exists(a), NEW target \in Targets \union {None},
           accounts' = [accounts EXCEPT ![a] = NewAccount(target)]
    PROVE  /\ AccountsFit' /\ Active(a)' /\ (\A b \in Accounts : Exists(b) => Exists(b)')
           /\ \A b \in Accounts : Active(b) => Active(b)'
<1> DEFINE row == NewAccount(target)
<1>1. /\ row \in Account /\ row.status = "ACTIVE" /\ ~row.deleted
      /\ \A b \in Accounts : Exists(b) => accounts[b].order # row.order
  BY NewAccountTyped
<1>2. accounts' = [accounts EXCEPT ![a] = row]
  OBVIOUS
<1> HIDE DEF row
<1>3. AccountsFit' /\ \A b \in Accounts : accounts'[b] = IF b = a THEN row ELSE accounts[b]
  BY <1>1, <1>2, RowReplaced
<1>4. Active(a)'
  BY <1>1, <1>3 DEF Active, Visible, Exists
<1>5. \A b \in Accounts : Exists(b) => Exists(b)'
  BY <1>1, <1>3 DEF Exists
<1>6. \A b \in Accounts : Active(b) => Active(b)'
  BY <1>3, <1>4 DEF Active, Visible, Exists
<1> QED BY <1>3, <1>4, <1>5, <1>6

LEMMA CreateAccountStep ==
    ASSUME CollectionInv, NEW expected, NEW a \in Accounts, NEW target \in Targets \union {None},
           NEW opening \in Int, CreateAccount(expected, a, target, opening)
    PROVE  CollectionInv'
<1>1. ViewsFit' /\ payments' = payments
  BY ConfiguresViews DEF ViewKinds, CreateAccount
<1>2. ~Exists(a) /\ accounts' = [accounts EXCEPT ![a] = NewAccount(target)] /\ links' = links
  BY DEF CreateAccount
<1>3. /\ AccountsFit' /\ Active(a)' /\ (\A b \in Accounts : Exists(b) => Exists(b)')
      /\ \A b \in Accounts : Active(b) => Active(b)'
  BY <1>2, AccountAdded
<1>4. LinksFit'
  BY <1>2, <1>3, LinkedAreActive, LinksStay
<1>5. BooksFit'
  <2>1. CASE UNCHANGED <<transactions, legs>>
    BY <1>1, <1>3, <2>1, BooksStay
  <2>2. CASE CreateManualTransaction("OPENING_BALANCE", a, None, opening)
    <3>1. Exists(a)' /\ "OPENING_BALANCE" \in Kinds
      BY <1>3 DEF Active, Visible, Kinds
    <3> QED BY <1>1, <1>3, <2>2, <3>1, ManualBooked
  <2> QED BY <2>1, <2>2 DEF CreateAccount
<1> QED BY <1>1, <1>3, <1>4, <1>5 DEF CollectionInv
\* A row that stays where it is may change its other columns.
LEMMA RowChanged ==
    ASSUME CollectionInv, NEW a \in Accounts, Exists(a), NEW row \in Account, row.order = accounts[a].order,
           row.status # "NONE", accounts' = [accounts EXCEPT ![a] = row]
    PROVE  /\ AccountsFit' /\ (\A b \in Accounts : Exists(b) => Exists(b)')
           /\ \A b \in Accounts : accounts'[b] = IF b = a THEN row ELSE accounts[b]
<1>1. \A b \in Accounts : b # a /\ Exists(b) => accounts[b].order # row.order
  BY DEF CollectionInv, AccountsFit, Ordered, Exists
<1>2. AccountsFit' /\ \A b \in Accounts : accounts'[b] = IF b = a THEN row ELSE accounts[b]
  BY <1>1, RowReplaced
<1> QED BY <1>2 DEF Exists

LEMMA TargetChanged ==
    ASSUME CollectionInv, NEW a \in Accounts, Exists(a), NEW target \in Targets \union {None},
           accounts' = [accounts EXCEPT ![a].target = target]
    PROVE  /\ AccountsFit' /\ (\A b \in Accounts : Exists(b) => Exists(b)')
           /\ \A b \in Accounts : Active(b) => Active(b)'
<1> DEFINE row == [accounts[a] EXCEPT !.target = target]
<1>1. accounts[a] \in Account
  BY RowTyped
<1>2. /\ row \in Account /\ row.order = accounts[a].order /\ row.status = accounts[a].status
      /\ row.deleted = accounts[a].deleted
  BY <1>1 DEF Account
<1>3. accounts' = [accounts EXCEPT ![a] = row]
  OBVIOUS
<1> HIDE DEF row
<1>4. /\ AccountsFit' /\ (\A b \in Accounts : Exists(b) => Exists(b)')
      /\ \A b \in Accounts : accounts'[b] = IF b = a THEN row ELSE accounts[b]
  BY <1>2, <1>3, RowChanged DEF Exists
<1> QED BY <1>2, <1>4 DEF Active, Visible, Exists

LEMMA UpdateAccountStep ==
    ASSUME CollectionInv, NEW expected, NEW a \in Accounts, NEW target \in Targets \union {None},
           UpdateAccount(expected, a, target)
    PROVE  CollectionInv'
<1>1. ViewsFit' /\ payments' = payments
  BY ConfiguresViews DEF ViewKinds, UpdateAccount
<1>2. Exists(a) /\ accounts' = [accounts EXCEPT ![a].target = target] /\ UNCHANGED <<links, transactions, legs>>
  BY DEF UpdateAccount, Visible
<1>3. /\ AccountsFit' /\ (\A b \in Accounts : Exists(b) => Exists(b)')
      /\ \A b \in Accounts : Active(b) => Active(b)'
  BY <1>2, TargetChanged
<1>4. LinksFit'
  BY <1>2, <1>3, LinkedAreActive, LinksStay
<1>5. BooksFit'
  BY <1>1, <1>2, <1>3, BooksStay
<1> QED BY <1>1, <1>3, <1>4, <1>5 DEF CollectionInv

LEMMA SetAccountArchivedStep ==
    ASSUME CollectionInv, NEW expected, NEW a \in Accounts, NEW archived \in BOOLEAN,
           SetAccountArchived(expected, a, archived)
    PROVE  CollectionInv'
<1> DEFINE status == IF archived THEN "ARCHIVED" ELSE "ACTIVE"
           row    == [accounts[a] EXCEPT !.status = status]
<1>1. ViewsFit' /\ payments' = payments
  BY ConfiguresViews DEF ViewKinds, SetAccountArchived
<1>2. /\ Visible(a) /\ accounts' = [accounts EXCEPT ![a].status = status] /\ UNCHANGED <<transactions, legs>>
      /\ links' = IF archived THEN Detached(a) ELSE links
  BY DEF SetAccountArchived
<1>3. accounts[a] \in Account /\ status \in {"ACTIVE", "ARCHIVED"} /\ (~archived => status = "ACTIVE")
  BY RowTyped
<1> HIDE DEF status
<1>4. /\ row \in Account /\ row.order = accounts[a].order /\ row.status = status
      /\ row.deleted = accounts[a].deleted
  BY <1>3 DEF Account
<1>5. accounts' = [accounts EXCEPT ![a] = row]
  BY <1>2
<1> HIDE DEF row
<1>6. row.status # "NONE" /\ Exists(a)
  BY <1>2, <1>3, <1>4 DEF Visible
<1>7. /\ AccountsFit' /\ (\A b \in Accounts : Exists(b) => Exists(b)')
      /\ \A b \in Accounts : accounts'[b] = IF b = a THEN row ELSE accounts[b]
  BY <1>4, <1>5, <1>6, RowChanged
<1>8. BooksFit'
  BY <1>1, <1>2, <1>7, BooksStay
<1>9. \A b \in Accounts : b # a /\ Active(b) => Active(b)'
  BY <1>7 DEF Active, Visible, Exists
<1>10. LinksFit'
  <2>1. CASE ~archived
    <3>1. Active(a)'
      BY <1>2, <1>3, <1>4, <1>7, <2>1 DEF Active, Visible, Exists
    <3> QED BY <1>2, <1>9, <2>1, <3>1, LinkedAreActive, LinksStay
  <2>2. CASE archived
    <3>1. links' = Detached(a) /\ DOMAIN links' = DOMAIN links
      BY <1>2, <2>2 DEF Detached
    <3>2. \A m \in DOMAIN links : links'[m] = IF links[m] = a THEN None ELSE links[m]
      BY <3>1 DEF Detached
    <3>3. links' \in [DOMAIN links' -> Accounts \union {None}]
      BY <3>1 DEF Detached, CollectionInv, LinksFit
    <3>4. ASSUME NEW m \in DOMAIN links', links'[m] # None PROVE Active(links[m])'
      <4>1. links'[m] = links[m] /\ links[m] # a /\ links[m] # None /\ m \in DOMAIN links
        BY <3>1, <3>2, <3>4
      <4>2. links[m] \in Accounts /\ Active(links[m])
        BY <4>1 DEF CollectionInv, LinksFit
      <4> QED BY <1>7, <4>1, <4>2 DEF Active, Visible, Exists
    <3> QED BY <3>1, <3>3, <3>4 DEF CollectionInv, LinksFit
  <2> QED BY <2>1, <2>2
<1> QED BY <1>1, <1>7, <1>8, <1>10 DEF CollectionInv

LEMMA DeleteAccountStep ==
    ASSUME CollectionInv, NEW expected, NEW a \in Accounts, DeleteAccount(expected, a)
    PROVE  CollectionInv'
<1> DEFINE row == IF Used(a) THEN [accounts[a] EXCEPT !.deleted = TRUE] ELSE NoAccount
<1>1. ViewsFit' /\ payments' = payments
  BY ConfiguresViews DEF ViewKinds, DeleteAccount
<1>2. Visible(a) /\ LinkedTo(a) = {} /\ UNCHANGED <<links, transactions, legs>>
  BY DEF DeleteAccount
<1>3. accounts' = [accounts EXCEPT ![a] = row]
  BY DEF DeleteAccount
<1>4. accounts[a] \in Account /\ Exists(a)
  BY <1>2, RowTyped DEF Visible
<1>5. /\ row \in Account /\ (row.deleted => row.status # "NONE")
      /\ row.status # "NONE" => row.order = accounts[a].order
      /\ Used(a) => row.status # "NONE"
  <2>1. CASE Used(a)
    BY <1>4, <2>1 DEF Account, Exists
  <2>2. CASE ~Used(a)
    BY <2>2 DEF Account, NoAccount
  <2> QED BY <2>1, <2>2
<1> HIDE DEF row
<1>6. row.status # "NONE" => \A b \in Accounts : b # a /\ Exists(b) => accounts[b].order # row.order
  BY <1>4, <1>5 DEF CollectionInv, AccountsFit, Ordered, Exists
<1>7. AccountsFit' /\ \A b \in Accounts : accounts'[b] = IF b = a THEN row ELSE accounts[b]
  BY <1>3, <1>5, <1>6, RowReplaced
<1>8. \A b \in Accounts : Exists(b) => Exists(b)' \/ ~Used(b)
  BY <1>5, <1>7 DEF Exists
<1>9. BooksFit'
  BY <1>1, <1>2, <1>8, BooksStay
<1>10. \A b \in Accounts : LinkedTo(b) # {} => Active(b)'
  <2> SUFFICES ASSUME NEW b \in Accounts, LinkedTo(b) # {} PROVE Active(b)'
    OBVIOUS
  <2>1. b # a /\ Active(b)
    BY <1>2, LinkedAreActive
  <2> QED BY <1>7, <2>1 DEF Active, Visible, Exists
<1>11. LinksFit'
  BY <1>2, <1>10, LinksStay
<1> QED BY <1>1, <1>7, <1>9, <1>11 DEF CollectionInv

LEMMA ReorderAccountsStep ==
    ASSUME CollectionInv, NEW expected, NEW n, NEW ids \in SeqOf(Accounts, n), ReorderAccounts(expected, ids)
    PROVE  CollectionInv'
<1> DEFINE place(a) == CHOOSE i \in DOMAIN ids : ids[i] = a
           order(a) == VisibleBase + place(a) - 1
           hidden   == {b \in Accounts : Exists(b) /\ accounts[b].deleted}
<1>1. ViewsFit' /\ payments' = payments
  BY ConfiguresViews DEF ViewKinds, ReorderAccounts
<1>2. /\ ToSet(ids) = {a \in Accounts : Visible(a)} /\ UNCHANGED <<links, transactions, legs>>
      /\ accounts' = [a \in Accounts |-> IF a \in ToSet(ids) THEN [accounts[a] EXCEPT !.order = order(a)]
                                         ELSE accounts[a]]
  BY DEF ReorderAccounts
<1>3. VisibleBase \in Nat /\ \A b \in hidden : accounts[b].order < VisibleBase
  BY Behind DEF VisibleBase
<1>4. DOMAIN ids \subseteq Nat \ {0}
  BY DEF SeqOf
<1>5. \A a \in ToSet(ids) : place(a) \in DOMAIN ids /\ ids[place(a)] = a
  BY DEF ToSet
<1> HIDE DEF place
<1>6. \A a \in ToSet(ids) : place(a) \in Nat /\ place(a) >= 1
  BY <1>4, <1>5
<1>7. \A a \in ToSet(ids) : order(a) \in Nat /\ order(a) >= VisibleBase
  BY <1>3, <1>6
<1>8. \A a, b \in ToSet(ids) : a # b => order(a) # order(b)
  <2> SUFFICES ASSUME NEW a \in ToSet(ids), NEW b \in ToSet(ids), a # b PROVE order(a) # order(b)
    OBVIOUS
  <2>1. place(a) # place(b)
    BY <1>5
  <2> QED BY <1>3, <1>6, <2>1
<1> HIDE DEF order
<1>9. \A a \in Accounts : /\ a \in ToSet(ids) => accounts'[a] = [accounts[a] EXCEPT !.order = order(a)]
                          /\ a \notin ToSet(ids) => accounts'[a] = accounts[a]
  BY <1>2
<1>10. ASSUME NEW a \in Accounts
       PROVE  /\ accounts'[a] \in Account /\ accounts'[a].status = accounts[a].status
              /\ accounts'[a].deleted = accounts[a].deleted
              /\ accounts'[a].order = IF a \in ToSet(ids) THEN order(a) ELSE accounts[a].order
  <2>1. accounts[a] \in Account
    BY RowTyped
  <2>2. CASE a \in ToSet(ids)
    <3>1. order(a) \in Nat /\ accounts'[a] = [accounts[a] EXCEPT !.order = order(a)]
      BY <1>7, <1>9, <2>2
    <3> QED BY <2>1, <2>2, <3>1 DEF Account
  <2>3. CASE a \notin ToSet(ids)
    BY <1>9, <2>1, <2>3
  <2> QED BY <2>2, <2>3
<1>11. accounts' \in [Accounts -> Account]
  BY <1>2, <1>10
<1>12. Ordered(accounts')
  <2> SUFFICES ASSUME NEW a \in Accounts, NEW b \in Accounts, Exists(a), Exists(b), a # b
               PROVE  accounts'[a].order # accounts'[b].order
    BY <1>10 DEF Ordered, Exists
  <2>1. ASSUME NEW x \in Accounts, Exists(x), x \notin ToSet(ids)
        PROVE  accounts[x].order \in Nat /\ accounts[x].order < VisibleBase
    BY <1>2, <1>3, <2>1, RowTyped DEF Visible
  <2>2. CASE a \in ToSet(ids) /\ b \in ToSet(ids)
    BY <1>8, <1>10, <2>2
  <2>3. CASE a \notin ToSet(ids) /\ b \notin ToSet(ids)
    BY <1>10, <2>3 DEF CollectionInv, AccountsFit, Ordered, Exists
  <2>4. CASE a \in ToSet(ids) /\ b \notin ToSet(ids)
    BY <1>3, <1>7, <1>10, <2>1, <2>4
  <2>5. CASE a \notin ToSet(ids) /\ b \in ToSet(ids)
    BY <1>3, <1>7, <1>10, <2>1, <2>5
  <2> QED BY <2>2, <2>3, <2>4, <2>5
<1>13. AccountsFit'
  BY <1>10, <1>11, <1>12 DEF CollectionInv, AccountsFit, Exists
<1>14. \A a \in Accounts : (Exists(a) => Exists(a)') /\ (Active(a) => Active(a)')
  BY <1>10 DEF Active, Visible, Exists
<1>15. LinksFit'
  BY <1>2, <1>14, LinkedAreActive, LinksStay
<1>16. BooksFit'
  BY <1>1, <1>2, <1>14, BooksStay
<1> QED BY <1>1, <1>13, <1>15, <1>16 DEF CollectionInv
\* New links to active accounts, the table of accounts unchanged.
LEMMA Relinked ==
    ASSUME CollectionInv, accounts' = accounts, DOMAIN links' \subseteq Methods,
           links' \in [DOMAIN links' -> Accounts \union {None}],
           \A m \in DOMAIN links' : links'[m] \in Linkable \/ (m \in DOMAIN links /\ links'[m] = links[m]),
           UNCHANGED <<transactions, legs, payments>>
    PROVE  AccountsFit' /\ LinksFit' /\ BooksFit'
<1>1. AccountsFit'
  BY DEF CollectionInv, AccountsFit, Ordered, Exists
<1>2. BooksFit'
  BY DEF CollectionInv, BooksFit, Exists
<1>3. ASSUME NEW m \in DOMAIN links', links'[m] # None PROVE Active(links[m])'
  <2>1. links'[m] \in Linkable => Active(links'[m])
    BY <1>3 DEF Linkable
  <2>2. m \in DOMAIN links /\ links'[m] = links[m] => Active(links'[m])
    BY <1>3 DEF CollectionInv, LinksFit
  <2>3. Active(links'[m])
    BY <2>1, <2>2
  <2> QED BY <2>3 DEF Active, Visible, Exists
<1>4. LinksFit'
  BY <1>3 DEF LinksFit
<1> QED BY <1>1, <1>2, <1>4

LEMMA ReplaceLinksStep ==
    ASSUME CollectionInv, NEW expected, NEW next \in [Methods -> Accounts \union {None}],
           ReplacePaymentMethodLinks(expected, Restrict(next, DOMAIN links))
    PROVE  CollectionInv'
<1>1. ViewsFit' /\ payments' = payments
  BY ConfiguresViews DEF ViewKinds, ReplacePaymentMethodLinks
<1>2. /\ links' = Restrict(next, DOMAIN links) /\ UNCHANGED <<accounts, transactions, legs>>
      /\ \A m \in DOMAIN links' : links'[m] \in Linkable
  BY DEF ReplacePaymentMethodLinks
<1>3. DOMAIN links \subseteq Methods
  BY DEF CollectionInv, LinksFit
<1>4. DOMAIN links' = DOMAIN links /\ links' \in [DOMAIN links' -> Accounts \union {None}]
  BY <1>2, <1>3 DEF Restrict
<1> QED BY <1>1, <1>2, <1>3, <1>4, Relinked DEF CollectionInv

\* The version the group settings give.
LEMMA SettingsViews ==
    ASSUME CollectionInv, Answered("METHODS"), version' = SettingsVersion(accounts', links'),
           version' <= MaxVersion
    PROVE  ViewsFit'
<1>1. version \in Nat
  BY DEF CollectionInv, ViewsFit
<1>2. version' = version \/ version' = version + 1
  BY DEF SettingsVersion
<1>3. version' \in version .. MaxVersion
  BY <1>1, <1>2, ExternalAccountsAssumption
<1>4. version' = version => accounts' = accounts /\ links' = links
  BY <1>1 DEF SettingsVersion
<1> QED BY <1>3, <1>4, ViewsFollow DEF ViewKinds

LEMMA UpdateMethodsStep ==
    ASSUME CollectionInv, NEW S \in SUBSET Methods, NEW next \in [S -> Accounts \union {None}],
           UpdatePaymentMethods(next)
    PROVE  CollectionInv'
<1>1. /\ links' = next /\ UNCHANGED <<accounts, transactions, legs, payments>>
      /\ version' = SettingsVersion(accounts, next) /\ version' <= MaxVersion /\ Answered("METHODS")
      /\ \A m \in DOMAIN next : (m \in DOMAIN links /\ next[m] = links[m]) \/ next[m] \in Linkable
  BY DEF UpdatePaymentMethods
<1>2. ViewsFit'
  BY <1>1, SettingsViews
<1>3. DOMAIN links' \subseteq Methods /\ links' \in [DOMAIN links' -> Accounts \union {None}]
  BY <1>1
<1> QED BY <1>1, <1>2, <1>3, Relinked DEF CollectionInv

\* One method is linked to an account that is active in the new table.
LEMMA MethodLinked ==
    ASSUME CollectionInv, NEW m \in DOMAIN links, NEW a \in Accounts, links' = [links EXCEPT ![m] = a], Active(a)',
           \A b \in Accounts : Active(b) => Active(b)'
    PROVE  LinksFit'
<1>1. /\ DOMAIN links' = DOMAIN links /\ links' \in [DOMAIN links -> Accounts \union {None}]
      /\ \A k \in DOMAIN links : links'[k] = IF k = m THEN a ELSE links[k]
  BY DEF CollectionInv, LinksFit
<1>2. ASSUME NEW k \in DOMAIN links', links'[k] # None PROVE Active(links[k])'
  <2>1. CASE k = m
    BY <1>1, <2>1 DEF Active, Visible, Exists
  <2>2. CASE k # m
    <3>1. links'[k] = links[k] /\ links[k] \in Accounts /\ Active(links[k])
      BY <1>1, <1>2, <2>2 DEF CollectionInv, LinksFit
    <3> QED BY <3>1 DEF Active, Visible, Exists
  <2> QED BY <2>1, <2>2
<1> QED BY <1>1, <1>2 DEF CollectionInv, LinksFit

LEMMA UpdateTargetStep ==
    ASSUME CollectionInv, NEW m \in Methods, NEW target \in Targets,
           UpdatePaymentTarget(m, target)
    PROVE  CollectionInv'
<1>1. PICK resolved \in ResolveLegacyPaymentTarget(m, target) :
        /\ m \in DOMAIN links
        /\ accounts' = resolved.table
        /\ links' = [links EXCEPT ![m] = resolved.id]
        /\ version' = SettingsVersion(accounts', links') /\ version' <= MaxVersion
        /\ UNCHANGED <<transactions, legs, payments>> /\ Answered("METHODS")
  BY DEF UpdatePaymentTarget
<1>2. ViewsFit'
  BY <1>1, SettingsViews
<1> DEFINE a == resolved.id
<1>3. \/ a \in Accounts /\ Active(a) /\ resolved.table = accounts
      \/ a \in Accounts /\ Active(a) /\ resolved.table = [accounts EXCEPT ![a].target = target]
      \/ a \in Accounts /\ ~Exists(a) /\ resolved.table = [accounts EXCEPT ![a] = NewAccount(target)]
  <2>1. CASE Matching(target) # {}
    <3>1. PICK b \in {x \in Matching(target) : Active(x)} : resolved = [id |-> b, table |-> accounts]
      BY <1>1, <2>1 DEF ResolveLegacyPaymentTarget
    <3> QED BY <3>1 DEF Matching
  <2>2. CASE Matching(target) = {} /\ Rewritable(m)
    <3>1. PICK b \in {x \in {links[m]} : TargetFree(target, x)} :
            resolved = [id |-> links[m], table |-> [accounts EXCEPT ![b].target = target]]
      BY <1>1, <2>2 DEF ResolveLegacyPaymentTarget
    <3>2. links[m] \in Accounts /\ Active(links[m])
      BY <1>1, <2>2 DEF Rewritable, CollectionInv, LinksFit
    <3> QED BY <3>1, <3>2
  <2>3. CASE Matching(target) = {} /\ ~Rewritable(m)
    <3>1. PICK b \in {x \in Accounts : ~Exists(x) /\ TargetFree(target, x)} :
            resolved = [id |-> b, table |-> [accounts EXCEPT ![b] = NewAccount(target)]]
      BY <1>1, <2>3 DEF ResolveLegacyPaymentTarget
    <3> QED BY <3>1
  <2> QED BY <2>1, <2>2, <2>3
<1> HIDE DEF a
<1>4. /\ AccountsFit' /\ (\A b \in Accounts : Exists(b) => Exists(b)')
      /\ Active(a)' /\ \A b \in Accounts : Active(b) => Active(b)'
  <2>1. CASE a \in Accounts /\ Active(a) /\ resolved.table = accounts
    <3>1. accounts' = accounts
      BY <1>1, <2>1
    <3> QED BY <2>1, <3>1 DEF CollectionInv, AccountsFit, Ordered, Active, Visible, Exists
  <2>2. CASE a \in Accounts /\ Active(a) /\ resolved.table = [accounts EXCEPT ![a].target = target]
    <3>1. Exists(a) /\ accounts' = [accounts EXCEPT ![a].target = target]
      BY <1>1, <2>2 DEF Active, Visible
    <3> QED BY <2>2, <3>1, TargetChanged
  <2>3. CASE a \in Accounts /\ ~Exists(a) /\ resolved.table = [accounts EXCEPT ![a] = NewAccount(target)]
    <3>1. accounts' = [accounts EXCEPT ![a] = NewAccount(target)]
      BY <1>1, <2>3
    <3> QED BY <2>3, <3>1, AccountAdded
  <2> QED BY <1>3, <2>1, <2>2, <2>3
<1>5. a \in Accounts /\ links' = [links EXCEPT ![m] = a]
  BY <1>1, <1>3 DEF a
<1>6. LinksFit'
  BY <1>1, <1>4, <1>5, MethodLinked
<1>7. BooksFit'
  BY <1>1, <1>4, BooksStay
<1> QED BY <1>2, <1>4, <1>6, <1>7 DEF CollectionInv

\* Reading, the feature switch and stuttering.
LEMMA QuietStep ==
    ASSUME CollectionInv,
           \/ \E v \in Views : ReadAccounts(v) \/ ReadLinks(v) \/ (\E kind \in ViewKinds : ReadVersion(v, kind))
           \/ \E on \in BOOLEAN : SetExternalAccountsEnabled(on)
           \/ UNCHANGED vars
    PROVE  CollectionInv'
<1>1. UNCHANGED <<accounts, links, transactions, legs, payments, version>>
  BY DEF ReadAccounts, ReadLinks, ReadVersion, Reads, SetExternalAccountsEnabled, vars
<1>2. AccountsFit' /\ LinksFit' /\ BooksFit'
  BY <1>1 DEF CollectionInv, AccountsFit, LinksFit, BooksFit, Ordered, Exists, Active, Visible
<1>3. version' \in version .. MaxVersion
  BY <1>1, ExternalAccountsAssumption DEF CollectionInv, ViewsFit
<1>4. ASSUME seen' = seen PROVE ViewsFit'
  BY <1>1, <1>3, <1>4, ViewsStay
<1>5. ViewsFit'
  BY <1>4, ViewsRead DEF SetExternalAccountsEnabled, vars
<1> QED BY <1>2, <1>5 DEF CollectionInv

LEMMA CollectionInit ==
    ASSUME Init
    PROVE  CollectionInv
<1>1. NoAccount \in Account /\ NoAccount.status = "NONE" /\ ~NoAccount.deleted
  BY DEF NoAccount, Account
<1>2. AccountsFit
  BY <1>1 DEF Init, AccountsFit, Ordered
<1>3. LinksFit
  BY DEF Init, LinksFit
<1>4. BooksFit
  <2>1. [status |-> "NONE", amount |-> 0] \in PaymentRow
    BY DEF PaymentRow
  <2>2. transactions \in Seq(Transaction) /\ Len(transactions) = 0 /\ DOMAIN transactions = {}
    BY DEF Init
  <2> QED BY <2>1, <2>2, ExternalAccountsAssumption DEF Init, BooksFit
<1>5. ViewsFit
  <2>1. version \in 1 .. MaxVersion /\ version = 1
    BY ExternalAccountsAssumption DEF Init
  <2>2. IsView(NoView) /\ Shows(NoView)
    BY <2>1 DEF NoView, View, IsView, Shows, ViewKinds
  <2> QED BY <2>1, <2>2 DEF Init, ViewsFit
<1> QED BY <1>2, <1>3, <1>4, <1>5 DEF CollectionInv

LEMMA CollectionStep ==
    ASSUME CollectionInv, [Next]_vars
    PROVE  CollectionInv'
<1>1. CASE UNCHANGED vars
  BY <1>1, QuietStep
<1>2. CASE \/ \E v \in Views, kind \in ViewKinds : ReadVersion(v, kind)
           \/ \E v \in Views : ReadAccounts(v) \/ ReadLinks(v)
  BY <1>2, QuietStep
<1>3. CASE \E on \in BOOLEAN : SetExternalAccountsEnabled(on)
  BY <1>3, QuietStep
<1>4. CASE \E kind \in {"INCOME", "EXPENSE", "TRANSFER"}, a \in Accounts,
              b \in Accounts \union {None}, n \in Amounts : CreateTransaction(kind, a, b, n)
  BY <1>4, CreateTransactionStep
<1>5. CASE \E i \in DOMAIN transactions : ReverseTransaction(i)
  BY <1>5, ReverseTransactionStep
<1>6. CASE \E p \in PaymentIds, m \in Methods, n \in Amounts : CreatePayment(p, m, n)
  BY <1>6, CreatePaymentStep
<1>7. CASE \E p \in PaymentIds : ReversePayment(p)
  BY <1>7, ReversePaymentStep
<1>8. CASE \E expected \in 1 .. MaxVersion, a \in Accounts, t \in Targets \union {None},
              n \in Amounts \union {0} \union {-k : k \in Amounts} : CreateAccount(expected, a, t, n)
  <2>1. PICK expected \in 1 .. MaxVersion, a \in Accounts, t \in Targets \union {None},
             n \in Amounts \union {0} \union {-k : k \in Amounts} : CreateAccount(expected, a, t, n)
    BY <1>8
  <2>2. n \in Int
    <3>1. CASE n \in Amounts
      BY <3>1, ExternalAccountsAssumption
    <3>2. CASE n \in {-k : k \in Amounts}
      <4>1. PICK k \in Amounts : n = -k
        BY <3>2
      <4> QED BY <4>1, ExternalAccountsAssumption
    <3> QED BY <3>1, <3>2
  <2> QED BY <2>1, <2>2, CreateAccountStep
<1>9. CASE \E expected \in 1 .. MaxVersion, a \in Accounts, t \in Targets \union {None} : UpdateAccount(expected, a, t)
  BY <1>9, UpdateAccountStep
<1>10. CASE \E expected \in 1 .. MaxVersion, a \in Accounts, archived \in BOOLEAN : SetAccountArchived(expected, a, archived)
  BY <1>10, SetAccountArchivedStep
<1>11. CASE \E expected \in 1 .. MaxVersion, a \in Accounts : DeleteAccount(expected, a)
  BY <1>11, DeleteAccountStep
<1>12. CASE \E expected \in 1 .. MaxVersion, ids \in SeqOf(Accounts, Cardinality(Accounts)) : ReorderAccounts(expected, ids)
  BY <1>12, ReorderAccountsStep
<1>13. CASE \E expected \in 1 .. MaxVersion, next \in [Methods -> Accounts \union {None}] :
              ReplacePaymentMethodLinks(expected, Restrict(next, DOMAIN links))
  BY <1>13, ReplaceLinksStep
<1>14. CASE \E S \in SUBSET Methods : \E next \in [S -> Accounts \union {None}] :
              UpdatePaymentMethods(next)
  BY <1>14, UpdateMethodsStep
<1>15. CASE \E m \in Methods, t \in Targets : UpdatePaymentTarget(m, t)
  BY <1>15, UpdateTargetStep
<1> QED BY <1>1, <1>2, <1>3, <1>4, <1>5, <1>6, <1>7, <1>8, <1>9, <1>10, <1>11, <1>12, <1>13, <1>14, <1>15 DEF Next

-----------------------------------------------------------------------------
\* Accounts, links, books and views fit each other in every reachable state
\* (package externalaccounts, with the settings of package groups).
THEOREM CollectionFits == Spec => []CollectionInv
<1>1. Init => CollectionInv
  BY CollectionInit
<1>2. CollectionInv /\ [Next]_vars => CollectionInv'
  BY CollectionStep
<1> QED BY <1>1, <1>2, PTL DEF Spec

\* No payment method points to an account that is archived, deleted or gone,
\* history keeps the rows it names, and sort orders stay unique whatever is
\* deleted, restored, reordered or resolved for a legacy client.
THEOREM LinksNeverDangle == Spec => []ConfigurationConsistent
<1>1. CollectionInv => ConfigurationConsistent
  BY InvImpliesConsistent
<1> QED BY <1>1, CollectionFits, PTL

\* Whatever a view with the current collection version has read is what is
\* stored, although it is read query by query while commands commit, and for any
\* number of views: listAccounts, listPaymentMethodLinks and querySettings read
\* the version first, and every change of the configuration raises it.
THEOREM CurrentViewsShowWhatIsStored == Spec => []VersionIdentifiesConfiguration
<1>1. CollectionInv => VersionIdentifiesConfiguration
  BY DEF CollectionInv, ViewsFit, Shows, VersionIdentifiesConfiguration
<1> QED BY <1>1, CollectionFits, PTL

-----------------------------------------------------------------------------
(***************************************************************************)
(* The books.  Every leg on the ledger is one of its header or of a        *)
(* payment into group cash, so what a movement adds, and what its reversal *)
(* takes back, is known from the rows that cause them.                     *)
(***************************************************************************)
Other(t) == IF t.counterparty = None THEN Offset ELSE t.counterparty

LegsOf(i, t) ==
    IF t.payment # None THEN {NewLeg(i, t.payment, t.primary, t.kind = "REVERSAL", t.amount)}
    ELSE {NewLeg(i, None, t.primary, t.kind = "REVERSAL", t.amount),
          NewLeg(i, None, Other(t), t.kind = "REVERSAL", -t.amount)}

CashLegs(p) ==
    IF payments[p].status = "NONE" \/ PaymentTransaction(p) # {} THEN {}
    ELSE IF payments[p].status = "POSTED" THEN {NewLeg(0, p, GroupCash, FALSE, payments[p].amount)}
    ELSE {NewLeg(0, p, GroupCash, FALSE, payments[p].amount), NewLeg(0, p, GroupCash, TRUE, -payments[p].amount)}

\* A payment's header agrees with the payment, a reversal with what it reverses.
PaymentHeader(t) ==
    /\ t.payment # None /\ t.counterparty = None /\ t.reversalOf = 0
    /\ payments[t.payment].status # "NONE" /\ payments[t.payment].amount = t.amount

ReversalHeader(i, t) ==
    /\ t.reversalOf \in 1 .. i - 1
    /\ transactions[t.reversalOf].kind # "REVERSAL"
    /\ transactions[t.reversalOf].primary = t.primary
    /\ transactions[t.reversalOf].counterparty = t.counterparty
    /\ transactions[t.reversalOf].payment = t.payment
    /\ transactions[t.reversalOf].amount = -t.amount
    /\ t.payment # None => payments[t.payment].status = "REVERSED"

HeaderFits(i, t) ==
    /\ t.counterparty # t.primary
    /\ t.kind = "PAYMENT" => PaymentHeader(t)
    /\ t.kind = "REVERSAL" => ReversalHeader(i, t)
    /\ t.kind \notin {"PAYMENT", "REVERSAL"} => t.payment = None /\ t.reversalOf = 0

HistoryFits ==
    /\ \A i \in DOMAIN transactions : HeaderFits(i, transactions[i])
    /\ \A i, j \in DOMAIN transactions :
           transactions[i].reversalOf = transactions[j].reversalOf /\ transactions[i].reversalOf # 0 => i = j
    /\ \A p \in PaymentIds : \A i, j \in PaymentTransaction(p) : i = j
    /\ \A p \in PaymentIds : payments[p].status = "REVERSED" =>
           \A i \in PaymentTransaction(p) : \E j \in DOMAIN transactions : transactions[j].reversalOf = i

AllHeaderLegs == UNION {LegsOf(i, transactions[i]) : i \in DOMAIN transactions}
AllCashLegs   == UNION {CashLegs(p) : p \in PaymentIds}

LegsFit ==
    /\ IsFiniteSet(legs)
    /\ legs = AllHeaderLegs \union AllCashLegs

Posted == {p \in PaymentIds : payments[p].status = "POSTED"}

TotalsFit ==
    /\ IsFiniteSet(Posted)
    /\ SumLegs(legs) = RowSum(payments, Posted)
    /\ \A a \in Accounts : BalanceOf(a) \in -MaxMinor - 1 .. MaxMinor
    /\ \A a \in Accounts : accounts[a].deleted => BalanceOf(a) = 0

MoneyInv == CollectionInv /\ HistoryFits /\ LegsFit /\ TotalsFit

-----------------------------------------------------------------------------
(***************************************************************************)
(* Sums of legs.                                                           *)
(***************************************************************************)
LEMMA LegSums ==
    ASSUME NEW S, S \subseteq Leg, IsFiniteSet(S)
    PROVE  /\ SumLegs({}) = 0
           /\ \A T \in SUBSET S : IsFiniteSet(T) /\ SumLegs(T) \in Int
           /\ \A T, U \in SUBSET S : T \cap U = {} => SumLegs(T \cup U) = SumLegs(T) + SumLegs(U)
           /\ \A x \in S : SumLegs({x}) = x.amount
           /\ \A x, y \in S : x # y => SumLegs({x, y}) = x.amount + y.amount
<1>1. \A l \in S : l.amount \in Int
  BY DEF Leg
<1>2. \A T : SumLegs(T) = AmountSum(T)
  BY Zenon DEF SumLegs, AmountSum
<1>3. /\ AmountSum({}) = 0
      /\ \A T \in SUBSET S : IsFiniteSet(T) /\ AmountSum(T) \in Int
      /\ \A T, U \in SUBSET S : T \cap U = {} => AmountSum(T \cup U) = AmountSum(T) + AmountSum(U)
      /\ \A x \in S : AmountSum({x}) = x.amount
      /\ \A x, y \in S : x # y => AmountSum({x, y}) = x.amount + y.amount
  BY <1>1, AmountFacts
<1> QED BY <1>2, <1>3

\* The header that is about to be inserted, and its two sides.
LEMMA LegsTyped ==
    ASSUME CollectionInv, NEW i \in 0 .. MaxTransactions, NEW t \in Transaction
    PROVE  /\ LegsOf(i, t) \subseteq Leg /\ \A l \in LegsOf(i, t) : l.txn = i /\ l.payment = t.payment
           /\ t.primary \in Accounts /\ Other(t) \in Accounts \union {Offset} /\ t.amount \in Int /\ -t.amount \in Int
           /\ t.primary # Offset /\ t.primary # GroupCash /\ Other(t) # GroupCash /\ Other(t) # None
           /\ t.counterparty # t.primary => Other(t) # t.primary
<1>1. /\ t.primary \in Accounts /\ t.counterparty \in Accounts \union {None} /\ t.amount \in Int
      /\ t.payment \in PaymentIds \union {None} /\ (t.kind = "REVERSAL") \in BOOLEAN
  BY DEF Transaction
<1>2. Other(t) \in Accounts \union {Offset} /\ -t.amount \in Int
  BY <1>1 DEF Other
<1>3. None \notin Accounts /\ Offset \notin Accounts /\ GroupCash \notin Accounts /\ Offset # GroupCash /\ Offset # None
  BY ExternalAccountsAssumption DEF None, Offset, GroupCash
<1>4. t.counterparty # t.primary => Other(t) # t.primary
  BY <1>1, <1>3 DEF Other
<1>5. LegsOf(i, t) \subseteq Leg
  <2> PICK a : a = -t.amount
    OBVIOUS
  <2> PICK r \in BOOLEAN : r = (t.kind = "REVERSAL")
    BY <1>1
  <2>1. a \in Int
    BY <1>2
  <2>2. /\ NewLeg(i, t.payment, t.primary, r, t.amount) \in Leg
        /\ NewLeg(i, None, t.primary, r, t.amount) \in Leg
        /\ NewLeg(i, None, Other(t), r, a) \in Leg
    BY <1>1, <1>2, <2>1, LegTyped
  <2> QED BY <2>2 DEF LegsOf
<1>6. \A l \in LegsOf(i, t) : l.txn = i /\ l.payment = t.payment
  BY DEF LegsOf, NewLeg
<1>7. t.primary # Offset /\ t.primary # GroupCash /\ Other(t) # GroupCash /\ Other(t) # None
  BY <1>1, <1>2, <1>3
<1> QED BY <1>1, <1>2, <1>4, <1>5, <1>6, <1>7

LEMMA LegsKnown ==
    ASSUME MoneyInv
    PROVE  /\ \A l \in legs : \/ \E i \in DOMAIN transactions : l \in LegsOf(i, transactions[i])
                              \/ \E p \in PaymentIds : l \in CashLegs(p)
           /\ \A i \in DOMAIN transactions : LegsOf(i, transactions[i]) \subseteq legs
           /\ \A p \in PaymentIds : CashLegs(p) \subseteq legs
           /\ legs \subseteq Leg /\ IsFiniteSet(legs)
           /\ \A p \in PaymentIds : \A l \in CashLegs(p) : l.txn = 0 /\ l.payment = p /\ l.account = GroupCash
           /\ \A l \in legs : l.txn \in 0 .. Len(transactions)
           /\ Len(transactions) \in Nat /\ DOMAIN transactions = 1 .. Len(transactions)
           /\ \A i \in DOMAIN transactions :
                /\ transactions[i] \in Transaction /\ i \in 0 .. MaxTransactions
                /\ \A l \in LegsOf(i, transactions[i]) : l.txn = i /\ l.payment = transactions[i].payment
<1>1. legs \subseteq Leg /\ transactions \in Seq(Transaction)
  BY DEF MoneyInv, CollectionInv, BooksFit
<1>2. Len(transactions) \in Nat /\ DOMAIN transactions = 1 .. Len(transactions)
  BY <1>1
<1>3. /\ \A l \in legs : \/ \E i \in DOMAIN transactions : l \in LegsOf(i, transactions[i])
                         \/ \E p \in PaymentIds : l \in CashLegs(p)
      /\ \A i \in DOMAIN transactions : LegsOf(i, transactions[i]) \subseteq legs
      /\ \A p \in PaymentIds : CashLegs(p) \subseteq legs
      /\ IsFiniteSet(legs)
  <2>1. IsFiniteSet(legs) /\ legs = AllHeaderLegs \union AllCashLegs
    BY DEF MoneyInv, LegsFit
  <2>2. \A l : l \in AllHeaderLegs <=> \E i \in DOMAIN transactions : l \in LegsOf(i, transactions[i])
    BY DEF AllHeaderLegs
  <2>3. \A l : l \in AllCashLegs <=> \E p \in PaymentIds : l \in CashLegs(p)
    BY DEF AllCashLegs
  <2> QED BY <2>1, <2>2, <2>3
<1>4. \A p \in PaymentIds : \A l \in CashLegs(p) : l.txn = 0 /\ l.payment = p /\ l.account = GroupCash
  BY DEF CashLegs, NewLeg
<1>5. \A i \in DOMAIN transactions :
        /\ transactions[i] \in Transaction /\ i \in 0 .. MaxTransactions
        /\ \A l \in LegsOf(i, transactions[i]) : l.txn = i /\ l.payment = transactions[i].payment
  BY TransactionTyped, LegsTyped DEF MoneyInv
<1>6. \A l \in legs : l.txn \in 0 .. Len(transactions)
  BY <1>2, <1>3, <1>4, <1>5
<1> QED BY <1>1, <1>2, <1>3, <1>4, <1>5, <1>6

\* What the legs of one header add to one place.
Share(t, a) ==
    IF a = t.primary THEN t.amount
    ELSE IF t.payment = None /\ a = Other(t) THEN -t.amount
    ELSE 0

LEMMA LegsOfOne ==
    ASSUME CollectionInv, NEW i \in 0 .. MaxTransactions, NEW t \in Transaction, t.counterparty # t.primary
    PROVE  /\ IsFiniteSet(LegsOf(i, t))
           /\ SumLegs(LegsOf(i, t)) = IF t.payment = None THEN 0 ELSE t.amount
           /\ \A a : SumLegs({l \in LegsOf(i, t) : l.account = a}) = Share(t, a) /\ Share(t, a) \in Int
           /\ \A a : Share(t, a) # 0 => \E l \in LegsOf(i, t) : l.account = a /\ l.amount = Share(t, a)
           /\ \A a : Share(t, a) # 0 => a \in Accounts \union {Offset} /\ (a \in Accounts => a \in Named(t))
<1>1. /\ LegsOf(i, t) \subseteq Leg /\ t.primary # Offset /\ Other(t) # t.primary
      /\ t.amount \in Int /\ -t.amount \in Int /\ t.primary \in Accounts /\ Other(t) \in Accounts \union {Offset}
  BY LegsTyped
<1>0. None \notin Accounts /\ Offset \notin Accounts
  BY ExternalAccountsAssumption DEF None, Offset
<1> PICK r : r = (t.kind = "REVERSAL")
  OBVIOUS
<1> PICK d : d = -t.amount
  OBVIOUS
<1>2. d \in Int /\ t.amount + d = 0
  BY <1>1
<1>n. \A a : a \in {t.primary, Other(t)} => a \in Accounts \union {Offset} /\ (a \in Accounts => a \in Named(t))
  BY <1>0, <1>1 DEF Named, Other
<1>3. CASE t.payment # None
  <2> PICK x : x = NewLeg(i, t.payment, t.primary, r, t.amount)
    OBVIOUS
  <2>1. LegsOf(i, t) = {x} /\ x.account = t.primary /\ x.amount = t.amount
    BY <1>3 DEF LegsOf, NewLeg
  <2>2. x \in Leg /\ IsFiniteSet({x})
    BY <1>1, <2>1, FS_Singleton
  <2>3. SumLegs({}) = 0 /\ SumLegs({x}) = t.amount
    BY <2>1, <2>2, LegSums
  <2>4. \A a : {l \in {x} : l.account = a} = IF a = t.primary THEN {x} ELSE {}
    BY <2>1
  <2>5. \A a : Share(t, a) = IF a = t.primary THEN t.amount ELSE 0
    BY <1>3 DEF Share
  <2>6. \A a : SumLegs({l \in LegsOf(i, t) : l.account = a}) = Share(t, a) /\ Share(t, a) \in Int
    <3> SUFFICES ASSUME NEW a
                 PROVE  SumLegs({l \in LegsOf(i, t) : l.account = a}) = Share(t, a) /\ Share(t, a) \in Int
      OBVIOUS
    <3> PICK U : U = {l \in {x} : l.account = a}
      OBVIOUS
    <3>1. CASE a = t.primary
      BY <1>1, <2>1, <2>3, <2>4, <2>5, <3>1
    <3>2. CASE a # t.primary
      BY <1>1, <2>1, <2>3, <2>4, <2>5, <3>2
    <3> QED BY <3>1, <3>2
  <2>7. \A a : Share(t, a) # 0 => a = t.primary /\ \E l \in LegsOf(i, t) : l.account = a /\ l.amount = Share(t, a)
    BY <2>1, <2>5
  <2> QED BY <1>3, <1>n, <2>1, <2>2, <2>3, <2>6, <2>7
<1>4. CASE t.payment = None
  <2> PICK x, y : x = NewLeg(i, None, t.primary, r, t.amount) /\ y = NewLeg(i, None, Other(t), r, d)
    OBVIOUS
  <2>1. /\ LegsOf(i, t) = {x, y} /\ x.account = t.primary /\ x.amount = t.amount
        /\ y.account = Other(t) /\ y.amount = d /\ x # y
    BY <1>1, <1>4 DEF LegsOf, NewLeg
  <2>2. x \in Leg /\ y \in Leg /\ IsFiniteSet({x, y})
    <3>0. IsFiniteSet({x}) /\ {x} \union {y} = {x, y}
      BY FS_Singleton
    <3>1. IsFiniteSet({x} \union {y}) /\ {x} \union {y} = {x, y}
      BY <3>0, FS_AddElement
    <3>2. IsFiniteSet({x, y})
      BY <3>1
    <3> QED BY <1>1, <2>1, <3>2
  <2>3. SumLegs({}) = 0 /\ SumLegs({x}) = t.amount /\ SumLegs({y}) = d /\ SumLegs({x, y}) = 0
    BY <1>2, <2>1, <2>2, LegSums
  <2>4. \A a : {l \in {x, y} : l.account = a} = IF a = t.primary THEN {x} ELSE IF a = Other(t) THEN {y} ELSE {}
    BY <1>1, <2>1
  <2>5. \A a : Share(t, a) = IF a = t.primary THEN t.amount ELSE IF a = Other(t) THEN d ELSE 0
    BY <1>4 DEF Share
  <2>6. \A a : SumLegs({l \in LegsOf(i, t) : l.account = a}) = Share(t, a) /\ Share(t, a) \in Int
    <3> SUFFICES ASSUME NEW a
                 PROVE  SumLegs({l \in LegsOf(i, t) : l.account = a}) = Share(t, a) /\ Share(t, a) \in Int
      OBVIOUS
    <3>1. CASE a = t.primary
      <4>1. {l \in LegsOf(i, t) : l.account = a} = {x}
        BY <2>1, <2>4, <3>1
      <4> QED BY <1>1, <2>3, <2>5, <3>1, <4>1
    <3>2. CASE a # t.primary /\ a = Other(t)
      <4>1. {l \in LegsOf(i, t) : l.account = a} = {y}
        BY <2>1, <2>4, <3>2
      <4> QED BY <1>2, <2>3, <2>5, <3>2, <4>1
    <3>3. CASE a # t.primary /\ a # Other(t)
      <4>1. {l \in LegsOf(i, t) : l.account = a} = {}
        BY <2>1, <2>4, <3>3
      <4> QED BY <2>3, <2>5, <3>3, <4>1
    <3> QED BY <3>1, <3>2, <3>3
  <2>7. \A a : Share(t, a) # 0 => a \in {t.primary, Other(t)}
                                   /\ \E l \in LegsOf(i, t) : l.account = a /\ l.amount = Share(t, a)
    BY <2>1, <2>5
  <2> QED BY <1>4, <1>n, <2>1, <2>2, <2>3, <2>6, <2>7
<1> QED BY <1>3, <1>4

-----------------------------------------------------------------------------
(***************************************************************************)
(* One more header, with its legs.                                         *)
(***************************************************************************)
LEMMA Inserted ==
    ASSUME MoneyInv, NEW t \in Transaction, t.counterparty # t.primary, Insert(t, LegsOf(NextTransaction, t))
    PROVE  /\ NextTransaction = Len(transactions) + 1 /\ NextTransaction \in 1 .. MaxTransactions
           /\ DOMAIN transactions' = DOMAIN transactions \union {NextTransaction}
           /\ NextTransaction \notin DOMAIN transactions
           /\ transactions'[NextTransaction] = t
           /\ \A i \in DOMAIN transactions : transactions'[i] = transactions[i]
           /\ IsFiniteSet(legs') /\ AllHeaderLegs' = AllHeaderLegs \union LegsOf(NextTransaction, t)
           /\ legs' = legs \union LegsOf(NextTransaction, t)
           /\ SumLegs(legs)' = SumLegs(legs) + (IF t.payment = None THEN 0 ELSE t.amount)
           /\ \A a : BalanceOf(a)' = BalanceOf(a) + Share(t, a)
           /\ \A a \in Accounts : BalanceOf(a)' \in -MaxMinor - 1 .. MaxMinor
<1> PICK N, E : N = NextTransaction /\ E = LegsOf(N, t)
  OBVIOUS
<1>1. /\ Len(transactions) \in Nat /\ DOMAIN transactions = 1 .. Len(transactions)
      /\ \A l \in legs : l.txn \in 0 .. Len(transactions)
      /\ legs \subseteq Leg /\ IsFiniteSet(legs)
  BY LegsKnown
<1>2. /\ N <= MaxTransactions /\ transactions' = Append(transactions, t) /\ legs' = legs \union E
      /\ \A l \in E : l.account \in Accounts => Representable(l.account, l.amount)
  BY DEF Insert
<1>3. N = Len(transactions) + 1 /\ N \in 1 .. MaxTransactions /\ N \in 0 .. MaxTransactions
  BY <1>1, <1>2, ExternalAccountsAssumption DEF NextTransaction
<1>4. /\ DOMAIN transactions' = DOMAIN transactions \union {N} /\ N \notin DOMAIN transactions
      /\ transactions'[N] = t /\ \A i \in DOMAIN transactions : transactions'[i] = transactions[i]
  <2>1. transactions \in Seq(Transaction)
    BY DEF MoneyInv, CollectionInv, BooksFit
  <2>2. /\ Len(transactions') = N /\ DOMAIN transactions' = 1 .. N /\ transactions'[N] = t
        /\ \A i \in 1 .. Len(transactions) : transactions'[i] = transactions[i]
    BY <1>2, <1>3, <2>1
  <2> QED BY <1>1, <1>3, <2>2
<1>5. /\ IsFiniteSet(E) /\ E \subseteq Leg
      /\ SumLegs(E) = IF t.payment = None THEN 0 ELSE t.amount
      /\ \A a : SumLegs({l \in E : l.account = a}) = Share(t, a) /\ Share(t, a) \in Int
      /\ \A a : Share(t, a) # 0 => \E l \in E : l.account = a /\ l.amount = Share(t, a)
  BY <1>3, LegsTyped, LegsOfOne DEF MoneyInv
<1>6. \A l \in E : l.txn = N
  BY <1>3, LegsTyped DEF MoneyInv
<1>7. legs \cap E = {}
  <2> SUFFICES ASSUME NEW l \in legs, l \in E PROVE FALSE
    OBVIOUS
  <2>1. l.txn = N /\ l.txn \in 0 .. Len(transactions)
    BY <1>1, <1>6
  <2> QED BY <1>1, <1>3, <2>1
<1>8. legs \union E \subseteq Leg /\ IsFiniteSet(legs \union E)
  BY <1>1, <1>5, FS_Union
<1>9. /\ \A T \in SUBSET (legs \union E) : SumLegs(T) \in Int
      /\ \A T, U \in SUBSET (legs \union E) : T \cap U = {} => SumLegs(T \cup U) = SumLegs(T) + SumLegs(U)
  BY <1>8, LegSums
<1>10. SumLegs(legs') = SumLegs(legs) + SumLegs(E)
  BY <1>2, <1>7, <1>9
<1>11. ASSUME NEW a PROVE BalanceOf(a)' = BalanceOf(a) + Share(t, a) /\ BalanceOf(a) \in Int
  <2> DEFINE L == {l \in legs : l.account = a}
             M == {l \in E : l.account = a}
  <2>1. {l \in legs' : l.account = a} = L \union M
    BY <1>2
  <2>2. L \cap M = {} /\ L \in SUBSET (legs \union E) /\ M \in SUBSET (legs \union E)
    BY <1>7
  <2>3. SumLegs(M) = Share(t, a)
    BY <1>5
  <2> HIDE DEF L, M
  <2>4. SumLegs(L \union M) = SumLegs(L) + SumLegs(M) /\ SumLegs(L) \in Int
    BY <1>9, <2>2
  <2>5. BalanceOf(a) = SumLegs(L) /\ BalanceOf(a)' = SumLegs({l \in legs' : l.account = a})
    BY DEF BalanceOf, LegsOn, L
  <2> QED BY <2>1, <2>3, <2>4, <2>5
<1>12. ASSUME NEW a \in Accounts PROVE BalanceOf(a)' \in -MaxMinor - 1 .. MaxMinor
  <2>1. CASE Share(t, a) = 0
    <3>1. BalanceOf(a)' = BalanceOf(a)
      BY <1>11, <2>1
    <3> QED BY <3>1 DEF MoneyInv, TotalsFit
  <2>2. CASE Share(t, a) # 0
    <3>1. PICK l \in E : l.account = a /\ l.amount = Share(t, a)
      BY <1>5, <2>2
    <3>2. Representable(a, Share(t, a))
      BY <1>2, <3>1
    <3> QED BY <1>11, <3>2 DEF Representable
  <2> QED BY <2>1, <2>2
<1>13. AllHeaderLegs' = AllHeaderLegs \union E
  <2>1. \A l : l \in AllHeaderLegs <=> \E i \in DOMAIN transactions : l \in LegsOf(i, transactions[i])
    BY DEF AllHeaderLegs
  <2>2. \A l : l \in AllHeaderLegs' <=> \E i \in DOMAIN transactions' : l \in LegsOf(i, transactions'[i])
    BY DEF AllHeaderLegs, LegsOf, NewLeg, Other
  <2>3. \A i \in DOMAIN transactions : LegsOf(i, transactions'[i]) = LegsOf(i, transactions[i])
    BY <1>4
  <2>4. LegsOf(N, transactions'[N]) = E
    BY <1>4
  <2> QED BY <1>4, <2>1, <2>2, <2>3, <2>4
<1> QED BY <1>2, <1>3, <1>4, <1>5, <1>8, <1>10, <1>11, <1>12, <1>13

\* Payments are posted once, keep their amount and stay reversed.
PaymentsGrow ==
    \A p \in PaymentIds :
        /\ payments[p].status # "NONE" => payments'[p].status # "NONE" /\ payments'[p].amount = payments[p].amount
        /\ payments[p].status = "REVERSED" => payments'[p].status = "REVERSED"

LEMMA HeadersStay ==
    ASSUME MoneyInv, PaymentsGrow, DOMAIN transactions \subseteq DOMAIN transactions',
           \A i \in DOMAIN transactions : transactions'[i] = transactions[i],
           NEW i \in DOMAIN transactions
    PROVE  HeaderFits(i, transactions[i])'
<1> PICK t : t = transactions[i] /\ t = transactions'[i]
  OBVIOUS
<1>1. HeaderFits(i, t) /\ t \in Transaction /\ i \in 1 .. Len(transactions)
      /\ DOMAIN transactions = 1 .. Len(transactions) /\ Len(transactions) \in Nat
  BY LegsKnown DEF MoneyInv, HistoryFits
<1>2. t.payment # None => t.payment \in PaymentIds
  BY <1>1 DEF Transaction
<1>3. ASSUME t.kind = "PAYMENT" PROVE PaymentHeader(t)'
  BY <1>1, <1>2, <1>3 DEF HeaderFits, PaymentHeader, PaymentsGrow
<1>4. ASSUME t.kind = "REVERSAL" PROVE ReversalHeader(i, t)'
  <2>1. ReversalHeader(i, t)
    BY <1>1, <1>4 DEF HeaderFits
  <2>2. t.reversalOf \in DOMAIN transactions
    BY <1>1, <2>1 DEF ReversalHeader
  <2>3. transactions'[t.reversalOf] = transactions[t.reversalOf]
    BY <2>2
  <2>4. t.payment # None => payments'[t.payment].status = "REVERSED"
    BY <1>2, <2>1 DEF ReversalHeader, PaymentsGrow
  <2> QED BY <2>1, <2>3, <2>4 DEF ReversalHeader
<1> QED BY <1>1, <1>3, <1>4 DEF HeaderFits

LEMMA PaymentHeaders ==
    ASSUME MoneyInv, NEW t \in Transaction, t.counterparty # t.primary, Insert(t, LegsOf(NextTransaction, t)),
           NEW p
    PROVE  PaymentTransaction(p)' = PaymentTransaction(p)
               \union (IF t.kind = "PAYMENT" /\ t.payment = p THEN {NextTransaction} ELSE {})
<1> PICK N : N = NextTransaction
  OBVIOUS
<1>1. /\ DOMAIN transactions' = DOMAIN transactions \union {N} /\ transactions'[N] = t
      /\ N \notin DOMAIN transactions
      /\ \A i \in DOMAIN transactions : transactions'[i] = transactions[i]
  BY Inserted
<1>2. \A i : i \in PaymentTransaction(p)' <=>
         i \in DOMAIN transactions' /\ transactions'[i].kind = "PAYMENT" /\ transactions'[i].payment = p
  BY DEF PaymentTransaction
<1>3. \A i : i \in PaymentTransaction(p) <=>
         i \in DOMAIN transactions /\ transactions[i].kind = "PAYMENT" /\ transactions[i].payment = p
  BY DEF PaymentTransaction
<1> QED BY <1>1, <1>2, <1>3

\* Group cash is not touched by a payment that has a header.
LEMMA CashStays ==
    ASSUME MoneyInv, NEW t \in Transaction, t.counterparty # t.primary, Insert(t, LegsOf(NextTransaction, t)),
           \A q \in PaymentIds : q # t.payment => payments'[q] = payments[q],
           t.payment # None => \/ payments[t.payment].status = "NONE" /\ t.kind = "PAYMENT"
                              \/ PaymentTransaction(t.payment) # {},
           t.kind = "PAYMENT" => t.payment # None
    PROVE  AllCashLegs' = AllCashLegs
<1>1. \A p \in PaymentIds : p # t.payment => PaymentTransaction(p)' = PaymentTransaction(p)
  BY PaymentHeaders
<1>2. t.payment # None => PaymentTransaction(t.payment)' # {}
  BY PaymentHeaders
<1>3. ASSUME NEW p \in PaymentIds PROVE CashLegs(p)' = CashLegs(p)
  <2>1. CASE p # t.payment
    BY <1>1, <2>1 DEF CashLegs, NewLeg
  <2>2. CASE p = t.payment
    <3>1. p # None
      BY ExternalAccountsAssumption
    <3>2. CashLegs(p)' = {}
      BY <1>2, <2>2, <3>1 DEF CashLegs
    <3>3. CashLegs(p) = {}
      BY <2>2, <3>1 DEF CashLegs
    <3> QED BY <3>2, <3>3
  <2> QED BY <2>1, <2>2
<1>4. \A l : l \in AllCashLegs <=> \E p \in PaymentIds : l \in CashLegs(p)
  BY DEF AllCashLegs
<1>5. \A l : l \in AllCashLegs' <=> \E p \in PaymentIds : l \in CashLegs(p)'
  BY DEF AllCashLegs
<1> QED BY <1>3, <1>4, <1>5

LEMMA HeaderInserted ==
    ASSUME MoneyInv, CollectionInv', NEW t \in Transaction, NEW N, N = NextTransaction, Insert(t, LegsOf(N, t)),
           HeaderFits(N, t)', PaymentsGrow,
           t.reversalOf # 0 => \A j \in DOMAIN transactions : transactions[j].reversalOf # t.reversalOf,
           t.kind = "PAYMENT" => PaymentTransaction(t.payment) = {} /\ payments'[t.payment].status # "REVERSED",
           \A p \in PaymentIds : payments'[p].status = "REVERSED" /\ payments[p].status # "REVERSED" =>
               \A i \in PaymentTransaction(p) : i = t.reversalOf,
           AllCashLegs' = AllCashLegs,
           IsFiniteSet(Posted'),
           RowSum(payments, Posted)' = RowSum(payments, Posted) + (IF t.payment = None THEN 0 ELSE t.amount),
           \A a \in Accounts : accounts'[a].deleted => BalanceOf(a)' = 0
    PROVE  MoneyInv'
<1>0. t.counterparty # t.primary
  BY DEF HeaderFits
<1>1. /\ DOMAIN transactions' = DOMAIN transactions \union {N} /\ N \notin DOMAIN transactions
      /\ transactions'[N] = t
      /\ \A i \in DOMAIN transactions : transactions'[i] = transactions[i]
      /\ IsFiniteSet(legs') /\ AllHeaderLegs' = AllHeaderLegs \union LegsOf(N, t)
      /\ legs' = legs \union LegsOf(N, t)
      /\ SumLegs(legs)' = SumLegs(legs) + (IF t.payment = None THEN 0 ELSE t.amount)
      /\ \A a \in Accounts : BalanceOf(a)' \in -MaxMinor - 1 .. MaxMinor
  BY <1>0, Inserted
<1>2. ASSUME NEW i \in DOMAIN transactions' PROVE HeaderFits(i, transactions[i])'
  <2>1. CASE i \in DOMAIN transactions
    BY <1>1, <2>1, HeadersStay
  <2>2. CASE i = N
    <3>1. HeaderFits(N, t)' = HeaderFits(N, transactions[N])'
      BY <1>1 DEF HeaderFits, PaymentHeader, ReversalHeader
    <3> QED BY <2>2, <3>1
  <2> QED BY <1>1, <2>1, <2>2
<1>3. ASSUME NEW i \in DOMAIN transactions', NEW j \in DOMAIN transactions',
             transactions'[i].reversalOf = transactions'[j].reversalOf, transactions'[i].reversalOf # 0
      PROVE  i = j
  <2>1. CASE i \in DOMAIN transactions /\ j \in DOMAIN transactions
    BY <1>1, <1>3, <2>1 DEF MoneyInv, HistoryFits
  <2>2. CASE i = N /\ j \in DOMAIN transactions
    BY <1>1, <1>3, <2>2
  <2>3. CASE j = N /\ i \in DOMAIN transactions
    BY <1>1, <1>3, <2>3
  <2> QED BY <1>1, <2>1, <2>2, <2>3
<1>4. \A p : PaymentTransaction(p)' = PaymentTransaction(p)
               \union (IF t.kind = "PAYMENT" /\ t.payment = p THEN {N} ELSE {})
  BY <1>0, PaymentHeaders
<1>5. ASSUME NEW p \in PaymentIds, NEW i \in PaymentTransaction(p)', NEW j \in PaymentTransaction(p)'
      PROVE  i = j
  <2>1. CASE t.kind = "PAYMENT" /\ t.payment = p
    BY <1>4, <1>5, <2>1
  <2>2. CASE ~(t.kind = "PAYMENT" /\ t.payment = p)
    <3>1. i \in PaymentTransaction(p) /\ j \in PaymentTransaction(p)
      BY <1>4, <1>5, <2>2
    <3> QED BY <3>1 DEF MoneyInv, HistoryFits
  <2> QED BY <2>1, <2>2
<1>6. ASSUME NEW p \in PaymentIds, payments'[p].status = "REVERSED", NEW i \in PaymentTransaction(p)'
      PROVE  \E j \in DOMAIN transactions' : transactions'[j].reversalOf = i
  <2>1. ~(t.kind = "PAYMENT" /\ t.payment = p)
    BY <1>6
  <2>2. i \in PaymentTransaction(p)
    BY <1>4, <1>6, <2>1
  <2>3. CASE payments[p].status = "REVERSED"
    <3>1. PICK j \in DOMAIN transactions : transactions[j].reversalOf = i
      BY <2>2, <2>3 DEF MoneyInv, HistoryFits
    <3> QED BY <1>1, <3>1
  <2>4. CASE payments[p].status # "REVERSED"
    <3>1. i = t.reversalOf
      BY <1>6, <2>2, <2>4
    <3> QED BY <1>1, <3>1
  <2> QED BY <2>3, <2>4
<1>7. HistoryFits'
  BY <1>2, <1>3, <1>5, <1>6 DEF HistoryFits
<1>8. LegsFit'
  <2>1. legs = AllHeaderLegs \union AllCashLegs
    BY DEF MoneyInv, LegsFit
  <2>2. legs' = AllHeaderLegs' \union AllCashLegs'
    BY <1>1, <2>1
  <2> QED BY <1>1, <2>2 DEF LegsFit
<1>9. TotalsFit'
  <2>1. SumLegs(legs) = RowSum(payments, Posted)
    BY DEF MoneyInv, TotalsFit
  <2>2. SumLegs(legs)' = RowSum(payments, Posted)'
    BY <1>1, <2>1
  <2> QED BY <1>1, <2>2 DEF TotalsFit
<1> QED BY <1>7, <1>8, <1>9 DEF MoneyInv

-----------------------------------------------------------------------------
(***************************************************************************)
(* Totals of the payments that count.                                      *)
(***************************************************************************)
LEMMA PostedSums ==
    ASSUME NEW f, f \in [PaymentIds -> PaymentRow], NEW S \in SUBSET PaymentIds, IsFiniteSet(S)
    PROVE  /\ RowSum(f, S) \in Int
           /\ \A p \in PaymentIds \ S : IsFiniteSet(S \union {p}) /\ RowSum(f, S \union {p}) = RowSum(f, S) + f[p].amount
           /\ \A p \in S : IsFiniteSet(S \ {p}) /\ RowSum(f, S) = f[p].amount + RowSum(f, S \ {p})
           /\ \A g : (\A p \in S : g[p].amount = f[p].amount) => RowSum(g, S) = RowSum(f, S)
<1> PICK w : w = [p \in PaymentIds |-> f[p].amount]
  OBVIOUS
<1>1. \A p \in PaymentIds : w[p] = f[p].amount /\ w[p] \in Int
  BY DEF PaymentRow
<1>2. \A T \in SUBSET PaymentIds : RowSum(f, T) = Total(w, T)
  BY <1>1, RowsTotal
<1>3. RowSum(f, S) \in Int
  BY <1>1, <1>2, SumRemove
<1>4. ASSUME NEW p \in PaymentIds \ S
      PROVE  IsFiniteSet(S \union {p}) /\ RowSum(f, S \union {p}) = RowSum(f, S) + f[p].amount
  <2>0. p \notin S /\ w[p] \in Int /\ \A x \in S : w[x] \in Int
    BY <1>1
  <2>1. IsFiniteSet(S \union {p}) /\ Total(w, S \union {p}) = Total(w, S) + w[p]
    <3>1. IsFiniteSet(S \union {p})
      BY FS_AddElement
    <3>2. Total(w, S \union {p}) = Total(w, S) + w[p]
      BY ONLY <2>0, SumAdd, IsFiniteSet(S)
    <3> QED BY <3>1, <3>2
  <2>2. RowSum(f, S \union {p}) = Total(w, S \union {p}) /\ RowSum(f, S) = Total(w, S)
    BY <1>2
  <2> QED BY <1>1, <2>1, <2>2
<1>5. ASSUME NEW p \in S
      PROVE  IsFiniteSet(S \ {p}) /\ RowSum(f, S) = f[p].amount + RowSum(f, S \ {p})
  <2>1. Total(w, S) = w[p] + Total(w, S \ {p})
    BY <1>1, SumRemove
  <2>2. RowSum(f, S \ {p}) = Total(w, S \ {p}) /\ RowSum(f, S) = Total(w, S)
    BY <1>2
  <2>3. IsFiniteSet(S \ {p})
    BY FS_Subset
  <2> QED BY <1>1, <2>1, <2>2, <2>3
<1>6. ASSUME NEW g, \A p \in S : g[p].amount = f[p].amount
      PROVE  RowSum(g, S) = RowSum(f, S)
  <2>1. \A p \in S : w[p] = g[p].amount
    BY <1>1, <1>6
  <2>2. RowSum(g, S) = Total(w, S)
    BY <2>1, RowsTotal
  <2> QED BY <1>2, <2>2
<1> QED BY <1>3, <1>4, <1>5, <1>6

LEMMA PostedAdds ==
    ASSUME MoneyInv, CollectionInv', NEW p \in PaymentIds, payments[p].status = "NONE", NEW n \in Int,
           payments' = [payments EXCEPT ![p] = [status |-> "POSTED", amount |-> n]]
    PROVE  IsFiniteSet(Posted') /\ RowSum(payments, Posted)' = RowSum(payments, Posted) + n /\ PaymentsGrow
<1>1. payments \in [PaymentIds -> PaymentRow] /\ payments' \in [PaymentIds -> PaymentRow]
  BY DEF MoneyInv, CollectionInv, BooksFit
<1>2. \A q \in PaymentIds : payments'[q] = IF q = p THEN [status |-> "POSTED", amount |-> n] ELSE payments[q]
  BY <1>1
<1>3. IsFiniteSet(Posted) /\ Posted \in SUBSET PaymentIds /\ p \notin Posted
  BY DEF MoneyInv, TotalsFit, Posted
<1>4. Posted' = Posted \union {p} /\ payments'[p].amount = n
  BY <1>2 DEF Posted
<1>5. \A q \in Posted : payments[q].amount = payments'[q].amount
  BY <1>2, <1>3
<1>6. RowSum(payments', Posted \union {p}) = RowSum(payments', Posted) + payments'[p].amount
      /\ IsFiniteSet(Posted \union {p})
  BY <1>1, <1>3, PostedSums
<1>7. RowSum(payments, Posted) = RowSum(payments', Posted)
  BY <1>1, <1>3, <1>5, PostedSums
<1>8. PaymentsGrow
  BY <1>2 DEF PaymentsGrow
<1> QED BY <1>4, <1>6, <1>7, <1>8

LEMMA PostedLeaves ==
    ASSUME MoneyInv, CollectionInv', NEW p \in PaymentIds, payments[p].status = "POSTED",
           payments' = [payments EXCEPT ![p].status = "REVERSED"]
    PROVE  /\ IsFiniteSet(Posted') /\ RowSum(payments, Posted)' = RowSum(payments, Posted) + (-payments[p].amount)
           /\ PaymentsGrow /\ payments'[p].status = "REVERSED" /\ payments'[p].amount = payments[p].amount
           /\ \A q \in PaymentIds : q # p => payments'[q] = payments[q]
<1>1. payments \in [PaymentIds -> PaymentRow] /\ payments' \in [PaymentIds -> PaymentRow]
  BY DEF MoneyInv, CollectionInv, BooksFit
<1>2. \A q \in PaymentIds : q # p => payments'[q] = payments[q]
  BY <1>1
<1>3. payments'[p].status = "REVERSED" /\ payments'[p].amount = payments[p].amount /\ payments[p].amount \in Int
  BY <1>1 DEF PaymentRow
<1>4. IsFiniteSet(Posted) /\ Posted \in SUBSET PaymentIds /\ p \in Posted
  BY DEF MoneyInv, TotalsFit, Posted
<1>5. Posted' = Posted \ {p}
  BY <1>2, <1>3 DEF Posted
<1>6. RowSum(payments, Posted) = payments[p].amount + RowSum(payments, Posted \ {p}) /\ IsFiniteSet(Posted \ {p})
  BY <1>1, <1>4, PostedSums
<1>a. Posted \ {p} \in SUBSET PaymentIds
  BY <1>4
<1>7. \A q \in Posted \ {p} : payments'[q].amount = payments[q].amount
  BY <1>2, <1>4
<1>8. RowSum(payments', Posted \ {p}) = RowSum(payments, Posted \ {p}) /\ RowSum(payments, Posted \ {p}) \in Int
  <2> PICK f, g, R : f = payments /\ g = payments' /\ R = Posted \ {p}
    OBVIOUS
  <2>1. f \in [PaymentIds -> PaymentRow] /\ R \in SUBSET PaymentIds /\ IsFiniteSet(R)
        /\ \A q \in R : g[q].amount = f[q].amount
    BY <1>1, <1>6, <1>7, <1>a
  <2>2. RowSum(g, R) = RowSum(f, R) /\ RowSum(f, R) \in Int
    BY ONLY <2>1, PostedSums
  <2> QED BY <2>2
<1>9. PaymentsGrow
  BY <1>2, <1>3 DEF PaymentsGrow
<1> QED BY <1>2, <1>3, <1>5, <1>6, <1>8, <1>9

LEMMA Unposted ==
    ASSUME MoneyInv, NEW p \in PaymentIds, payments[p].status = "NONE"
    PROVE  PaymentTransaction(p) = {}
<1> SUFFICES ASSUME NEW i \in PaymentTransaction(p) PROVE FALSE
  OBVIOUS
<1>1. i \in DOMAIN transactions /\ transactions[i].kind = "PAYMENT" /\ transactions[i].payment = p
  BY DEF PaymentTransaction
<1> QED BY <1>1 DEF MoneyInv, HistoryFits, HeaderFits, PaymentHeader

-----------------------------------------------------------------------------
(***************************************************************************)
(* The operations.                                                         *)
(***************************************************************************)
\* Nothing is booked.
LEMMA MoneyStays ==
    ASSUME MoneyInv, CollectionInv', UNCHANGED <<transactions, legs, payments>>,
           \A a \in Accounts : accounts'[a].deleted => accounts[a].deleted \/ BalanceOf(a) = 0
    PROVE  MoneyInv'
<1>1. \A p : PaymentTransaction(p)' = PaymentTransaction(p)
  BY DEF PaymentTransaction
<1>2. HistoryFits'
  <2>1. HistoryFits
    BY DEF MoneyInv
  <2> QED BY <1>1, <2>1 DEF HistoryFits, HeaderFits, PaymentHeader, ReversalHeader
<1>3. AllHeaderLegs' = AllHeaderLegs
  BY DEF AllHeaderLegs, LegsOf, NewLeg, Other
<1>4. AllCashLegs' = AllCashLegs
  <2>1. \A p \in PaymentIds : CashLegs(p)' = CashLegs(p)
    BY <1>1 DEF CashLegs, NewLeg
  <2>2. \A l : l \in AllCashLegs <=> \E p \in PaymentIds : l \in CashLegs(p)
    BY DEF AllCashLegs
  <2>3. \A l : l \in AllCashLegs' <=> \E p \in PaymentIds : l \in CashLegs(p)'
    BY DEF AllCashLegs
  <2> QED BY <2>1, <2>2, <2>3
<1>5. LegsFit'
  BY <1>3, <1>4 DEF MoneyInv, LegsFit
<1>6. \A a : BalanceOf(a)' = BalanceOf(a)
  BY DEF BalanceOf, LegsOn
<1>7. Posted' = Posted /\ SumLegs(legs)' = SumLegs(legs) /\ RowSum(payments, Posted)' = RowSum(payments, Posted)
  BY DEF Posted
<1>8. TotalsFit'
  BY <1>6, <1>7 DEF MoneyInv, TotalsFit
<1> QED BY <1>2, <1>5, <1>8 DEF MoneyInv

\* A movement without a payment, on accounts that are not deleted.
LEMMA ManualMoney ==
    ASSUME MoneyInv, CollectionInv', NEW kind \in Kinds \ {"PAYMENT", "REVERSAL"}, NEW primary \in Accounts,
           NEW counterparty \in Accounts \union {None}, counterparty # primary, NEW amount \in Int,
           CreateManualTransaction(kind, primary, counterparty, amount), payments' = payments,
           \A a \in Accounts : accounts'[a].deleted => accounts[a].deleted /\ a # primary /\ a # counterparty
    PROVE  MoneyInv'
<1> PICK N, t : N = NextTransaction /\ t = Header(kind, primary, counterparty, None, amount, 0)
  OBVIOUS
<1>1. /\ t.kind = kind /\ t.primary = primary /\ t.counterparty = counterparty /\ t.payment = None
      /\ t.amount = amount /\ t.reversalOf = 0
  BY DEF Header
<1>2. t \in Transaction
  BY ExternalAccountsAssumption DEF Header, Transaction
<1>3. kind # "REVERSAL" /\ kind # "PAYMENT"
  OBVIOUS
<1>4. LegsOf(N, t) = ManualLegs(primary, counterparty, amount)
  <2>1. (t.kind = "REVERSAL") = FALSE
    BY <1>1, <1>3
  <2>2. Other(t) = IF counterparty = None THEN Offset ELSE counterparty
    BY <1>1 DEF Other
  <2>3. LegsOf(N, t) = {NewLeg(N, None, primary, FALSE, amount), NewLeg(N, None, Other(t), FALSE, -amount)}
    BY <1>1, <2>1 DEF LegsOf
  <2> QED BY <2>2, <2>3 DEF ManualLegs
<1>5. Insert(t, LegsOf(N, t))
  BY <1>4 DEF CreateManualTransaction
<1>6. HeaderFits(N, t)'
  BY <1>1, <1>3 DEF HeaderFits
<1>7. PaymentsGrow
  BY DEF PaymentsGrow
<1>8. AllCashLegs' = AllCashLegs
  BY <1>1, <1>2, <1>3, <1>5, CashStays
<1>9. IsFiniteSet(Posted') /\ RowSum(payments, Posted)' = RowSum(payments, Posted) + 0
  <2>1. Posted' = Posted /\ IsFiniteSet(Posted) /\ Posted \in SUBSET PaymentIds
    BY DEF Posted, MoneyInv, TotalsFit
  <2>2. payments \in [PaymentIds -> PaymentRow]
    BY DEF MoneyInv, CollectionInv, BooksFit
  <2>3. RowSum(payments, Posted) \in Int
    BY <2>1, <2>2, PostedSums
  <2> QED BY <2>1, <2>3
<1>10. ASSUME NEW a \in Accounts, accounts'[a].deleted PROVE BalanceOf(a)' = 0
  <2>1. BalanceOf(a)' = BalanceOf(a) + Share(t, a)
    BY <1>1, <1>2, <1>5, Inserted
  <2>2. accounts[a].deleted /\ a # primary /\ a # counterparty
    BY <1>10
  <2>3. Share(t, a) = 0
    <3>1. a # Offset
      BY ExternalAccountsAssumption
    <3> QED BY <1>1, <2>2, <3>1 DEF Share, Other
  <2>4. BalanceOf(a) = 0
    BY <2>2 DEF MoneyInv, TotalsFit
  <2> QED BY <2>1, <2>3, <2>4
<1> QED BY <1>1, <1>2, <1>3, <1>5, <1>6, <1>7, <1>8, <1>9, <1>10, HeaderInserted

LEMMA CreateTransactionMoney ==
    ASSUME MoneyInv, CollectionInv', NEW kind \in {"INCOME", "EXPENSE", "TRANSFER"}, NEW a \in Accounts,
           NEW b \in Accounts \union {None}, NEW n \in Amounts, CreateTransaction(kind, a, b, n)
    PROVE  MoneyInv'
<1> DEFINE amount == IF kind = "INCOME" THEN n ELSE -n
<1>1. n \in Int /\ -n \in Int
  BY ExternalAccountsAssumption
<1>2. amount \in Int
  BY <1>1
<1>3. CreateManualTransaction(kind, a, b, amount) /\ UNCHANGED <<accounts, payments>>
  BY DEF CreateTransaction
<1>4. b # a /\ Active(a) /\ (b # None => Active(b))
  BY ExternalAccountsAssumption DEF CreateTransaction
<1>5. kind \in Kinds \ {"PAYMENT", "REVERSAL"}
  BY DEF Kinds
<1> HIDE DEF amount
<1>6. ASSUME NEW c \in Accounts, accounts'[c].deleted PROVE accounts[c].deleted /\ c # a /\ c # b
  BY <1>3, <1>4, <1>6, ExternalAccountsAssumption DEF Active, Visible
<1> QED BY <1>2, <1>3, <1>4, <1>5, <1>6, ManualMoney

LEMMA CreateAccountMoney ==
    ASSUME MoneyInv, CollectionInv', NEW expected, NEW a \in Accounts, NEW t, NEW n \in Int, CreateAccount(expected, a, t, n)
    PROVE  MoneyInv'
<1>1. payments' = payments /\ accounts' = [accounts EXCEPT ![a] = NewAccount(t)]
  BY DEF CreateAccount, Configures
<1>2. accounts \in [Accounts -> Account]
  BY DEF MoneyInv, CollectionInv, AccountsFit
<1>3. \A b \in Accounts : accounts'[b].deleted => accounts[b].deleted /\ b # a
  BY <1>1, <1>2 DEF NewAccount
<1>4. CASE n = 0
  <2>1. UNCHANGED <<transactions, legs, payments>>
    BY <1>1, <1>4 DEF CreateAccount
  <2> QED BY <1>3, <2>1, MoneyStays
<1>5. CASE n # 0
  <2>1. CreateManualTransaction("OPENING_BALANCE", a, None, n)
    BY <1>5 DEF CreateAccount
  <2>2. a # None /\ \A b \in Accounts : b # None
    BY ExternalAccountsAssumption
  <2>3. "OPENING_BALANCE" \in Kinds \ {"PAYMENT", "REVERSAL"}
    BY DEF Kinds
  <2> QED BY <1>1, <1>3, <2>1, <2>2, <2>3, ManualMoney
<1> QED BY <1>4, <1>5

\* One leg more or less in group cash.
LEMMA CashBooked ==
    ASSUME MoneyInv, CollectionInv', NEW p \in PaymentIds, PaymentTransaction(p) = {},
           NEW reversal \in BOOLEAN, NEW amount \in Int, NEW x, x = NewLeg(0, p, GroupCash, reversal, amount),
           x \notin CashLegs(p), CashLegs(p)' = CashLegs(p) \union {x}, legs' = legs \union {x},
           UNCHANGED <<accounts, transactions>>, PaymentsGrow,
           \A q \in PaymentIds : q # p => payments'[q] = payments[q],
           IsFiniteSet(Posted'), RowSum(payments, Posted)' = RowSum(payments, Posted) + amount
    PROVE  MoneyInv'
<1>0. \A q : PaymentTransaction(q)' = PaymentTransaction(q)
  BY DEF PaymentTransaction
<1>1. HistoryFits'
  <2>1. ASSUME NEW i \in DOMAIN transactions PROVE HeaderFits(i, transactions[i])'
    BY HeadersStay
  <2>2. \A q \in PaymentIds : payments'[q].status = "REVERSED" =>
           \A i \in PaymentTransaction(q) : \E j \in DOMAIN transactions : transactions[j].reversalOf = i
    BY DEF MoneyInv, HistoryFits
  <2>3. /\ \A i, j \in DOMAIN transactions :
             transactions[i].reversalOf = transactions[j].reversalOf /\ transactions[i].reversalOf # 0 => i = j
        /\ \A q \in PaymentIds : \A i, j \in PaymentTransaction(q) : i = j
    BY DEF MoneyInv, HistoryFits
  <2> QED BY <1>0, <2>1, <2>2, <2>3 DEF HistoryFits
<1>2. x.txn = 0 /\ x.payment = p /\ x.account = GroupCash /\ x.amount = amount /\ x \in Leg
  <2>1. 0 \in 0 .. MaxTransactions
    BY ExternalAccountsAssumption
  <2> QED BY <2>1, LegTyped DEF NewLeg
<1>3. /\ \A l \in legs : \/ \E i \in DOMAIN transactions : l \in LegsOf(i, transactions[i])
                         \/ \E q \in PaymentIds : l \in CashLegs(q)
      /\ legs \subseteq Leg /\ IsFiniteSet(legs)
      /\ \A q \in PaymentIds : \A l \in CashLegs(q) : l.txn = 0 /\ l.payment = q /\ l.account = GroupCash
      /\ DOMAIN transactions = 1 .. Len(transactions)
      /\ \A i \in DOMAIN transactions : \A l \in LegsOf(i, transactions[i]) : l.txn = i
  BY LegsKnown
<1>4. x \notin legs
  <2> SUFFICES ASSUME x \in legs PROVE FALSE
    OBVIOUS
  <2>1. CASE \E i \in DOMAIN transactions : x \in LegsOf(i, transactions[i])
    BY <1>2, <1>3, <2>1
  <2>2. CASE \E q \in PaymentIds : x \in CashLegs(q)
    BY <1>2, <1>3, <2>2
  <2> QED BY <1>3, <2>1, <2>2
<1>5. AllHeaderLegs' = AllHeaderLegs
  BY DEF AllHeaderLegs, LegsOf, NewLeg, Other
<1>6. AllCashLegs' = AllCashLegs \union {x}
  <2>1. \A q \in PaymentIds : q # p => CashLegs(q)' = CashLegs(q)
    BY <1>0 DEF CashLegs, NewLeg
  <2>2. \A l : l \in AllCashLegs <=> \E q \in PaymentIds : l \in CashLegs(q)
    BY DEF AllCashLegs
  <2>3. \A l : l \in AllCashLegs' <=> \E q \in PaymentIds : l \in CashLegs(q)'
    BY DEF AllCashLegs
  <2>4. \A l : l \in CashLegs(p)' <=> l \in CashLegs(p) \/ l = x
    OBVIOUS
  <2>5. \A l : l \in AllCashLegs' <=> l \in AllCashLegs \/ l = x
    BY <2>1, <2>2, <2>3, <2>4
  <2> QED BY <2>5
<1>7. legs \union {x} \subseteq Leg /\ IsFiniteSet(legs \union {x})
  BY <1>2, <1>3, FS_AddElement
<1>8. LegsFit'
  <2>1. legs = AllHeaderLegs \union AllCashLegs
    BY DEF MoneyInv, LegsFit
  <2>2. legs' = AllHeaderLegs' \union AllCashLegs'
    BY <1>5, <1>6, <2>1
  <2> QED BY <1>7, <2>2 DEF LegsFit
<1>9. SumLegs(legs)' = SumLegs(legs) + amount
  <2>1. SumLegs(legs \union {x}) = SumLegs(legs) + SumLegs({x}) /\ SumLegs({x}) = x.amount
    BY <1>4, <1>7, LegSums
  <2> QED BY <1>2, <2>1
<1>10. \A a \in Accounts : BalanceOf(a)' = BalanceOf(a)
  <2> SUFFICES ASSUME NEW a \in Accounts PROVE BalanceOf(a)' = BalanceOf(a)
    OBVIOUS
  <2>1. a # GroupCash
    BY ExternalAccountsAssumption
  <2>2. {l \in legs' : l.account = a} = {l \in legs : l.account = a}
    BY <1>2, <2>1
  <2> QED BY <2>2 DEF BalanceOf, LegsOn
<1>11. TotalsFit'
  <2>1. SumLegs(legs)' = RowSum(payments, Posted)'
    BY <1>9 DEF MoneyInv, TotalsFit
  <2> QED BY <1>10, <2>1 DEF MoneyInv, TotalsFit
<1> QED BY <1>1, <1>8, <1>11 DEF MoneyInv

LEMMA CreatePaymentMoney ==
    ASSUME MoneyInv, CollectionInv', NEW p \in PaymentIds, NEW m, NEW n \in Amounts, CreatePayment(p, m, n)
    PROVE  MoneyInv'
<1>1. /\ payments[p].status = "NONE" /\ m \in DOMAIN links /\ UNCHANGED accounts /\ n \in Int
      /\ payments' = [payments EXCEPT ![p] = [status |-> "POSTED", amount |-> n]]
  BY ExternalAccountsAssumption DEF CreatePayment
<1>2. PaymentTransaction(p) = {}
  BY <1>1, Unposted
<1>3. /\ IsFiniteSet(Posted') /\ RowSum(payments, Posted)' = RowSum(payments, Posted) + n /\ PaymentsGrow
      /\ payments'[p].status = "POSTED" /\ payments'[p].amount = n
      /\ \A q \in PaymentIds : q # p => payments'[q] = payments[q]
  <2>1. payments \in [PaymentIds -> PaymentRow]
    BY DEF MoneyInv, CollectionInv, BooksFit
  <2> QED BY <1>1, <2>1, PostedAdds
<1>4. CASE PostGroupCash(p, n)
  <2> PICK x : x = NewLeg(0, p, GroupCash, FALSE, n)
    OBVIOUS
  <2>1. legs' = legs \union {x} /\ transactions' = transactions
    BY <1>4 DEF PostGroupCash
  <2>2. PaymentTransaction(p)' = {}
    BY <1>2, <2>1 DEF PaymentTransaction
  <2>3. CashLegs(p) = {} /\ CashLegs(p)' = {x}
    BY <1>1, <1>3, <2>2 DEF CashLegs
  <2>4. FALSE \in BOOLEAN /\ CashLegs(p)' = CashLegs(p) \union {x} /\ x \notin CashLegs(p)
    BY <2>3
  <2> QED BY <1>1, <1>2, <1>3, <2>1, <2>4, CashBooked
<1>5. CASE links[m] # None /\ PostPayment(p, links[m], n)
  <2> PICK N, a : N = NextTransaction /\ a = links[m]
    OBVIOUS
  <2> PICK t : t = Header("PAYMENT", a, None, p, n, 0)
    OBVIOUS
  <2>1. a \in Accounts /\ Active(a) /\ p # None /\ a # None
    BY <1>1, <1>5, ExternalAccountsAssumption DEF MoneyInv, CollectionInv, LinksFit
  <2>2. /\ t.kind = "PAYMENT" /\ t.primary = a /\ t.counterparty = None /\ t.payment = p
        /\ t.amount = n /\ t.reversalOf = 0
    BY DEF Header
  <2>3. t \in Transaction
    BY <1>1, <2>1, ExternalAccountsAssumption DEF Header, Transaction, Kinds
  <2>4. LegsOf(N, t) = {NewLeg(N, p, a, FALSE, n)}
    <3>1. (t.kind = "REVERSAL") = FALSE
      BY <2>2
    <3> QED BY <2>1, <2>2, <3>1 DEF LegsOf
  <2>5. Insert(t, LegsOf(N, t))
    BY <1>5, <2>4 DEF PostPayment
  <2>6. HeaderFits(N, t)'
    BY <1>3, <2>1, <2>2 DEF HeaderFits, PaymentHeader
  <2>7. AllCashLegs' = AllCashLegs
    BY <1>1, <1>3, <2>1, <2>2, <2>3, <2>5, CashStays
  <2>8. \A q \in PaymentIds : ~(payments'[q].status = "REVERSED" /\ payments[q].status # "REVERSED")
    BY <1>3
  <2>9. ASSUME NEW b \in Accounts, accounts'[b].deleted PROVE BalanceOf(b)' = 0
    <3>1. BalanceOf(b)' = BalanceOf(b) + Share(t, b)
      BY <2>1, <2>2, <2>3, <2>5, Inserted
    <3>2. accounts[b].deleted /\ b # a
      BY <1>1, <2>1, <2>9 DEF Active, Visible
    <3>3. Share(t, b) = 0
      BY <2>1, <2>2, <3>2 DEF Share
    <3>4. BalanceOf(b) = 0
      BY <3>2 DEF MoneyInv, TotalsFit
    <3> QED BY <3>1, <3>3, <3>4
  <2> QED BY <1>2, <1>3, <2>1, <2>2, <2>3, <2>5, <2>6, <2>7, <2>8, <2>9, HeaderInserted
<1> QED BY <1>4, <1>5 DEF CreatePayment

\* A deleted account is not touched, or comes back, or is left in balance.
LEMMA RestoredMoney ==
    ASSUME MoneyInv, NEW t \in Transaction, t.counterparty # t.primary, NEW N, N = NextTransaction,
           InsertReversal(t, LegsOf(N, t), Named(t)), NEW a \in Accounts, accounts'[a].deleted
    PROVE  BalanceOf(a)' = 0
<1>1. Insert(t, LegsOf(N, t)) /\ accounts' = Restored(Named(t), LegsOf(N, t))
  BY DEF InsertReversal
<1>2. BalanceOf(a)' = BalanceOf(a) + Share(t, a) /\ legs' = legs \union LegsOf(N, t) /\ N \in 0 .. MaxTransactions
  BY <1>1, Inserted
<1>3. accounts'[a] = IF a \in Named(t) /\ accounts[a].deleted /\ SumLegs({l \in legs' : l.account = a}) # 0
                     THEN [accounts[a] EXCEPT !.deleted = FALSE, !.status = "ARCHIVED"]
                     ELSE accounts[a]
  BY <1>1, <1>2 DEF Restored
<1>4. accounts[a] \in Account
  BY DEF MoneyInv, CollectionInv, AccountsFit
<1>5. accounts[a].deleted /\ (a \in Named(t) => SumLegs({l \in legs' : l.account = a}) = 0)
  <2>1. CASE a \in Named(t) /\ accounts[a].deleted /\ SumLegs({l \in legs' : l.account = a}) # 0
    <3>1. ~accounts'[a].deleted
      BY <1>3, <1>4, <2>1 DEF Account
    <3> QED BY <3>1
  <2>2. CASE ~(a \in Named(t) /\ accounts[a].deleted /\ SumLegs({l \in legs' : l.account = a}) # 0)
    <3>1. accounts'[a] = accounts[a]
      BY <1>3, <2>2
    <3> QED BY <2>2, <3>1
  <2> QED BY <2>1, <2>2
<1>6. CASE a \in Named(t)
  BY <1>5, <1>6 DEF BalanceOf, LegsOn
<1>7. CASE a \notin Named(t)
  <2>1. Share(t, a) = 0
    BY <1>2, <1>7, LegsOfOne DEF MoneyInv
  <2>2. BalanceOf(a) = 0
    BY <1>5 DEF MoneyInv, TotalsFit
  <2> QED BY <1>2, <2>1, <2>2
<1> QED BY <1>6, <1>7

LEMMA ReverseTransactionMoney ==
    ASSUME MoneyInv, CollectionInv', NEW i \in DOMAIN transactions, ReverseTransaction(i)
    PROVE  MoneyInv'
<1> PICK N, o : N = NextTransaction /\ o = transactions[i]
  OBVIOUS
<1> PICK d : d = -o.amount
  OBVIOUS
<1> PICK t : t = Header("REVERSAL", o.primary, o.counterparty, None, d, i)
  OBVIOUS
<1>1. /\ o \in Transaction /\ i \in 0 .. MaxTransactions /\ HeaderFits(i, o)
      /\ i \in 1 .. Len(transactions) /\ Len(transactions) \in Nat /\ N = Len(transactions) + 1
  BY LegsKnown DEF MoneyInv, HistoryFits, NextTransaction
<1>2. /\ o.primary \in Accounts /\ o.counterparty \in Accounts \union {None} /\ o.amount \in Int
      /\ d \in Int /\ -d = o.amount
  BY <1>1 DEF Transaction
<1>3. o.kind \notin {"PAYMENT", "REVERSAL"} /\ \A j \in DOMAIN transactions : transactions[j].reversalOf # i
  BY DEF ReverseTransaction, Reversible
<1>4. o.payment = None /\ o.reversalOf = 0 /\ o.counterparty # o.primary
  BY <1>1, <1>3 DEF HeaderFits
<1>5. /\ t.kind = "REVERSAL" /\ t.primary = o.primary /\ t.counterparty = o.counterparty /\ t.payment = None
      /\ t.amount = d /\ t.reversalOf = i
  BY DEF Header
<1>6. t \in Transaction
  BY <1>1, <1>2 DEF Header, Transaction, Kinds
<1>7. {NewLeg(N, None, l.account, TRUE, -l.amount) : l \in {k \in legs : k.txn = i /\ ~k.reversal}} = LegsOf(N, t)
  <2> PICK x, y : x = NewLeg(i, None, o.primary, FALSE, o.amount) /\ y = NewLeg(i, None, Other(o), FALSE, d)
    OBVIOUS
  <2>1. LegsOf(i, o) = {x, y}
    <3>1. (o.kind = "REVERSAL") = FALSE
      BY <1>3
    <3> QED BY <1>4, <3>1 DEF LegsOf
  <2>2. /\ ~x.reversal /\ x.txn = i /\ x.account = o.primary /\ x.amount = o.amount
        /\ ~y.reversal /\ y.txn = i /\ y.account = Other(o) /\ y.amount = d
    BY DEF NewLeg
  <2>3. {k \in legs : k.txn = i /\ ~k.reversal} = {x, y}
    <3>1. x \in legs /\ y \in legs
      BY <2>1, LegsKnown
    <3>2. ASSUME NEW l \in legs, l.txn = i PROVE l \in {x, y}
      <4>1. CASE \E j \in DOMAIN transactions : l \in LegsOf(j, transactions[j])
        <5>1. PICK j \in DOMAIN transactions : l \in LegsOf(j, transactions[j])
          BY <4>1
        <5>2. l.txn = j
          BY <5>1, LegsKnown
        <5> QED BY <2>1, <3>2, <5>1, <5>2
      <4>2. CASE \E p \in PaymentIds : l \in CashLegs(p)
        <5>1. l.txn = 0
          BY <4>2, LegsKnown
        <5> QED BY <1>1, <3>2, <5>1
      <4> QED BY <4>1, <4>2, LegsKnown
    <3> QED BY <2>2, <3>1, <3>2
  <2>4. {NewLeg(N, None, l.account, TRUE, -l.amount) : l \in {x, y}}
          = {NewLeg(N, None, o.primary, TRUE, d), NewLeg(N, None, Other(o), TRUE, -d)}
    BY <1>2, <2>2
  <2>5. LegsOf(N, t) = {NewLeg(N, None, o.primary, TRUE, d), NewLeg(N, None, Other(t), TRUE, -d)}
    <3>1. (t.kind = "REVERSAL") = TRUE
      BY <1>5
    <3> QED BY <1>5, <3>1 DEF LegsOf
  <2>6. Other(t) = Other(o)
    BY <1>5 DEF Other
  <2> QED BY <2>3, <2>4, <2>5, <2>6
<1>8. Named(t) = {o.primary, o.counterparty} \ {None}
  BY <1>5 DEF Named
<1>9. InsertReversal(t, LegsOf(N, t), Named(t)) /\ payments' = payments
  BY <1>7, <1>8 DEF ReverseTransaction
<1>10. Insert(t, LegsOf(N, t)) /\ t.counterparty # t.primary
  BY <1>4, <1>5, <1>9 DEF InsertReversal
<1>11. \A j \in DOMAIN transactions : transactions'[j] = transactions[j]
  BY <1>6, <1>10, Inserted
<1>12. HeaderFits(N, t)'
  <2>1. i \in 1 .. N - 1 /\ transactions'[i] = o
    BY <1>1, <1>11
  <2>2. ReversalHeader(N, t)'
    BY <1>2, <1>3, <1>4, <1>5, <2>1 DEF ReversalHeader
  <2> QED BY <1>5, <1>10, <2>2 DEF HeaderFits
<1>13. PaymentsGrow
  BY <1>9 DEF PaymentsGrow
<1>14. AllCashLegs' = AllCashLegs
  BY <1>5, <1>6, <1>9, <1>10, CashStays
<1>15. IsFiniteSet(Posted') /\ RowSum(payments, Posted)' = RowSum(payments, Posted) + 0
  <2>1. Posted' = Posted /\ IsFiniteSet(Posted) /\ Posted \in SUBSET PaymentIds
    BY <1>9 DEF Posted, MoneyInv, TotalsFit
  <2>2. payments \in [PaymentIds -> PaymentRow]
    BY DEF MoneyInv, CollectionInv, BooksFit
  <2>3. RowSum(payments, Posted) \in Int
    BY <2>1, <2>2, PostedSums
  <2> QED BY <1>9, <2>1, <2>3
<1>16. ASSUME NEW a \in Accounts, accounts'[a].deleted PROVE BalanceOf(a)' = 0
  BY <1>6, <1>9, <1>10, <1>16, RestoredMoney
<1> QED BY <1>3, <1>5, <1>6, <1>9, <1>10, <1>12, <1>13, <1>14, <1>15, <1>16, HeaderInserted

LEMMA ReversePaymentMoney ==
    ASSUME MoneyInv, CollectionInv', NEW p \in PaymentIds, ReversePayment(p)
    PROVE  MoneyInv'
<1>1. payments[p].status = "POSTED" /\ payments' = [payments EXCEPT ![p].status = "REVERSED"]
  BY DEF ReversePayment
<1>2. /\ IsFiniteSet(Posted') /\ RowSum(payments, Posted)' = RowSum(payments, Posted) + (-payments[p].amount)
      /\ PaymentsGrow /\ payments'[p].status = "REVERSED" /\ payments'[p].amount = payments[p].amount
      /\ \A q \in PaymentIds : q # p => payments'[q] = payments[q]
  BY <1>1, PostedLeaves
<1>3. payments[p] \in PaymentRow /\ p # None
  BY ExternalAccountsAssumption DEF MoneyInv, CollectionInv, BooksFit
<1> PICK d : d = -payments[p].amount
  OBVIOUS
<1>4. d \in Int /\ -d = payments[p].amount
  BY <1>3 DEF PaymentRow
<1>5. CASE PaymentTransaction(p) = {} /\ legs' = legs \union {NewLeg(0, p, GroupCash, TRUE, -payments[p].amount)}
           /\ UNCHANGED <<transactions, accounts, version>>
  <2> PICK x, y : x = NewLeg(0, p, GroupCash, TRUE, d) /\ y = NewLeg(0, p, GroupCash, FALSE, payments[p].amount)
    OBVIOUS
  <2>1. legs' = legs \union {x} /\ PaymentTransaction(p)' = {}
    BY <1>5 DEF PaymentTransaction
  <2>2. CashLegs(p) = {y} /\ CashLegs(p)' = {y, x} /\ x # y
    BY <1>1, <1>2, <1>5, <2>1 DEF CashLegs, NewLeg
  <2>3. TRUE \in BOOLEAN /\ CashLegs(p)' = CashLegs(p) \union {x} /\ x \notin CashLegs(p)
    BY <2>2
  <2> QED BY <1>2, <1>4, <1>5, <2>1, <2>3, CashBooked
<1>6. ASSUME NEW i \in PaymentTransaction(p),
             InsertReversal(Header("REVERSAL", transactions[i].primary, None, p, -transactions[i].amount, i),
                            {NewLeg(NextTransaction, p, transactions[i].primary, TRUE, -transactions[i].amount)},
                            {transactions[i].primary})
      PROVE  MoneyInv'
  <2> PICK N, o : N = NextTransaction /\ o = transactions[i]
    OBVIOUS
  <2> PICK t : t = Header("REVERSAL", o.primary, None, p, d, i)
    OBVIOUS
  <2>1. i \in DOMAIN transactions /\ o.kind = "PAYMENT" /\ o.payment = p
    BY DEF PaymentTransaction
  <2>2. /\ o \in Transaction /\ i \in 0 .. MaxTransactions /\ HeaderFits(i, o)
        /\ i \in 1 .. Len(transactions) /\ Len(transactions) \in Nat /\ N = Len(transactions) + 1
    BY <2>1, LegsKnown DEF MoneyInv, HistoryFits, NextTransaction
  <2>3. o.counterparty = None /\ o.amount = payments[p].amount /\ o.primary \in Accounts /\ o.primary # None
    BY <2>1, <2>2, ExternalAccountsAssumption DEF HeaderFits, PaymentHeader, Transaction
  <2>4. /\ t.kind = "REVERSAL" /\ t.primary = o.primary /\ t.counterparty = None /\ t.payment = p
        /\ t.amount = d /\ t.reversalOf = i
    BY DEF Header
  <2>5. t \in Transaction
    BY <1>4, <2>2, <2>3 DEF Header, Transaction, Kinds
  <2>6. LegsOf(N, t) = {NewLeg(N, p, o.primary, TRUE, d)} /\ Named(t) = {o.primary}
    <3>1. (t.kind = "REVERSAL") = TRUE
      BY <2>4
    <3>2. LegsOf(N, t) = {NewLeg(N, p, o.primary, TRUE, d)}
      BY <1>3, <2>4, <3>1 DEF LegsOf
    <3>3. Named(t) = {o.primary}
      BY <2>3, <2>4 DEF Named
    <3> QED BY <3>2, <3>3
  <2>7. InsertReversal(t, LegsOf(N, t), Named(t))
    <3>1. -transactions[i].amount = d
      BY <2>3
    <3> QED BY <1>6, <2>6, <3>1
  <2>8. Insert(t, LegsOf(N, t)) /\ t.counterparty # t.primary
    BY <2>3, <2>4, <2>7 DEF InsertReversal
  <2>9. \A j \in DOMAIN transactions : transactions'[j] = transactions[j]
    BY <2>5, <2>8, Inserted
  <2>10. HeaderFits(N, t)'
    <3>1. i \in 1 .. N - 1 /\ transactions'[i] = o
      BY <2>1, <2>2, <2>9
    <3>2. ReversalHeader(N, t)'
      BY <1>2, <1>4, <2>1, <2>3, <2>4, <3>1 DEF ReversalHeader
    <3> QED BY <2>4, <2>8, <3>2 DEF HeaderFits
  <2>11. ASSUME NEW j \in DOMAIN transactions, transactions[j].reversalOf = i PROVE FALSE
    <3>1. HeaderFits(j, transactions[j]) /\ i # 0
      BY <2>2 DEF MoneyInv, HistoryFits
    <3>2. transactions[j].kind = "REVERSAL"
      BY <2>11, <3>1 DEF HeaderFits, PaymentHeader
    <3>3. ReversalHeader(j, transactions[j])
      BY <3>1, <3>2 DEF HeaderFits
    <3>4. transactions[j].payment = p /\ payments[p].status = "REVERSED"
      BY <1>3, <2>1, <2>11, <3>3 DEF ReversalHeader
    <3> QED BY <1>1, <3>4
  <2>12. AllCashLegs' = AllCashLegs
    BY <1>2, <1>3, <2>4, <2>5, <2>8, CashStays
  <2>13. ASSUME NEW q \in PaymentIds, payments'[q].status = "REVERSED", payments[q].status # "REVERSED",
                NEW j \in PaymentTransaction(q)
         PROVE  j = i
    <3>1. q = p
      BY <1>2, <2>13
    <3> QED BY <2>13, <3>1 DEF MoneyInv, HistoryFits
  <2>14. ASSUME NEW a \in Accounts, accounts'[a].deleted PROVE BalanceOf(a)' = 0
    BY <2>5, <2>7, <2>8, <2>14, RestoredMoney
  <2>15. RowSum(payments, Posted)' = RowSum(payments, Posted) + (IF t.payment = None THEN 0 ELSE t.amount)
    BY <1>2, <1>3, <2>4
  <2>16. t.kind # "PAYMENT"
    BY <2>4
  <2> QED BY <1>2, <2>4, <2>5, <2>8, <2>10, <2>11, <2>12, <2>13, <2>14, <2>15, <2>16, HeaderInserted
<1> QED BY <1>5, <1>6 DEF ReversePayment

\* Configuration never hides money: a deleted account is unused or in balance.
LEMMA ConfigurationMoney ==
    ASSUME MoneyInv, CollectionInv', NEW expected, NEW a \in Accounts,
           \/ \E t \in Targets \union {None} : UpdateAccount(expected, a, t)
           \/ \E archived \in BOOLEAN : SetAccountArchived(expected, a, archived)
           \/ DeleteAccount(expected, a)
    PROVE  MoneyInv'
<1>1. accounts \in [Accounts -> Account]
  BY DEF MoneyInv, CollectionInv, AccountsFit
<1>2. CASE \E t \in Targets \union {None} : UpdateAccount(expected, a, t)
  <2>1. PICK t : UpdateAccount(expected, a, t)
    BY <1>2
  <2>2. UNCHANGED <<transactions, legs, payments>> /\ accounts' = [accounts EXCEPT ![a].target = t]
    BY <2>1 DEF UpdateAccount, Configures
  <2>3. \A b \in Accounts : accounts'[b].deleted => accounts[b].deleted
    BY <1>1, <2>2 DEF Account
  <2> QED BY <2>2, <2>3, MoneyStays
<1>3. CASE \E archived \in BOOLEAN : SetAccountArchived(expected, a, archived)
  <2>1. PICK archived : SetAccountArchived(expected, a, archived)
    BY <1>3
  <2>2. /\ UNCHANGED <<transactions, legs, payments>>
        /\ accounts' = [accounts EXCEPT ![a].status = IF archived THEN "ARCHIVED" ELSE "ACTIVE"]
    BY <2>1 DEF SetAccountArchived, Configures
  <2>3. \A b \in Accounts : accounts'[b].deleted => accounts[b].deleted
    BY <1>1, <2>2 DEF Account
  <2> QED BY <2>2, <2>3, MoneyStays
<1>4. CASE DeleteAccount(expected, a)
  <2>1. /\ UNCHANGED <<transactions, legs, payments>> /\ (Used(a) => BalanceOf(a) = 0)
        /\ accounts' = [accounts EXCEPT ![a] = IF Used(a) THEN [accounts[a] EXCEPT !.deleted = TRUE] ELSE NoAccount]
    BY <1>4 DEF DeleteAccount, Configures
  <2>2. \A b \in Accounts : b # a => accounts'[b] = accounts[b]
    BY <1>1, <2>1
  <2>3. ~Used(a) => accounts'[a] = NoAccount
    BY <1>1, <2>1
  <2>4. ~Used(a) => ~accounts'[a].deleted
    BY <2>3 DEF NoAccount
  <2>5. \A b \in Accounts : accounts'[b].deleted => accounts[b].deleted \/ BalanceOf(b) = 0
    BY <2>1, <2>2, <2>4
  <2> QED BY <2>1, <2>5, MoneyStays
<1> QED BY <1>2, <1>3, <1>4

LEMMA ReorderMoney ==
    ASSUME MoneyInv, CollectionInv', NEW expected, NEW ids, ReorderAccounts(expected, ids)
    PROVE  MoneyInv'
<1>1. accounts \in [Accounts -> Account]
  BY DEF MoneyInv, CollectionInv, AccountsFit
<1>2. UNCHANGED <<transactions, legs, payments>>
  BY DEF ReorderAccounts, Configures
<1>3. ASSUME NEW a \in Accounts PROVE accounts'[a].deleted = accounts[a].deleted
  <2> DEFINE place == VisibleBase + (CHOOSE i \in DOMAIN ids : ids[i] = a) - 1
  <2>1. accounts'[a] = IF a \in ToSet(ids) THEN [accounts[a] EXCEPT !.order = place] ELSE accounts[a]
    BY DEF ReorderAccounts
  <2> HIDE DEF place
  <2> QED BY <1>1, <2>1 DEF Account
<1> QED BY <1>2, <1>3, MoneyStays

LEMMA TargetMoney ==
    ASSUME MoneyInv, CollectionInv', NEW m, NEW t, UpdatePaymentTarget(m, t)
    PROVE  MoneyInv'
<1>1. accounts \in [Accounts -> Account]
  BY DEF MoneyInv, CollectionInv, AccountsFit
<1>2. PICK resolved \in ResolveLegacyPaymentTarget(m, t) :
         accounts' = resolved.table /\ UNCHANGED <<transactions, legs, payments>>
  BY DEF UpdatePaymentTarget
<1>3. \/ resolved.table = accounts
      \/ \E a : resolved.table = [accounts EXCEPT ![a].target = t]
      \/ \E a : resolved.table = [accounts EXCEPT ![a] = NewAccount(t)]
  <2>1. CASE Matching(t) # {}
    BY <1>2, <2>1 DEF ResolveLegacyPaymentTarget
  <2>2. CASE Matching(t) = {} /\ Rewritable(m)
    <3>1. PICK b \in {x \in {links[m]} : TargetFree(t, x)} :
            resolved = [id |-> links[m], table |-> [accounts EXCEPT ![b].target = t]]
      BY <1>2, <2>2 DEF ResolveLegacyPaymentTarget
    <3> QED BY <3>1
  <2>3. CASE Matching(t) = {} /\ ~Rewritable(m)
    <3>1. PICK b \in {x \in Accounts : ~Exists(x) /\ TargetFree(t, x)} :
            resolved = [id |-> b, table |-> [accounts EXCEPT ![b] = NewAccount(t)]]
      BY <1>2, <2>3 DEF ResolveLegacyPaymentTarget
    <3> QED BY <3>1
  <2> QED BY <2>1, <2>2, <2>3
<1>4. CASE resolved.table = accounts
  BY <1>2, <1>4, MoneyStays
<1>5. CASE \E a : resolved.table = [accounts EXCEPT ![a].target = t]
  <2>1. \A b \in Accounts : accounts'[b].deleted => accounts[b].deleted
    BY <1>1, <1>2, <1>5 DEF Account
  <2> QED BY <1>2, <2>1, MoneyStays
<1>6. CASE \E a : resolved.table = [accounts EXCEPT ![a] = NewAccount(t)]
  <2>1. ~NewAccount(t).deleted
    BY DEF NewAccount
  <2>2. \A b \in Accounts : accounts'[b].deleted => accounts[b].deleted
    BY <1>1, <1>2, <1>6, <2>1
  <2> QED BY <1>2, <2>2, MoneyStays
<1> QED BY <1>3, <1>4, <1>5, <1>6

LEMMA MoneyInit ==
    ASSUME Init
    PROVE  MoneyInv
<1>1. CollectionInv
  BY CollectionInit
<1>2. DOMAIN transactions = {} /\ legs = {} /\ \A p \in PaymentIds : payments[p].status = "NONE"
  BY DEF Init
<1>3. \A p : PaymentTransaction(p) = {}
  BY <1>2 DEF PaymentTransaction
<1>4. HistoryFits
  BY <1>2, <1>3 DEF HistoryFits
<1>5. AllHeaderLegs = {}
  BY <1>2 DEF AllHeaderLegs
<1>6. AllCashLegs = {}
  <2>1. \A p \in PaymentIds : CashLegs(p) = {}
    BY <1>2 DEF CashLegs
  <2>2. \A l : l \in AllCashLegs <=> \E p \in PaymentIds : l \in CashLegs(p)
    BY DEF AllCashLegs
  <2> QED BY <2>1, <2>2
<1>7. LegsFit
  BY <1>2, <1>5, <1>6, FS_EmptySet DEF LegsFit
<1>8. TotalsFit
  <2>1. Posted = {} /\ IsFiniteSet({})
    BY <1>2, FS_EmptySet DEF Posted
  <2>2. \A l \in {} : l.amount \in Int
    OBVIOUS
  <2>3. AmountSum({}) = 0
    BY <2>1, <2>2, AmountFacts
  <2>4. SumLegs({}) = 0
    BY <2>3, Zenon DEF SumLegs, AmountSum
  <2>5. RowSum(payments, {}) = 0
    <3>1. RowSum(payments, {}) = Total(payments, {})
      BY RowsTotal
    <3> QED BY <3>1, SumEmpty
  <2>6. \A a : BalanceOf(a) = 0
    <3>1. \A a : LegsOn(a) = {}
      BY <1>2 DEF LegsOn
    <3> QED BY <2>4, <3>1 DEF BalanceOf
  <2>7. 0 \in -MaxMinor - 1 .. MaxMinor
    BY ExternalAccountsAssumption
  <2>8. SumLegs(legs) = RowSum(payments, Posted)
    BY <1>2, <2>1, <2>4, <2>5
  <2> QED BY <2>1, <2>6, <2>7, <2>8 DEF TotalsFit
<1> QED BY <1>1, <1>4, <1>7, <1>8 DEF MoneyInv

LEMMA MoneyStep ==
    ASSUME MoneyInv, [Next]_vars
    PROVE  MoneyInv'
<1>0. CollectionInv'
  BY CollectionStep DEF MoneyInv
<1>1. CASE UNCHANGED vars
  BY <1>0, <1>1, MoneyStays DEF vars
<1>2. CASE \/ \E v \in Views, kind \in ViewKinds : ReadVersion(v, kind)
           \/ \E v \in Views : ReadAccounts(v) \/ ReadLinks(v)
  BY <1>0, <1>2, MoneyStays DEF ReadVersion, ReadAccounts, ReadLinks, Reads
<1>3. CASE \E on \in BOOLEAN : SetExternalAccountsEnabled(on)
  BY <1>0, <1>3, MoneyStays DEF SetExternalAccountsEnabled
<1>4. CASE \E kind \in {"INCOME", "EXPENSE", "TRANSFER"}, a \in Accounts,
              b \in Accounts \union {None}, n \in Amounts : CreateTransaction(kind, a, b, n)
  BY <1>0, <1>4, CreateTransactionMoney
<1>5. CASE \E i \in DOMAIN transactions : ReverseTransaction(i)
  BY <1>0, <1>5, ReverseTransactionMoney
<1>6. CASE \E p \in PaymentIds, m \in Methods, n \in Amounts : CreatePayment(p, m, n)
  BY <1>0, <1>6, CreatePaymentMoney
<1>7. CASE \E p \in PaymentIds : ReversePayment(p)
  BY <1>0, <1>7, ReversePaymentMoney
<1>8. CASE \E expected \in 1 .. MaxVersion, a \in Accounts, t \in Targets \union {None},
              n \in Amounts \union {0} \union {-k : k \in Amounts} : CreateAccount(expected, a, t, n)
  <2>1. ASSUME NEW n \in Amounts \union {0} \union {-k : k \in Amounts} PROVE n \in Int
    <3>1. CASE n \in Amounts \union {0}
      <4>1. Amounts \subseteq Nat /\ 0 \in Nat
        BY ExternalAccountsAssumption
      <4> QED BY ONLY <3>1, <4>1
    <3>2. CASE n \in {-k : k \in Amounts}
      <4>1. PICK k \in Amounts : n = -k
        BY <3>2
      <4>2. k \in Int
        BY ExternalAccountsAssumption
      <4> QED BY ONLY <4>1, <4>2
    <3> QED BY <3>1, <3>2
  <2> QED BY <1>0, <1>8, <2>1, CreateAccountMoney
<1>9. CASE \E expected \in 1 .. MaxVersion, a \in Accounts, t \in Targets \union {None} : UpdateAccount(expected, a, t)
  BY <1>0, <1>9, ConfigurationMoney
<1>10. CASE \E expected \in 1 .. MaxVersion, a \in Accounts, archived \in BOOLEAN : SetAccountArchived(expected, a, archived)
  BY <1>0, <1>10, ConfigurationMoney
<1>11. CASE \E expected \in 1 .. MaxVersion, a \in Accounts : DeleteAccount(expected, a)
  BY <1>0, <1>11, ConfigurationMoney
<1>12. CASE \E expected \in 1 .. MaxVersion, ids \in SeqOf(Accounts, Cardinality(Accounts)) : ReorderAccounts(expected, ids)
  BY <1>0, <1>12, ReorderMoney
<1>13. CASE \E expected \in 1 .. MaxVersion, next \in [Methods -> Accounts \union {None}] :
              ReplacePaymentMethodLinks(expected, Restrict(next, DOMAIN links))
  <2>1. UNCHANGED <<accounts, transactions, legs, payments>>
    BY <1>13 DEF ReplacePaymentMethodLinks, Configures
  <2> QED BY <1>0, <2>1, MoneyStays
<1>14. CASE \E S \in SUBSET Methods : \E next \in [S -> Accounts \union {None}] :
              UpdatePaymentMethods(next)
  <2>1. UNCHANGED <<accounts, transactions, legs, payments>>
    BY <1>14 DEF UpdatePaymentMethods
  <2> QED BY <1>0, <2>1, MoneyStays
<1>15. CASE \E m \in Methods, t \in Targets : UpdatePaymentTarget(m, t)
  BY <1>0, <1>15, TargetMoney
<1> QED BY <1>1, <1>2, <1>3, <1>4, <1>5, <1>6, <1>7, <1>8, <1>9, <1>10, <1>11, <1>12, <1>13, <1>14, <1>15 DEF Next

-----------------------------------------------------------------------------
(***************************************************************************)
(* What the books imply.                                                   *)
(***************************************************************************)
\* A leg and its mirror image cancel out.
LEMMA PairCancels ==
    ASSUME NEW x \in Leg, NEW y \in Leg, x # y, x.amount + y.amount = 0, NEW S, S = {} \/ S = {x, y}
    PROVE  SumLegs(S) = 0
<1>0. {x} \union {y} = {x, y} /\ IsFiniteSet({x})
  BY FS_Singleton
<1>1. IsFiniteSet({x} \union {y})
  BY <1>0, FS_AddElement
<1>2. {x, y} \subseteq Leg /\ IsFiniteSet({x, y})
  BY <1>0, <1>1
<1>3. SumLegs({}) = 0 /\ SumLegs({x, y}) = x.amount + y.amount
  BY <1>2, LegSums
<1> QED BY <1>3

LEMMA ReversedPaymentsReturn ==
    ASSUME MoneyInv, NEW p \in PaymentIds, payments[p].status = "REVERSED", NEW a \in Accounts \union {GroupCash}
    PROVE  SumLegs({l \in LegsOn(a) : l.payment = p}) = 0
<1> PICK S : S = {l \in LegsOn(a) : l.payment = p}
  OBVIOUS
<1> PICK n, d : n = payments[p].amount /\ d = -n
  OBVIOUS
<1>1. payments[p] \in PaymentRow /\ p # None
  BY ExternalAccountsAssumption DEF MoneyInv, CollectionInv, BooksFit
<1>2. n \in Int /\ d \in Int /\ n + d = 0 /\ 0 \in 0 .. MaxTransactions
  BY <1>1, ExternalAccountsAssumption DEF PaymentRow
<1>3. \A l : l \in S <=> l \in legs /\ l.account = a /\ l.payment = p
  BY DEF LegsOn
<1>4. \A i \in DOMAIN transactions : HeaderFits(i, transactions[i]) /\ transactions[i] \in Transaction
  BY LegsKnown DEF MoneyInv, HistoryFits
<1>5. ASSUME NEW k \in DOMAIN transactions, transactions[k].payment = p
      PROVE  \/ k \in PaymentTransaction(p)
             \/ transactions[k].kind = "REVERSAL" /\ transactions[k].reversalOf \in PaymentTransaction(p)
  <2>1. CASE transactions[k].kind = "PAYMENT"
    BY <1>5, <2>1 DEF PaymentTransaction
  <2>2. CASE transactions[k].kind = "REVERSAL"
    <3> PICK o : o = transactions[k].reversalOf
      OBVIOUS
    <3>1. ReversalHeader(k, transactions[k])
      BY <1>4, <2>2 DEF HeaderFits
    <3>2. o \in DOMAIN transactions /\ transactions[o].kind # "REVERSAL" /\ transactions[o].payment = p
      BY <1>5, <3>1, LegsKnown DEF ReversalHeader
    <3>3. transactions[o].kind = "PAYMENT"
      BY <1>1, <1>4, <3>2 DEF HeaderFits
    <3> QED BY <2>2, <3>2, <3>3 DEF PaymentTransaction
  <2>3. CASE transactions[k].kind \notin {"PAYMENT", "REVERSAL"}
    BY <1>1, <1>4, <1>5, <2>3 DEF HeaderFits
  <2> QED BY <2>1, <2>2, <2>3
<1>6. CASE PaymentTransaction(p) = {}
  <2> PICK x, y : x = NewLeg(0, p, GroupCash, FALSE, n) /\ y = NewLeg(0, p, GroupCash, TRUE, d)
    OBVIOUS
  <2>1. CashLegs(p) = {x, y} /\ x # y /\ x.amount + y.amount = 0
    BY <1>2, <1>6 DEF CashLegs, NewLeg
  <2>2. x \in Leg /\ y \in Leg /\ x \in legs /\ y \in legs /\ x.account = GroupCash /\ y.account = GroupCash
        /\ x.payment = p /\ y.payment = p
    BY <2>1, LegsKnown
  <2>3. \A l \in S : l \in {x, y}
    <3> SUFFICES ASSUME NEW l \in S PROVE l \in {x, y}
      OBVIOUS
    <3>1. CASE \E k \in DOMAIN transactions : l \in LegsOf(k, transactions[k])
      <4>1. PICK k \in DOMAIN transactions : l \in LegsOf(k, transactions[k])
        BY <3>1
      <4>2. transactions[k].payment = p
        BY <1>3, <4>1, LegsKnown
      <4> QED BY <1>5, <1>6, <4>2
    <3>2. CASE \E q \in PaymentIds : l \in CashLegs(q)
      BY <1>3, <2>1, <3>2, LegsKnown
    <3> QED BY <1>3, <3>1, <3>2, LegsKnown
  <2>4. S = {} \/ S = {x, y}
    BY <1>3, <2>2, <2>3
  <2> QED BY <2>1, <2>2, <2>4, PairCancels
<1>7. CASE PaymentTransaction(p) # {}
  <2>1. PICK i : i \in PaymentTransaction(p)
    BY <1>7
  <2>2. \A k \in PaymentTransaction(p) : k = i
    BY <2>1 DEF MoneyInv, HistoryFits
  <2>3. PICK j \in DOMAIN transactions : transactions[j].reversalOf = i
    BY <2>1 DEF MoneyInv, HistoryFits
  <2> PICK o, r : o = transactions[i] /\ r = transactions[j]
    OBVIOUS
  <2>4. i \in DOMAIN transactions /\ i \in 1 .. Len(transactions) /\ o.kind = "PAYMENT" /\ o.payment = p
    BY <2>1, LegsKnown DEF PaymentTransaction
  <2>5. o.amount = n /\ o.primary \in Accounts
    BY <1>4, <2>4 DEF HeaderFits, PaymentHeader, Transaction
  <2>6. r.kind = "REVERSAL"
    BY <1>4, <2>3, <2>4 DEF HeaderFits, PaymentHeader
  <2>7. ReversalHeader(j, r)
    BY <1>4, <2>6 DEF HeaderFits
  <2>8. r.primary = o.primary /\ r.payment = p /\ o.amount = -r.amount /\ r.amount \in Int
    BY <1>4, <2>3, <2>4, <2>7 DEF ReversalHeader, Transaction
  <2>9. r.amount = d
    BY <1>2, <2>5, <2>8
  <2> PICK x, y : x = NewLeg(i, p, o.primary, FALSE, n) /\ y = NewLeg(j, p, o.primary, TRUE, d)
    OBVIOUS
  <2>10. LegsOf(i, o) = {x} /\ LegsOf(j, r) = {y}
    <3>1. (o.kind = "REVERSAL") = FALSE /\ (r.kind = "REVERSAL") = TRUE
      BY <2>4, <2>6
    <3> QED BY <1>1, <2>4, <2>5, <2>8, <2>9, <3>1 DEF LegsOf
  <2>11. /\ x.account = o.primary /\ y.account = o.primary /\ x.payment = p /\ y.payment = p
         /\ x # y /\ x.amount + y.amount = 0
    BY <1>2 DEF NewLeg
  <2>12. x \in legs /\ y \in legs /\ legs \subseteq Leg
    BY <2>4, <2>10, LegsKnown
  <2>13. \A l \in S : l \in {x, y}
    <3> SUFFICES ASSUME NEW l \in S PROVE l \in {x, y}
      OBVIOUS
    <3>1. CASE \E k \in DOMAIN transactions : l \in LegsOf(k, transactions[k])
      <4>1. PICK k \in DOMAIN transactions : l \in LegsOf(k, transactions[k])
        BY <3>1
      <4>2. transactions[k].payment = p
        BY <1>3, <4>1, LegsKnown
      <4>3. CASE k \in PaymentTransaction(p)
        BY <2>2, <2>10, <4>1, <4>3
      <4>4. CASE transactions[k].kind = "REVERSAL" /\ transactions[k].reversalOf \in PaymentTransaction(p)
        <5>1. transactions[k].reversalOf = transactions[j].reversalOf /\ transactions[k].reversalOf # 0
          BY <2>2, <2>3, <2>4, <4>4
        <5>2. k = j
          BY <5>1 DEF MoneyInv, HistoryFits
        <5> QED BY <2>10, <4>1, <5>2
      <4> QED BY <1>5, <4>2, <4>3, <4>4
    <3>2. CASE \E q \in PaymentIds : l \in CashLegs(q)
      <4>1. l \in CashLegs(p)
        BY <1>3, <3>2, LegsKnown
      <4>2. CashLegs(p) = {}
        BY <1>7 DEF CashLegs
      <4> QED BY <4>1, <4>2
    <3> QED BY <1>3, <3>1, <3>2, LegsKnown
  <2>14. S = {} \/ S = {x, y}
    BY <1>3, <2>11, <2>12, <2>13
  <2> QED BY <2>11, <2>12, <2>14, PairCancels
<1> QED BY <1>6, <1>7

LEMMA ReversalsReturn ==
    ASSUME MoneyInv, NEW i \in DOMAIN transactions, NEW j \in DOMAIN transactions, transactions[j].reversalOf = i,
           NEW a \in Accounts \union {Offset}
    PROVE  SumLegs({l \in LegsOn(a) : l.txn \in {i, j}}) = 0
<1> PICK S : S = {l \in LegsOn(a) : l.txn \in {i, j}}
  OBVIOUS
<1> PICK o, r : o = transactions[i] /\ r = transactions[j]
  OBVIOUS
<1> PICK n, d : n = o.amount /\ d = r.amount
  OBVIOUS
<1>1. /\ HeaderFits(i, o) /\ HeaderFits(j, r) /\ o \in Transaction /\ r \in Transaction
      /\ i \in 1 .. Len(transactions) /\ j \in 1 .. Len(transactions) /\ Len(transactions) \in Nat
      /\ LegsOf(i, o) \subseteq legs /\ LegsOf(j, r) \subseteq legs /\ legs \subseteq Leg
  BY LegsKnown DEF MoneyInv, HistoryFits
<1>2. r.kind = "REVERSAL"
  BY <1>1 DEF HeaderFits, PaymentHeader
<1>3. ReversalHeader(j, r)
  BY <1>1, <1>2 DEF HeaderFits
<1>4. /\ o.kind # "REVERSAL" /\ o.primary = r.primary /\ o.counterparty = r.counterparty /\ o.payment = r.payment
      /\ n = -d /\ i \in 1 .. j - 1
  BY <1>3 DEF ReversalHeader
<1>5. n \in Int /\ d \in Int /\ n + d = 0 /\ -n \in Int /\ -d \in Int /\ -n + -d = 0 /\ i # j
  <2>1. n \in Int /\ d \in Int
    BY <1>1 DEF Transaction
  <2> QED BY <1>1, <1>4, <2>1
<1>6. Other(r) = Other(o) /\ Other(o) # o.primary
  <2>1. Other(r) = Other(o)
    BY <1>4 DEF Other
  <2>2. Other(o) # o.primary
    BY <1>1, LegsTyped, LegsKnown DEF HeaderFits, MoneyInv
  <2> QED BY <2>1, <2>2
<1>7. \A l : l \in S <=> l.account = a /\ (l \in LegsOf(i, o) \/ l \in LegsOf(j, r))
  <2>1. ASSUME NEW l, l \in legs, l.txn \in {i, j} PROVE l \in LegsOf(i, o) \/ l \in LegsOf(j, r)
    <3>1. CASE \E k \in DOMAIN transactions : l \in LegsOf(k, transactions[k])
      <4>1. PICK k \in DOMAIN transactions : l \in LegsOf(k, transactions[k])
        BY <3>1
      <4>2. l.txn = k
        BY <4>1, LegsKnown
      <4> QED BY <2>1, <4>1, <4>2
    <3>2. CASE \E q \in PaymentIds : l \in CashLegs(q)
      <4>1. l.txn = 0
        BY <3>2, LegsKnown
      <4> QED BY <1>1, <2>1, <4>1
    <3> QED BY <2>1, <3>1, <3>2, LegsKnown
  <2>2. \A l : (l \in LegsOf(i, o) => l.txn = i) /\ (l \in LegsOf(j, r) => l.txn = j)
    BY LegsKnown
  <2>3. \A l : l \in S <=> l \in legs /\ l.account = a /\ l.txn \in {i, j}
    BY DEF LegsOn
  <2> QED BY <1>1, <2>1, <2>2, <2>3
<1>8. (o.kind = "REVERSAL") = FALSE /\ (r.kind = "REVERSAL") = TRUE
  BY <1>2, <1>4
<1>9. CASE o.payment # None
  <2> PICK x, y : x = NewLeg(i, o.payment, o.primary, FALSE, n) /\ y = NewLeg(j, o.payment, o.primary, TRUE, d)
    OBVIOUS
  <2>1. LegsOf(i, o) = {x} /\ LegsOf(j, r) = {y}
    BY <1>4, <1>8, <1>9 DEF LegsOf
  <2>2. x.account = o.primary /\ y.account = o.primary /\ x # y /\ x.amount + y.amount = 0
    BY <1>5 DEF NewLeg
  <2>3. S = {} \/ S = {x, y}
    <3>1. \A l : l \in S <=> l.account = a /\ l \in {x, y}
      BY <1>7, <2>1
    <3>2. CASE a = o.primary
      <4>1. \A l : l \in S <=> l \in {x, y}
        BY <2>2, <3>1, <3>2
      <4> QED BY <4>1
    <3>3. CASE a # o.primary
      <4>1. \A l : l \notin S
        BY <2>2, <3>1, <3>3
      <4> QED BY <4>1
    <3> QED BY <3>2, <3>3
  <2>4. x \in Leg /\ y \in Leg
    BY <1>1, <2>1
  <2>5. SumLegs(S) = 0
    BY ONLY <2>2, <2>3, <2>4, PairCancels
  <2> QED BY <2>5
<1>10. CASE o.payment = None
  <2> PICK x, y : x = NewLeg(i, None, o.primary, FALSE, n) /\ y = NewLeg(j, None, o.primary, TRUE, d)
    OBVIOUS
  <2> PICK v, w : v = NewLeg(i, None, Other(o), FALSE, -n) /\ w = NewLeg(j, None, Other(o), TRUE, -d)
    OBVIOUS
  <2>1. LegsOf(i, o) = {x, v} /\ LegsOf(j, r) = {y, w}
    BY <1>4, <1>6, <1>8, <1>10 DEF LegsOf
  <2>2. /\ x.account = o.primary /\ y.account = o.primary /\ x # y /\ x.amount + y.amount = 0
        /\ v.account = Other(o) /\ w.account = Other(o) /\ v # w /\ v.amount + w.amount = 0
    BY <1>5 DEF NewLeg
  <2>0. \A l : l \in S <=> l.account = a /\ l \in {x, y, v, w}
    BY <1>7, <2>1
  <2>3. x \in Leg /\ y \in Leg /\ v \in Leg /\ w \in Leg
    BY <1>1, <2>1
  <2>4. CASE a = o.primary
    <3>1. \A l : l \in S <=> l \in {x, y}
      BY ONLY <1>6, <2>0, <2>2, <2>4
    <3>2. S = {x, y}
      BY <3>1
    <3>3. SumLegs(S) = 0
      BY ONLY <2>2, <2>3, <3>2, PairCancels
    <3> QED BY <3>3
  <2>5. CASE a = Other(o)
    <3>1. \A l : l \in S <=> l \in {v, w}
      BY ONLY <1>6, <2>0, <2>2, <2>5
    <3>2. S = {v, w}
      BY <3>1
    <3>3. SumLegs(S) = 0
      BY ONLY <2>2, <2>3, <3>2, PairCancels
    <3> QED BY <3>3
  <2>6. CASE a # o.primary /\ a # Other(o)
    <3>1. \A l : l \notin S
      BY <2>0, <2>2, <2>6
    <3>2. S = {}
      BY <3>1
    <3>3. SumLegs(S) = 0
      BY ONLY <2>2, <2>3, <3>2, PairCancels
    <3> QED BY <3>3
  <2> QED BY <2>4, <2>5, <2>6
<1> QED BY <1>9, <1>10

LEMMA MoneyInvSuffices ==
    ASSUME MoneyInv
    PROVE  MoneyConserved
<1>1. SumLegs(legs) = MapThenSumSet(LAMBDA p : payments[p].amount, {p \in PaymentIds : payments[p].status = "POSTED"})
  <2>1. SumLegs(legs) = RowSum(payments, Posted)
    BY DEF MoneyInv, TotalsFit
  <2> QED BY <2>1, Zenon DEF RowSum, Posted
<1>2. \A p \in PaymentIds : payments[p].status = "REVERSED" =>
           \A a \in Accounts \union {GroupCash} : SumLegs({l \in LegsOn(a) : l.payment = p}) = 0
  BY ReversedPaymentsReturn
<1>3. ASSUME NEW i \in DOMAIN transactions
      PROVE  LET reversals == {j \in DOMAIN transactions : transactions[j].reversalOf = i}
             IN  /\ Cardinality(reversals) <= 1
                 /\ \A j \in reversals : \A a \in Accounts \union {Offset} :
                        SumLegs({l \in LegsOn(a) : l.txn \in {i, j}}) = 0
  <2> DEFINE reversals == {j \in DOMAIN transactions : transactions[j].reversalOf = i}
  <2>1. i # 0
    BY LegsKnown
  <2>2. \A j, k \in reversals : j = k
    BY <2>1 DEF MoneyInv, HistoryFits
  <2>3. \A j \in reversals : \A a \in Accounts \union {Offset} : SumLegs({l \in LegsOn(a) : l.txn \in {i, j}}) = 0
    BY ReversalsReturn
  <2> HIDE DEF reversals
  <2>4. Cardinality(reversals) <= 1
    <3>0. Cardinality({}) = 0
      BY FS_EmptySet
    <3>1. CASE reversals = {}
      BY <3>0, <3>1
    <3>2. CASE reversals # {}
      <4>1. PICK j : j \in reversals
        BY <3>2
      <4>2. reversals = {j}
        BY <2>2, <4>1
      <4>3. Cardinality({j}) = 1
        BY FS_Singleton, Zenon
      <4> QED BY <4>2, <4>3
    <3> QED BY <3>1, <3>2
  <2> QED BY <2>3, <2>4 DEF reversals
<1>4. /\ \A a \in Accounts : BalanceOf(a) \in -MaxMinor - 1 .. MaxMinor
      /\ \A a \in Accounts : accounts[a].deleted => BalanceOf(a) = 0
  BY DEF MoneyInv, TotalsFit
<1> QED BY <1>1, <1>2, <1>3, <1>4 DEF MoneyConserved

\* Accounts, group cash and the offset together hold exactly the payments that
\* count, every reversal cancels what it reverses, balances stay within 64
\* bits, and no hidden account holds money (package externalaccounts with the
\* postings of package finance).
THEOREM MoneyIsConserved == Spec => []MoneyConserved
<1>1. Spec => []MoneyInv
  <2>1. Init => MoneyInv
    BY MoneyInit
  <2>2. MoneyInv /\ [Next]_vars => MoneyInv'
    BY MoneyStep
  <2> QED BY <2>1, <2>2, PTL DEF Spec
<1>2. MoneyInv => MoneyConserved
  BY MoneyInvSuffices
<1> QED BY <1>1, <1>2, PTL
=============================================================================
