----------------------------- MODULE Accounting -----------------------------
(***************************************************************************)
(* The accounting core of one TeamTaler group: the packages bookings,      *)
(* finance, periods and ledger, and the membership lifecycle of package    *)
(* groups as far as it bears on money.                                     *)
(*                                                                         *)
(* Every operation below is one SQLite transaction (storage.WithTx opens   *)
(* it IMMEDIATE), so it is one action: a failed check aborts the           *)
(* transaction and leaves no trace.  Permissions and idempotency keys are  *)
(* the subject of other modules: here any member may issue any command.    *)
(***************************************************************************)
EXTENDS Allocation

CONSTANTS
    Members,        \* memberships of people with an e-mail address
    Guests,         \* memberships of temporary guests, created by a booking
    Prices,         \* totals of a product line, in minor units
    PaymentAmounts, \* amounts of payments, in minor units
    AssetAccounts,  \* where the configured payment methods book the money
    ReceivedDates,  \* instants at which a payment may have been received
    PaymentIds,     \* identifiers of payments; they are random, so any unused one may be next
    MaxTargets,     \* most targets of one booking command (maxBookingTargets)
    MaxItems,       \* most product lines of one cart (maxBulkBookingItems)
    MaxBookings,    \* bound on the number of bookings
    MaxPeriods      \* bound on the number of periods

NoMember == "none"  \* membership_id IS NULL

ASSUME AccountingAssumption ==
    /\ Members \cap Guests = {} /\ NoMember \notin Members \union Guests
    /\ Prices \subseteq Nat \ {0} /\ PaymentAmounts \subseteq Nat \ {0}
    /\ AssetAccounts \subseteq {"GROUP_CASH", "EXTERNAL_ACCOUNT"}
    /\ ReceivedDates \subseteq Nat
    /\ PaymentIds \subseteq Nat
    /\ MaxTargets \in Nat /\ MaxItems \in Nat /\ MaxBookings \in Nat
    /\ MaxPeriods \in Nat \ {0}

VARIABLES
    periods,            \* the status of each period, oldest first
    bookings,           \* the bookings in the order they were made
    payments,           \* set of payment records
    ledger,             \* set of ledger entries
    allocations,        \* per membership: its rows of the two allocation tables
    statements,         \* set of period statements
    memberStatus        \* per membership: its lifecycle status

vars == <<periods, bookings, payments, ledger, allocations, statements,
          memberStatus>>

-----------------------------------------------------------------------------
(***************************************************************************)
(* The shape of the stored rows.                                           *)
(***************************************************************************)

Memberships == Members \union Guests
PeriodIds   == 1 .. MaxPeriods

Statuses == {"ABSENT", "ACTIVE", "ARCHIVED", "DELETED"}

LedgerAccounts == {"MEMBER_RECEIVABLE", "CATEGORY_REVENUE"} \union AssetAccounts

Document == [kind : {"booking", "payment"}, id : Nat]

Entry == [doc : Document, reversal : BOOLEAN, account : LedgerAccounts,
          member : Memberships \union {NoMember}, period : PeriodIds, amount : Int]

Booking == [target : Memberships, amount : Prices, period : PeriodIds, voided : BOOLEAN]

Payment == [id : PaymentIds, member : Memberships, amount : PaymentAmounts,
            received : ReceivedDates, reversed : BOOLEAN]

\* The one OPEN period is always the newest one.
OpenPeriod == Len(periods)

BookingDoc(i) == [kind |-> "booking", id |-> i]
PaymentDoc(i) == [kind |-> "payment", id |-> i]

-----------------------------------------------------------------------------
(***************************************************************************)
(* Queries.                                                                *)
(***************************************************************************)

Receivables(entries, m) ==
    {e \in entries : e.account = "MEMBER_RECEIVABLE" /\ e.member = m}

\* MEMBER_RECEIVABLE entries with payment_id IS NULL.
ClaimEntries(entries, m) ==
    {e \in Receivables(entries, m) : e.doc.kind # "payment"}

ActivePayments(pays, m) == {p \in pays : p.member = m /\ ~p.reversed}

Balance(m) == SumAmounts(Receivables(ledger, m))

ChargesOf(m, p)  == PeriodClaim(ClaimEntries(ledger, m), p)
PaidOf(m, p)     == SumAmounts({r \in allocations[m].payments : r.target = p})
AppliedOf(m, p)  == SumAmounts({r \in allocations[m].corrections : r.target = p})
ProvidedOf(m, p) == SumAmounts({r \in allocations[m].corrections : r.source = p})

\* Target lists without duplicates (normalizeBookingTargets).
DistinctSeqs(S) == {s \in SeqOf(S, MaxTargets) : IsInjective(s)}

\* What a statement read shows as still due for period p (negative: credit).
DueOf(m, p) == ChargesOf(m, p) + ProvidedOf(m, p) - PaidOf(m, p) - AppliedOf(m, p)

Rebuilt(entries, pays, m) ==
    RebuildPaymentAllocations(ClaimEntries(entries, m), ActivePayments(pays, m))

\* Mutant of RebuildFor: only active memberships are rebuilt.
RebuildActive(members, entries, pays) ==
    [m \in Memberships |-> IF m \in members /\ memberStatus[m] = "ACTIVE"
                           THEN Rebuilt(entries, pays, m) ELSE allocations[m]]

\* The allocation tables after the given memberships were rebuilt.
RebuildFor(members, entries, pays) ==
    [m \in Memberships |-> IF m \in members
                           THEN Rebuilt(entries, pays, m) ELSE allocations[m]]

-----------------------------------------------------------------------------
Init ==
    /\ periods = <<"OPEN">>
    /\ bookings = <<>>
    /\ payments = {}
    /\ ledger = {}
    /\ allocations = [m \in Memberships |-> RebuildPaymentAllocations({}, {})]  \* no rows
    /\ statements = {}
    /\ memberStatus = [m \in Memberships |-> IF m \in Members THEN "ACTIVE" ELSE "ABSENT"]

(***************************************************************************)
(* Bookings.  loadBookingDetails finds the open period; a booking adds its *)
(* amount to the target's receivable and takes it from category revenue.   *)
(***************************************************************************)

InsertLedger(doc, reversal, account, member, period, amount) ==
    [doc |-> doc, reversal |-> reversal, account |-> account,
     member |-> member, period |-> period, amount |-> amount]

BookingLegs(i, b) ==
    {InsertLedger(BookingDoc(i), FALSE, "MEMBER_RECEIVABLE", b.target, b.period, b.amount),
     InsertLedger(BookingDoc(i), FALSE, "CATEGORY_REVENUE", NoMember, b.period, -b.amount)}

\* authorizeBookingTargets accepts ACTIVE memberships only; guests are created in the same transaction.
TargetsAccepted(targets, newGuests) ==
    /\ \A m \in ToSet(targets) : memberStatus[m] = "ACTIVE"
    /\ \A m \in ToSet(newGuests) : m \in Guests /\ memberStatus[m] = "ABSENT"

\* One booking per product line and target, item by item, in the open period.
NewBookings(items, all) ==
    [k \in 1 .. Len(items) * Len(all) |->
        [target |-> all[((k - 1) % Len(all)) + 1],
         amount |-> items[((k - 1) \div Len(all)) + 1],
         period |-> OpenPeriod,
         voided |-> FALSE]]

\* The bookings and their entries first, then one rebuild per target.
RecordBookings(items, targets, newGuests) ==
    LET all     == targets \o newGuests
        created == NewBookings(items, all)
        first   == Len(bookings)
    IN  /\ TargetsAccepted(targets, newGuests)
        /\ Len(bookings) + Len(created) <= MaxBookings
        /\ bookings' = bookings \o created
        /\ ledger' = ledger \union
               UNION {BookingLegs(first + k, created[k]) : k \in DOMAIN created}
        /\ allocations' = RebuildFor(ToSet(all), ledger', payments)
        /\ memberStatus' = [m \in Memberships |->
               IF m \in ToSet(newGuests) THEN "ACTIVE" ELSE memberStatus[m]]
        /\ UNCHANGED <<periods, payments, statements>>

Create(target, amount) == RecordBookings(<<amount>>, <<target>>, <<>>)

CreateBatch(targets, newGuests, amount) ==
    /\ Len(targets) + Len(newGuests) \in 1 .. MaxTargets
    /\ RecordBookings(<<amount>>, targets, newGuests)

CreateBulk(items, targets, newGuests) ==
    /\ Len(items) \in 1 .. MaxItems
    /\ Len(targets) + Len(newGuests) \in 1 .. MaxTargets
    /\ RecordBookings(items, targets, newGuests)

\* Mutant of Mirror: the reversal is posted to the period of the original.
MirrorInPlace(e) == [e EXCEPT !.reversal = TRUE, !.amount = -@]

\* A reversal mirrors every original entry of a document into the open period.
Mirror(e) == [e EXCEPT !.reversal = TRUE, !.period = OpenPeriod, !.amount = -@]

Originals(doc) == {e \in ledger : e.doc = doc /\ ~e.reversal}

\* Mutant of Voidable: the check for an earlier void is missing.
VoidableAgain(i) == bookings[i].voided \in BOOLEAN

Voidable(i) == ~bookings[i].voided

Void(i) ==
    /\ Voidable(i)
    /\ bookings' = [bookings EXCEPT ![i].voided = TRUE]
    /\ ledger' = ledger \union {Mirror(e) : e \in Originals(BookingDoc(i))}
    /\ allocations' = RebuildFor({bookings[i].target}, ledger', payments)
    /\ UNCHANGED <<periods, payments, statements, memberStatus>>

(***************************************************************************)
(* Payments.  A member records an own payment while active; the finance    *)
(* workspace may record one for any membership, but for a deleted one      *)
(* only up to its open balance.                                            *)
(***************************************************************************)

PaymentAccepted(source, m, amount) ==
    /\ memberStatus[m] # "ABSENT"
    /\ source = "self-service" => memberStatus[m] = "ACTIVE"
    /\ memberStatus[m] = "DELETED" => Balance(m) > 0 /\ amount <= Balance(m)

PaymentLegs(p, asset) ==
    {InsertLedger(PaymentDoc(p.id), FALSE, "MEMBER_RECEIVABLE", p.member, OpenPeriod, -p.amount),
     InsertLedger(PaymentDoc(p.id), FALSE, asset, NoMember, OpenPeriod, p.amount)}

CreatePayment(source, id, m, amount, received, asset) ==
    LET p == [id |-> id, member |-> m, amount |-> amount,
              received |-> received, reversed |-> FALSE]
    IN  /\ \A q \in payments : q.id # id
        /\ PaymentAccepted(source, m, amount)
        /\ payments' = payments \union {p}
        /\ ledger' = ledger \union PaymentLegs(p, asset)
        /\ allocations' = RebuildFor({m}, ledger', payments')
        /\ UNCHANGED <<periods, bookings, statements, memberStatus>>

ReversePayment(p) ==
    /\ ~p.reversed
    /\ payments' = (payments \ {p}) \union {[p EXCEPT !.reversed = TRUE]}
    /\ ledger' = ledger \union {Mirror(e) : e \in Originals(PaymentDoc(p.id))}
    /\ allocations' = RebuildFor({p.member}, ledger', payments')
    /\ UNCHANGED <<periods, bookings, statements, memberStatus>>

(***************************************************************************)
(* Settlement: closing the open period rebuilds every membership, freezes  *)
(* one statement per addressable or affected membership and opens the      *)
(* next period.  The group setting settlements_enabled can refuse the       *)
(* command at any time and is left out: it changes no other state.         *)
(***************************************************************************)

HasEmail(m) == m \in Members /\ memberStatus[m] # "DELETED"

\* Mutant of HasActivity: only allocations count, not the period's entries.
HasAllocations(m, p, rows) ==
    \/ \E r \in rows.payments : r.target = p
    \/ \E r \in rows.corrections : r.target = p \/ r.source = p

HasActivity(m, p, rows) ==
    \/ \E e \in ledger : e.member = m /\ e.period = p
    \/ \E r \in rows.payments : r.target = p
    \/ \E r \in rows.corrections : r.target = p \/ r.source = p

Snapshot(m, p, rows) ==
    [member |-> m, period |-> p,
     charges  |-> PeriodClaim(ClaimEntries(ledger, m), p),
     paid     |-> SumAmounts({r \in rows.payments : r.target = p}),
     applied  |-> SumAmounts({r \in rows.corrections : r.target = p}),
     provided |-> SumAmounts({r \in rows.corrections : r.source = p})]

Present == {m \in Memberships : memberStatus[m] # "ABSENT"}

\* Mutant of NextPeriods: the settled period stays open.
PeriodsLeftOpen == Append(periods, "OPEN")

NextPeriods == Append([periods EXCEPT ![OpenPeriod] = "CLOSED"], "OPEN")

Close ==
    LET p == OpenPeriod
    IN  /\ p < MaxPeriods
        /\ allocations' = RebuildFor(Present, ledger, payments)
        /\ statements' = statements \union
               {Snapshot(m, p, allocations'[m]) : m \in
                   {n \in Present : HasEmail(n) \/ HasActivity(n, p, allocations'[n])}}
        /\ periods' = NextPeriods
        /\ UNCHANGED <<bookings, payments, ledger, memberStatus>>

(***************************************************************************)
(* Membership lifecycle.                                                   *)
(***************************************************************************)

MoveMember(m, from, to) ==
    /\ memberStatus[m] = from
    /\ memberStatus' = [memberStatus EXCEPT ![m] = to]
    /\ UNCHANGED <<periods, bookings, payments, ledger, allocations, statements>>

ArchiveMember(m) == MoveMember(m, "ACTIVE", "ARCHIVED")

ReactivateMember(m) == MoveMember(m, "ARCHIVED", "ACTIVE")

PermanentlyDeleteMember(m) == Balance(m) = 0 /\ MoveMember(m, "ARCHIVED", "DELETED")

Next ==
    \/ \E m \in Memberships, a \in Prices : Create(m, a)
    \/ \E ts \in DistinctSeqs(Memberships), gs \in DistinctSeqs(Guests), a \in Prices :
           CreateBatch(ts, gs, a)
    \/ \E items \in SeqOf(Prices, MaxItems), ts \in DistinctSeqs(Memberships),
          gs \in DistinctSeqs(Guests) : CreateBulk(items, ts, gs)
    \/ \E i \in DOMAIN bookings : Void(i)
    \/ \E source \in {"self-service", "finance"}, id \in PaymentIds, m \in Memberships,
          a \in PaymentAmounts, r \in ReceivedDates, asset \in AssetAccounts :
           CreatePayment(source, id, m, a, r, asset)
    \/ \E p \in payments : ReversePayment(p)
    \/ Close
    \/ \E m \in Memberships :
           ArchiveMember(m) \/ ReactivateMember(m) \/ PermanentlyDeleteMember(m)

Spec == Init /\ [][Next]_vars

-----------------------------------------------------------------------------
(***************************************************************************)
(* Properties.                                                             *)
(***************************************************************************)

\* Every table holds rows of its declared shape, and the open period is the newest.
TypeOK ==
    /\ periods \in Seq({"OPEN", "CLOSED"})
    /\ Len(periods) \in PeriodIds
    /\ \A p \in DOMAIN periods : periods[p] = "OPEN" <=> p = OpenPeriod
    /\ bookings \in Seq(Booking)
    /\ payments \subseteq Payment
    /\ ledger \subseteq Entry
    /\ DOMAIN allocations = Memberships
    /\ \A s \in statements : s.member \in Memberships /\ s.period \in 1 .. OpenPeriod - 1
    /\ memberStatus \in [Memberships -> Statuses]

Reversed(legs, p) == {[e EXCEPT !.reversal = TRUE, !.period = p, !.amount = -@] : e \in legs}

EntriesOf(doc) == {e \in ledger : e.doc = doc}

BookingPosted(i) ==
    LET legs == BookingLegs(i, bookings[i])
    IN  IF bookings[i].voided
        THEN \E p \in bookings[i].period .. OpenPeriod :
                 EntriesOf(BookingDoc(i)) = legs \union Reversed(legs, p)
        ELSE EntriesOf(BookingDoc(i)) = legs

PaymentPosted(p) ==
    \E asset \in AssetAccounts, o \in 1 .. OpenPeriod :
        LET legs == {InsertLedger(PaymentDoc(p.id), FALSE, "MEMBER_RECEIVABLE", p.member, o, -p.amount),
                     InsertLedger(PaymentDoc(p.id), FALSE, asset, NoMember, o, p.amount)}
        IN  IF p.reversed
            THEN \E r \in o .. OpenPeriod : EntriesOf(PaymentDoc(p.id)) = legs \union Reversed(legs, r)
            ELSE EntriesOf(PaymentDoc(p.id)) = legs

(***************************************************************************)
(* The ledger is exactly its documents: a booking or payment has its two   *)
(* balanced entries; when it is voided or reversed, once, it has their     *)
(* mirror image in one period not before it; nothing else is posted        *)
(* (Void, ReversePayment and the immutability triggers on the table).      *)
(***************************************************************************)
LedgerMatchesDocuments ==
    /\ \A i \in DOMAIN bookings : BookingPosted(i)
    /\ \A p \in payments : PaymentPosted(p)
    /\ \A e \in ledger :
           \/ \E i \in DOMAIN bookings : e.doc = BookingDoc(i)
           \/ \E p \in payments : e.doc = PaymentDoc(p.id)

(***************************************************************************)
(* The allocation tables are never stale: whatever commands of whichever   *)
(* members were interleaved, the stored rows of every membership are what  *)
(* RebuildPaymentAllocations would compute from the ledger now.            *)
(***************************************************************************)
AllocationsCurrent ==
    \A m \in Memberships : allocations[m] = Rebuilt(ledger, payments, m)

Unallocated(m) ==
    SumAmounts(ActivePayments(payments, m)) - SumAmounts(allocations[m].payments)

(***************************************************************************)
(* The two views of a debt agree, and no membership is shown a debt while  *)
(* it has money: the ledger balance is what the periods show as due less   *)
(* the payments not yet applied, and unapplied payments or an unspent      *)
(* correction never coexist with a period still due.                       *)
(***************************************************************************)
DebtsReconcile ==
    \A m \in Memberships :
        /\ Balance(m) = MapThenSumSet(LAMBDA p : DueOf(m, p), 1 .. OpenPeriod) - Unallocated(m)
        /\ Unallocated(m) >= 0
        /\ (Unallocated(m) > 0 \/ \E p \in 1 .. OpenPeriod : DueOf(m, p) < 0)
               => \A p \in 1 .. OpenPeriod : DueOf(m, p) <= 0

(***************************************************************************)
(* A statement read after any later commands still shows the charges that  *)
(* were frozen when its period was closed, and a membership without a      *)
(* statement has nothing due in that period (snapshotStatements skips only *)
(* memberships that the period does not concern).                          *)
(***************************************************************************)
StatementsMatchLedger ==
    \A m \in Memberships : \A p \in 1 .. OpenPeriod - 1 :
        LET found == {s \in statements : s.member = m /\ s.period = p}
        IN  /\ Cardinality(found) <= 1
            /\ \A s \in found : s.charges = ChargesOf(m, p)
            /\ found = {} => ChargesOf(m, p) = 0 /\ DueOf(m, p) = 0

(***************************************************************************)
(* A closed period never gains or loses a ledger entry: corrections of old *)
(* documents are posted to the open period.                                *)
(***************************************************************************)
ClosedPeriodsFrozen ==
    [][\A p \in DOMAIN periods : periods[p] = "CLOSED" =>
           {e \in ledger' : e.period = p} = {e \in ledger : e.period = p}]_vars

(***************************************************************************)
(* What is due for a closed period rises again only when a payment of that *)
(* membership is reversed, or when a new booking uses up the negative      *)
(* balance of the open period that had covered it.                         *)
(***************************************************************************)
ClosedDueRisesOnlyByCorrection ==
    [][\A m \in Memberships, p \in 1 .. OpenPeriod - 1 :
           (DueOf(m, p)' > DueOf(m, p) /\ DueOf(m, p)' > 0) =>
               \/ \E q \in payments : q \in ActivePayments(payments, m) /\ q \notin payments'
               \/ ChargesOf(m, OpenPeriod) < 0]_vars
=============================================================================
