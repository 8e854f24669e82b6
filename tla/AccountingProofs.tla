------------------------- MODULE AccountingProofs -------------------------
(***************************************************************************)
(* Proofs about module Accounting, for every value of the constants: the   *)
(* type invariant, that the ledger is exactly its documents, that          *)
(* allocations are never stale, that settled periods are final, what the   *)
(* rebuild of the allocations guarantees, that statements stay true, that  *)
(* debts reconcile, that old debts stay settled, and that the rebuild      *)
(* computes what its reference in module AllocationCheck defines.          *)
(***************************************************************************)
EXTENDS Accounting, AllocationCheck, Counting, TLAPS

(***************************************************************************)
(* Arithmetic behind the item-by-item numbering of bulk bookings:          *)
(* splitting k - 1 by d yields an index into the targets and one into the  *)
(* items.                                                                  *)
(***************************************************************************)
LEMMA QuotientBound ==
    ASSUME NEW n \in Nat, NEW d \in Nat, d > 0, NEW k \in 1 .. n * d
    PROVE  /\ ((k - 1) % d) + 1 \in 1 .. d
           /\ ((k - 1) \div d) + 1 \in 1 .. n
<1> DEFINE q == (k - 1) \div d
           r == (k - 1) % d
<1>0. k - 1 \in Nat /\ k - 1 < n * d
  OBVIOUS
<1>1. r \in 0 .. d - 1 /\ q \in Nat /\ k - 1 = d * q + r
  BY <1>0, Z3
<1>2. q < n
  <2>1. SUFFICES ASSUME q >= n PROVE FALSE
    BY <1>1
  <2>2. PICK e \in Nat : q = n + e
    BY <2>1, <1>1
  <2>3. d * q = d * n + d * e
    BY <2>2
  <2>4. d * e >= 0
    BY <2>2
  <2> QED BY <1>0, <1>1, <2>3, <2>4
<1> QED BY <1>1, <1>2

(***************************************************************************)
(* A booking command creates well-formed bookings, for its own targets     *)
(* only, in the open period and not yet voided.                            *)
(***************************************************************************)
LEMMA NewBookingsType ==
    ASSUME NEW items \in Seq(Prices), NEW all \in Seq(Memberships), OpenPeriod \in PeriodIds
    PROVE  /\ NewBookings(items, all) \in Seq(Booking)
           /\ \A k \in DOMAIN NewBookings(items, all) :
                  /\ NewBookings(items, all)[k].target \in ToSet(all)
                  /\ NewBookings(items, all)[k].period = OpenPeriod
                  /\ ~NewBookings(items, all)[k].voided
<1> DEFINE N == Len(items) * Len(all)
<1>1. N \in Nat
  OBVIOUS
<1>2. ASSUME NEW k \in 1 .. N
      PROVE  /\ NewBookings(items, all)[k] \in Booking
             /\ NewBookings(items, all)[k].target \in ToSet(all)
             /\ NewBookings(items, all)[k].period = OpenPeriod
             /\ ~NewBookings(items, all)[k].voided
  <2>1. Len(all) \in Nat /\ Len(all) > 0 /\ Len(items) \in Nat
    <3>1. Len(all) # 0
      BY <1>2
    <3> QED BY <3>1
  <2>2. /\ ((k - 1) % Len(all)) + 1 \in 1 .. Len(all)
        /\ ((k - 1) \div Len(all)) + 1 \in 1 .. Len(items)
    BY <2>1, QuotientBound
  <2> QED BY <2>2 DEF NewBookings, Booking, ToSet
<1>3. DOMAIN NewBookings(items, all) = 1 .. N
  BY DEF NewBookings
<1>4. NewBookings(items, all) \in [1 .. N -> Booking]
  BY <1>2 DEF NewBookings
<1> QED BY <1>1, <1>2, <1>3, <1>4

(***************************************************************************)
(* Payment identifiers are primary keys: no two payment rows share one.    *)
(***************************************************************************)
UniquePayments == \A p, q \in payments : p.id = q.id => p = q

(***************************************************************************)
(* Every booking belongs to a period that exists.                          *)
(***************************************************************************)
PeriodsExist == \A i \in DOMAIN bookings : bookings[i].period \in 1 .. OpenPeriod

(***************************************************************************)
(* The inductive invariant.  The ledger can only be compared with its      *)
(* documents when a document is identified by its key (UniquePayments) and *)
(* no document lies in the future (PeriodsExist); AllocationsCurrent rests *)
(* on both, because a rebuild of one membership must not concern another.  *)
(***************************************************************************)
IInv == TypeOK /\ UniquePayments /\ PeriodsExist /\ LedgerMatchesDocuments /\ AllocationsCurrent

(***************************************************************************)
(* Document keys of different bookings, of different payments, and of a    *)
(* booking and a payment never coincide.                                   *)
(***************************************************************************)
LEMMA DistinctDocuments ==
    /\ \A i, j : BookingDoc(i) = BookingDoc(j) => i = j
    /\ \A i, j : PaymentDoc(i) = PaymentDoc(j) => i = j
    /\ \A i, j : BookingDoc(i) # PaymentDoc(j)
<1>1. \A i, j : BookingDoc(i) = BookingDoc(j) => i = j
  <2>1. \A i : BookingDoc(i).id = i
    BY DEF BookingDoc
  <2> QED BY <2>1
<1>2. \A i, j : PaymentDoc(i) = PaymentDoc(j) => i = j
  <2>1. \A i : PaymentDoc(i).id = i
    BY DEF PaymentDoc
  <2> QED BY <2>1
<1>3. \A i, j : BookingDoc(i) # PaymentDoc(j)
  <2>1. \A i : BookingDoc(i).kind = "booking" /\ PaymentDoc(i).kind = "payment"
    BY DEF BookingDoc, PaymentDoc
  <2> QED BY <2>1
<1> QED BY <1>1, <1>2, <1>3

(***************************************************************************)
(* A price and its negation are integers.                                  *)
(***************************************************************************)
LEMMA PriceType == \A a \in Prices : a \in Nat /\ -a \in Int
<1>1. Prices \subseteq Nat
  BY AccountingAssumption
<1> QED BY <1>1

(***************************************************************************)
(* The two entries of a booking are ledger entries of that booking.        *)
(***************************************************************************)
LEMMA BookingLegsType ==
    ASSUME NEW i \in Nat, NEW b \in Booking
    PROVE  /\ BookingLegs(i, b) \subseteq Entry
           /\ \A e \in BookingLegs(i, b) :
                 /\ e.doc = BookingDoc(i)
                 /\ e.period = b.period
                 /\ e.member \in {b.target, NoMember}
                 /\ ~e.reversal
<1>0. b.amount \in Prices
  BY DEF Booking
<1>1. b.amount \in Nat /\ -b.amount \in Int
  BY <1>0, PriceType
<1> QED BY <1>1 DEF BookingLegs, InsertLedger, Booking, Entry, LedgerAccounts, Document, BookingDoc, PaymentDoc

(***************************************************************************)
(* Create, CreateBatch and CreateBulk keep the inductive invariant.        *)
(***************************************************************************)
LEMMA RecordBookingsKeeps ==
    ASSUME IInv, NEW items \in Seq(Prices), NEW targets \in Seq(Memberships),
           NEW newGuests \in Seq(Guests), RecordBookings(items, targets, newGuests)
    PROVE  IInv'
<1> DEFINE all == targets \o newGuests
           created == NewBookings(items, all)
           n == Len(bookings)
           legs(k) == BookingLegs(n + k, created[k])
<1> USE DEF IInv
<1>1. all \in Seq(Memberships)
  BY DEF Memberships
<1>2. OpenPeriod \in PeriodIds /\ n \in Nat
  BY DEF TypeOK, OpenPeriod
<1>3. /\ created \in Seq(Booking)
      /\ \A k \in DOMAIN created : /\ created[k] \in Booking
                                   /\ created[k].target \in ToSet(all)
                                   /\ created[k].period = OpenPeriod
                                   /\ ~created[k].voided
  <2> HIDE DEF all
  <2>1. created \in Seq(Booking)
    BY <1>1, <1>2, NewBookingsType
  <2>2. \A k \in DOMAIN created : created[k] \in Booking
    <3> HIDE DEF created
    <3> QED BY <2>1
  <2>3. \A k \in DOMAIN created : /\ created[k].target \in ToSet(all)
                                  /\ created[k].period = OpenPeriod
                                  /\ ~created[k].voided
    BY <1>1, <1>2, NewBookingsType
  <2> QED BY <2>1, <2>2, <2>3
<1>4. /\ bookings' = bookings \o created
      /\ ledger' = ledger \union UNION {legs(k) : k \in DOMAIN created}
      /\ allocations' = RebuildFor(ToSet(all), ledger', payments)
      /\ memberStatus' = [m \in Memberships |->
               IF m \in ToSet(newGuests) THEN "ACTIVE" ELSE memberStatus[m]]
      /\ UNCHANGED <<periods, payments, statements>>
  BY DEF RecordBookings
<1> HIDE DEF created, all
<1>5. ASSUME NEW k \in DOMAIN created
      PROVE  /\ n + k \in Nat
             /\ legs(k) \subseteq Entry
             /\ \A e \in legs(k) : /\ e.doc = BookingDoc(n + k)
                                   /\ e.period = OpenPeriod
                                   /\ e.member \in ToSet(all) \union {NoMember}
  <2>1. n + k \in Nat
    BY <1>2, <1>3
  <2> QED BY <1>3, <2>1, BookingLegsType
<1>6. TypeOK'
  <2>1. bookings' \in Seq(Booking)
    BY <1>3, <1>4 DEF TypeOK
  <2>2. ledger' \subseteq Entry
    BY <1>4, <1>5 DEF TypeOK
  <2>3. memberStatus' \in [Memberships -> Statuses]
    BY <1>4 DEF TypeOK, Statuses
  <2>4. DOMAIN allocations' = Memberships
    BY <1>4 DEF RebuildFor
  <2> QED BY <1>4, <2>1, <2>2, <2>3, <2>4 DEF TypeOK, OpenPeriod
<1>7. UniquePayments'
  BY <1>4 DEF UniquePayments
<1>8. /\ \A i \in DOMAIN bookings : bookings'[i] = bookings[i]
      /\ \A k \in DOMAIN created : bookings'[n + k] = created[k]
      /\ \A i \in DOMAIN bookings' : i \in DOMAIN bookings \/ \E k \in DOMAIN created : i = n + k
      /\ DOMAIN bookings = 1 .. n /\ DOMAIN created = 1 .. Len(created)
      /\ DOMAIN bookings \subseteq DOMAIN bookings'
      /\ \A k \in DOMAIN created : n + k \in DOMAIN bookings'
  <2>1. bookings \in Seq(Booking) /\ created \in Seq(Booking) /\ bookings' = bookings \o created
    BY <1>3, <1>4 DEF TypeOK
  <2>2. ASSUME NEW i \in DOMAIN bookings', i \notin DOMAIN bookings
        PROVE  \E k \in DOMAIN created : i = n + k
    <3>1. i - n \in DOMAIN created /\ i = n + (i - n)
      BY <2>1, <2>2
    <3> QED BY <3>1
  <2> QED BY <2>1, <2>2
<1>9. \A doc : (\A k \in DOMAIN created : doc # BookingDoc(n + k)) => EntriesOf(doc)' = EntriesOf(doc)
  BY <1>4, <1>5 DEF EntriesOf
<1>10. LedgerMatchesDocuments'
  <2>1. ASSUME NEW i \in DOMAIN bookings PROVE BookingPosted(i)'
    <3>1. EntriesOf(BookingDoc(i))' = EntriesOf(BookingDoc(i))
      BY <1>8, <1>9, <1>2 DEF BookingDoc
    <3>2. BookingPosted(i)
      BY DEF LedgerMatchesDocuments
    <3>3. bookings'[i] = bookings[i] /\ OpenPeriod' = OpenPeriod
      BY <1>8, <1>4 DEF OpenPeriod
    <3> QED BY <3>1, <3>2, <3>3 DEF BookingPosted
  <2>2. ASSUME NEW k \in DOMAIN created, NEW j, j = n + k PROVE BookingPosted(j)'
    <3>0. \A i \in DOMAIN bookings : i # j
      BY <1>2, <1>8, <2>2
    <3>1. \A e \in ledger : e.doc # BookingDoc(j)
      BY <3>0, DistinctDocuments DEF LedgerMatchesDocuments
    <3>2. \A l \in DOMAIN created : l # k => n + l # j
      BY <1>2, <1>8, <2>2
    <3>3. \A l \in DOMAIN created : l # k => BookingDoc(n + l) # BookingDoc(j)
      BY <3>2, DistinctDocuments
    <3>4. \A e \in ledger' : e.doc = BookingDoc(j) <=> e \in legs(k)
      <4> HIDE DEF legs
      <4> QED BY <1>4, <1>5, <3>1, <3>3, <2>2
    <3>5. EntriesOf(BookingDoc(j))' = legs(k)
      <4> HIDE DEF legs
      <4>1. legs(k) \subseteq ledger'
        BY <1>4
      <4> QED BY <3>4, <4>1 DEF EntriesOf
    <3>6. bookings'[j] = created[k] /\ ~created[k].voided
      BY <1>8, <1>3, <2>2
    <3> QED BY <3>5, <3>6, <2>2 DEF BookingPosted
  <2>3. ASSUME NEW p \in payments' PROVE PaymentPosted(p)'
    <3>1. EntriesOf(PaymentDoc(p.id))' = EntriesOf(PaymentDoc(p.id))
      BY <1>9 DEF BookingDoc, PaymentDoc
    <3>2. PaymentPosted(p)
      BY <1>4 DEF LedgerMatchesDocuments
    <3>3. OpenPeriod' = OpenPeriod
      BY <1>4 DEF OpenPeriod
    <3> QED BY <3>1, <3>2, <3>3 DEF PaymentPosted
  <2>4. ASSUME NEW e \in ledger'
        PROVE  \/ \E i \in DOMAIN bookings' : e.doc = BookingDoc(i)
               \/ \E p \in payments' : e.doc = PaymentDoc(p.id)
    BY <1>4, <1>5, <1>8 DEF LedgerMatchesDocuments
  <2>5. \A i \in DOMAIN bookings' : BookingPosted(i)'
    BY <2>1, <2>2, <1>8
  <2> QED BY <2>3, <2>4, <2>5 DEF LedgerMatchesDocuments
<1>11. AllocationsCurrent'
  <2>1. ASSUME NEW m \in Memberships PROVE allocations'[m] = Rebuilt(ledger', payments', m)
    <3>1. CASE m \in ToSet(all)
      BY <1>4, <3>1 DEF RebuildFor
    <3>2. CASE m \notin ToSet(all)
      <4>1. ClaimEntries(ledger', m) = ClaimEntries(ledger, m)
        BY <1>4, <1>5, <3>2, AccountingAssumption DEF ClaimEntries, Receivables, Memberships
      <4>2. allocations'[m] = allocations[m]
        BY <1>4, <3>2 DEF RebuildFor
      <4> QED BY <1>4, <4>1, <4>2 DEF AllocationsCurrent, Rebuilt
    <3> QED BY <3>1, <3>2
  <2> QED BY <2>1 DEF AllocationsCurrent
<1>12. PeriodsExist'
  <2>1. OpenPeriod' = OpenPeriod /\ OpenPeriod \in 1 .. OpenPeriod
    BY <1>2, <1>4 DEF OpenPeriod, PeriodIds
  <2>2. \A i \in DOMAIN bookings' : bookings'[i].period \in 1 .. OpenPeriod
    BY <1>3, <1>8, <2>1 DEF PeriodsExist
  <2> QED BY <2>1, <2>2 DEF PeriodsExist
<1> QED BY <1>6, <1>7, <1>10, <1>11, <1>12

(***************************************************************************)
(* The mirror image of a ledger entry is a ledger entry of the same        *)
(* document.                                                               *)
(***************************************************************************)
LEMMA MirrorType ==
    ASSUME TypeOK, NEW e \in ledger
    PROVE  /\ Mirror(e) \in Entry
           /\ Mirror(e).doc = e.doc /\ Mirror(e).member = e.member
           /\ Mirror(e).account = e.account /\ Mirror(e).period = OpenPeriod
<1>1. e \in Entry /\ OpenPeriod \in PeriodIds
  BY DEF TypeOK, OpenPeriod
<1>2. e.amount \in Int /\ -e.amount \in Int
  BY <1>1 DEF Entry
<1> QED BY <1>1, <1>2 DEF Mirror, Entry

(***************************************************************************)
(* Mirroring a set of entries is reversing it in the open period.          *)
(***************************************************************************)
LEMMA MirrorsAreReversed ==
    ASSUME NEW doc, \A e \in EntriesOf(doc) : ~e.reversal
    PROVE  {Mirror(e) : e \in Originals(doc)} = Reversed(EntriesOf(doc), OpenPeriod)
<1>1. Originals(doc) = EntriesOf(doc)
  BY DEF Originals, EntriesOf
<1> QED BY <1>1 DEF Mirror, Reversed

(***************************************************************************)
(* Posting entries of one document leaves the entries of all others alone. *)
(***************************************************************************)
LEMMA OtherDocumentsKept ==
    ASSUME NEW new, NEW doc, ledger' = ledger \union new, \A e \in new : e.doc = doc,
           NEW other, other # doc
    PROVE  EntriesOf(other)' = EntriesOf(other)
BY DEF EntriesOf

(***************************************************************************)
(* Voiding a booking keeps the inductive invariant.                        *)
(***************************************************************************)
LEMMA VoidKeeps ==
    ASSUME IInv, NEW i \in DOMAIN bookings, Void(i)
    PROVE  IInv'
<1> DEFINE b == bookings[i]
           legs == BookingLegs(i, b)
           new == {Mirror(e) : e \in Originals(BookingDoc(i))}
<1> USE DEF IInv
<1>1. b \in Booking /\ i \in Nat /\ bookings \in Seq(Booking)
  BY DEF TypeOK
<1>2. /\ ~b.voided
      /\ bookings' = [bookings EXCEPT ![i].voided = TRUE]
      /\ ledger' = ledger \union new
      /\ allocations' = RebuildFor({b.target}, ledger', payments)
      /\ UNCHANGED <<periods, payments, statements, memberStatus>>
  BY DEF Void, Voidable
<1>3. EntriesOf(BookingDoc(i)) = legs
  BY <1>2 DEF LedgerMatchesDocuments, BookingPosted
<1>4. /\ \A e \in legs : ~e.reversal /\ e.member \in {b.target, NoMember} /\ e.doc = BookingDoc(i)
  BY <1>1, BookingLegsType
<1>5. new = Reversed(legs, OpenPeriod)
  BY <1>3, <1>4, MirrorsAreReversed
<1>6. \A e \in new : /\ e \in Entry
                     /\ e.doc = BookingDoc(i)
                     /\ e.member \in {b.target, NoMember}
  <2>1. \A e \in Originals(BookingDoc(i)) : e \in ledger /\ e \in legs
    BY <1>3 DEF Originals, EntriesOf
  <2> QED BY <2>1, <1>4, MirrorType
<1>7. /\ bookings' \in Seq(Booking)
      /\ DOMAIN bookings' = DOMAIN bookings
      /\ \A j \in DOMAIN bookings : j # i => bookings'[j] = bookings[j]
      /\ bookings'[i] = [b EXCEPT !.voided = TRUE]
  <2>1. [b EXCEPT !.voided = TRUE] \in Booking
    BY <1>1 DEF Booking
  <2>2. bookings' = [bookings EXCEPT ![i] = [b EXCEPT !.voided = TRUE]]
    BY <1>2
  <2> QED BY <1>1, <2>1, <2>2
<1>8. OpenPeriod' = OpenPeriod
  BY <1>2 DEF OpenPeriod
<1> HIDE DEF new
<1>9. TypeOK'
  <2>1. ledger' \subseteq Entry
    BY <1>2, <1>6 DEF TypeOK
  <2>2. DOMAIN allocations' = Memberships
    BY <1>2 DEF RebuildFor
  <2> QED BY <1>2, <1>7, <1>8, <2>1, <2>2 DEF TypeOK, OpenPeriod
<1>10. LedgerMatchesDocuments'
  <2>1. ASSUME NEW j \in DOMAIN bookings, j # i PROVE BookingPosted(j)'
    <3>1. EntriesOf(BookingDoc(j))' = EntriesOf(BookingDoc(j))
      BY <1>2, <1>6, <2>1, DistinctDocuments, OtherDocumentsKept
    <3>2. BookingPosted(j)
      BY DEF LedgerMatchesDocuments
    <3> QED BY <3>1, <3>2, <1>7, <1>8, <2>1 DEF BookingPosted
  <2>2. BookingPosted(i)'
    <3>1. EntriesOf(BookingDoc(i))' = legs \union Reversed(legs, OpenPeriod)
      BY <1>2, <1>3, <1>5, <1>6 DEF EntriesOf
    <3>2. BookingLegs(i, bookings'[i]) = legs /\ bookings'[i].voided /\ bookings'[i].period = b.period
      BY <1>7, <1>1 DEF BookingLegs, Booking
    <3>3. OpenPeriod \in b.period .. OpenPeriod
      <4>1. b.period \in 1 .. OpenPeriod /\ OpenPeriod \in Nat
        BY DEF PeriodsExist, TypeOK, OpenPeriod
      <4> QED BY <4>1
    <3> QED BY <3>1, <3>2, <3>3, <1>8 DEF BookingPosted
  <2>3. ASSUME NEW p \in payments' PROVE PaymentPosted(p)'
    <3>0. PaymentDoc(p.id) # BookingDoc(i)
      BY DistinctDocuments
    <3>1. EntriesOf(PaymentDoc(p.id))' = EntriesOf(PaymentDoc(p.id))
      BY <1>2, <1>6, <3>0, OtherDocumentsKept
    <3>2. PaymentPosted(p)
      BY <1>2 DEF LedgerMatchesDocuments
    <3> QED BY <3>1, <3>2, <1>8 DEF PaymentPosted
  <2>4. ASSUME NEW e \in ledger'
        PROVE  \/ \E j \in DOMAIN bookings' : e.doc = BookingDoc(j)
               \/ \E p \in payments' : e.doc = PaymentDoc(p.id)
    BY <1>2, <1>6, <1>7 DEF LedgerMatchesDocuments
  <2> QED BY <2>1, <2>2, <2>3, <2>4, <1>7 DEF LedgerMatchesDocuments
<1>11. AllocationsCurrent'
  <2>1. ASSUME NEW m \in Memberships PROVE allocations'[m] = Rebuilt(ledger', payments', m)
    <3>1. CASE m = b.target
      BY <1>2, <3>1 DEF RebuildFor
    <3>2. CASE m # b.target
      <4>1. ClaimEntries(ledger', m) = ClaimEntries(ledger, m)
        BY <1>2, <1>6, <3>2, AccountingAssumption DEF ClaimEntries, Receivables, Memberships
      <4>2. allocations'[m] = allocations[m]
        BY <1>2, <3>2 DEF RebuildFor
      <4> QED BY <1>2, <4>1, <4>2 DEF AllocationsCurrent, Rebuilt
    <3> QED BY <3>1, <3>2
  <2> QED BY <2>1 DEF AllocationsCurrent
<1>12. UniquePayments' /\ PeriodsExist'
  BY <1>1, <1>2, <1>7, <1>8 DEF UniquePayments, PeriodsExist, Booking
<1> QED BY <1>9, <1>10, <1>11, <1>12

(***************************************************************************)
(* A payment amount and its negation are integers.                         *)
(***************************************************************************)
LEMMA PaymentAmountType == \A a \in PaymentAmounts : a \in Nat /\ -a \in Int
<1>1. PaymentAmounts \subseteq Nat
  BY AccountingAssumption
<1> QED BY <1>1

LegsIn(p, asset, o) ==
    {InsertLedger(PaymentDoc(p.id), FALSE, "MEMBER_RECEIVABLE", p.member, o, -p.amount),
     InsertLedger(PaymentDoc(p.id), FALSE, asset, NoMember, o, p.amount)}

(***************************************************************************)
(* The two entries of a payment are ledger entries of that payment.        *)
(***************************************************************************)
LEMMA PaymentLegsType ==
    ASSUME NEW p \in Payment, NEW asset \in AssetAccounts, NEW o \in PeriodIds
    PROVE  /\ LegsIn(p, asset, o) \subseteq Entry
           /\ \A e \in LegsIn(p, asset, o) :
                 /\ e.doc = PaymentDoc(p.id)
                 /\ e.period = o
                 /\ ~e.reversal
<1>1. p.amount \in Int /\ -p.amount \in Int /\ p.member \in Memberships
  BY PaymentAmountType DEF Payment
<1>2. p.id \in Nat
  BY AccountingAssumption DEF Payment
<1>3. PaymentDoc(p.id) \in Document
  BY <1>2 DEF PaymentDoc, Document
<1> QED BY <1>1, <1>3 DEF LegsIn, InsertLedger, Entry, LedgerAccounts

(***************************************************************************)
(* Entries of payments are no claims, so posting them concerns nobody else *)
(***************************************************************************)
LEMMA PaymentEntriesAreNoClaims ==
    ASSUME NEW new, ledger' = ledger \union new, NEW id, \A e \in new : e.doc = PaymentDoc(id),
           NEW m
    PROVE  ClaimEntries(ledger', m) = ClaimEntries(ledger, m)
<1>1. \A e \in new : e.doc.kind = "payment"
  BY DEF PaymentDoc
<1> QED BY <1>1 DEF ClaimEntries, Receivables

(***************************************************************************)
(* Recording a payment keeps the inductive invariant.                      *)
(***************************************************************************)
LEMMA CreatePaymentKeeps ==
    ASSUME IInv, NEW source, NEW id \in PaymentIds, NEW m \in Memberships,
           NEW a \in PaymentAmounts, NEW r \in ReceivedDates, NEW asset \in AssetAccounts,
           CreatePayment(source, id, m, a, r, asset)
    PROVE  IInv'
<1> DEFINE p == [id |-> id, member |-> m, amount |-> a, received |-> r, reversed |-> FALSE]
           legs == LegsIn(p, asset, OpenPeriod)
<1> USE DEF IInv
<1>1. p \in Payment /\ p.id = id /\ p.member = m /\ ~p.reversed
  BY DEF Payment
<1>2. /\ \A q \in payments : q.id # id
      /\ payments' = payments \union {p}
      /\ ledger' = ledger \union legs
      /\ allocations' = RebuildFor({m}, ledger', payments')
      /\ UNCHANGED <<periods, bookings, statements, memberStatus>>
  BY DEF CreatePayment, PaymentLegs, LegsIn
<1> HIDE DEF p
<1>3. OpenPeriod \in PeriodIds /\ OpenPeriod' = OpenPeriod /\ OpenPeriod \in 1 .. OpenPeriod
  BY <1>2 DEF TypeOK, OpenPeriod, PeriodIds
<1>4. legs \subseteq Entry /\ \A e \in legs : e.doc = PaymentDoc(id)
  BY <1>1, <1>3, PaymentLegsType
<1> HIDE DEF legs
<1>5. TypeOK'
  <2>1. ledger' \subseteq Entry
    BY <1>2, <1>4 DEF TypeOK
  <2>2. DOMAIN allocations' = Memberships
    BY <1>2 DEF RebuildFor
  <2>3. payments' \subseteq Payment
    BY <1>1, <1>2 DEF TypeOK
  <2> QED BY <1>2, <1>3, <2>1, <2>2, <2>3 DEF TypeOK, OpenPeriod
<1>6. UniquePayments' /\ PeriodsExist'
  BY <1>1, <1>2, <1>3 DEF UniquePayments, PeriodsExist
<1>7. LedgerMatchesDocuments'
  <2>1. ASSUME NEW j \in DOMAIN bookings' PROVE BookingPosted(j)'
    <3>0. BookingDoc(j) # PaymentDoc(id)
      BY DistinctDocuments
    <3>1. EntriesOf(BookingDoc(j))' = EntriesOf(BookingDoc(j))
      BY <1>2, <1>4, <3>0, OtherDocumentsKept
    <3>2. BookingPosted(j)
      BY <1>2 DEF LedgerMatchesDocuments
    <3> QED BY <3>1, <3>2, <1>2, <1>3 DEF BookingPosted
  <2>2. ASSUME NEW q \in payments PROVE PaymentPosted(q)'
    <3>0. PaymentDoc(q.id) # PaymentDoc(id)
      BY <1>2, DistinctDocuments
    <3>1. EntriesOf(PaymentDoc(q.id))' = EntriesOf(PaymentDoc(q.id))
      BY <1>2, <1>4, <3>0, OtherDocumentsKept
    <3>2. PaymentPosted(q)
      BY DEF LedgerMatchesDocuments
    <3> QED BY <3>1, <3>2, <1>3 DEF PaymentPosted
  <2>3. ASSUME NEW q, q = p PROVE PaymentPosted(q)'
    <3>1. \A e \in ledger : e.doc # PaymentDoc(id)
      BY <1>2, DistinctDocuments DEF LedgerMatchesDocuments
    <3>2. EntriesOf(PaymentDoc(id))' = legs
      BY <1>2, <1>4, <3>1 DEF EntriesOf
    <3>3. q.id = id /\ ~q.reversed /\ legs = LegsIn(q, asset, OpenPeriod)
      BY <1>1, <2>3 DEF legs
    <3> QED BY <3>2, <3>3, <1>3 DEF PaymentPosted, LegsIn
  <2>4. ASSUME NEW e \in ledger'
        PROVE  \/ \E j \in DOMAIN bookings' : e.doc = BookingDoc(j)
               \/ \E q \in payments' : e.doc = PaymentDoc(q.id)
    BY <1>1, <1>2, <1>4 DEF LedgerMatchesDocuments
  <2>5. \A q \in payments' : PaymentPosted(q)'
    BY <1>2, <2>2, <2>3
  <2> QED BY <2>1, <2>4, <2>5 DEF LedgerMatchesDocuments
<1>8. AllocationsCurrent'
  <2>1. ASSUME NEW n \in Memberships PROVE allocations'[n] = Rebuilt(ledger', payments', n)
    <3>1. CASE n = m
      BY <1>2, <3>1 DEF RebuildFor
    <3>2. CASE n # m
      <4>1. ClaimEntries(ledger', n) = ClaimEntries(ledger, n)
        BY <1>2, <1>4, PaymentEntriesAreNoClaims
      <4>2. ActivePayments(payments', n) = ActivePayments(payments, n)
        BY <1>1, <1>2, <3>2 DEF ActivePayments
      <4>3. allocations'[n] = allocations[n]
        BY <1>2, <3>2 DEF RebuildFor
      <4> QED BY <4>1, <4>2, <4>3 DEF AllocationsCurrent, Rebuilt
    <3> QED BY <3>1, <3>2
  <2> QED BY <2>1 DEF AllocationsCurrent
<1> QED BY <1>5, <1>6, <1>7, <1>8

(***************************************************************************)
(* Reversing a payment keeps the inductive invariant.                      *)
(***************************************************************************)
LEMMA ReversePaymentKeeps ==
    ASSUME IInv, NEW p \in payments, ReversePayment(p)
    PROVE  IInv'
<1> DEFINE new == {Mirror(e) : e \in Originals(PaymentDoc(p.id))}
           gone == [p EXCEPT !.reversed = TRUE]
<1> USE DEF IInv
<1>1. p \in Payment /\ gone \in Payment /\ gone.id = p.id /\ gone.member = p.member
      /\ gone.amount = p.amount /\ gone.reversed
  BY DEF TypeOK, Payment
<1>2. /\ ~p.reversed
      /\ payments' = (payments \ {p}) \union {gone}
      /\ ledger' = ledger \union new
      /\ allocations' = RebuildFor({p.member}, ledger', payments')
      /\ UNCHANGED <<periods, bookings, statements, memberStatus>>
  BY DEF ReversePayment
<1> HIDE DEF gone
<1>3. OpenPeriod \in PeriodIds /\ OpenPeriod' = OpenPeriod /\ OpenPeriod \in Nat
  BY <1>2 DEF TypeOK, OpenPeriod, PeriodIds
<1>4. PICK asset \in AssetAccounts, o \in 1 .. OpenPeriod :
          EntriesOf(PaymentDoc(p.id)) = LegsIn(p, asset, o)
  BY <1>2 DEF LedgerMatchesDocuments, PaymentPosted, LegsIn
<1>5. o \in PeriodIds /\ OpenPeriod \in o .. OpenPeriod
  <2>1. MaxPeriods \in Nat
    BY AccountingAssumption
  <2> QED BY <1>3, <2>1 DEF PeriodIds
<1>6. \A e \in EntriesOf(PaymentDoc(p.id)) : ~e.reversal
  BY <1>1, <1>4, <1>5, PaymentLegsType
<1>7. new = Reversed(LegsIn(p, asset, o), OpenPeriod)
  BY <1>4, <1>6, MirrorsAreReversed
<1>8. \A e \in new : e \in Entry /\ e.doc = PaymentDoc(p.id)
  <2>1. \A e \in Originals(PaymentDoc(p.id)) : e \in ledger /\ e.doc = PaymentDoc(p.id)
    BY DEF Originals
  <2> QED BY <2>1, MirrorType
<1> HIDE DEF new
<1>9. TypeOK'
  <2>1. ledger' \subseteq Entry
    BY <1>2, <1>8 DEF TypeOK
  <2>2. DOMAIN allocations' = Memberships
    BY <1>2 DEF RebuildFor
  <2>3. payments' \subseteq Payment
    BY <1>1, <1>2 DEF TypeOK
  <2> QED BY <1>2, <1>3, <2>1, <2>2, <2>3 DEF TypeOK, OpenPeriod
<1>10. UniquePayments' /\ PeriodsExist'
  BY <1>1, <1>2, <1>3 DEF UniquePayments, PeriodsExist
<1>11. LedgerMatchesDocuments'
  <2>1. ASSUME NEW j \in DOMAIN bookings' PROVE BookingPosted(j)'
    <3>0. BookingDoc(j) # PaymentDoc(p.id)
      BY DistinctDocuments
    <3>1. EntriesOf(BookingDoc(j))' = EntriesOf(BookingDoc(j))
      BY <1>2, <1>8, <3>0, OtherDocumentsKept
    <3>2. BookingPosted(j)
      BY <1>2 DEF LedgerMatchesDocuments
    <3> QED BY <3>1, <3>2, <1>2, <1>3 DEF BookingPosted
  <2>2. ASSUME NEW q \in payments, q # p PROVE PaymentPosted(q)'
    <3>0. PaymentDoc(q.id) # PaymentDoc(p.id)
      BY <2>2, DistinctDocuments DEF UniquePayments
    <3>1. EntriesOf(PaymentDoc(q.id))' = EntriesOf(PaymentDoc(q.id))
      BY <1>2, <1>8, <3>0, OtherDocumentsKept
    <3>2. PaymentPosted(q)
      BY DEF LedgerMatchesDocuments
    <3> QED BY <3>1, <3>2, <1>3 DEF PaymentPosted
  <2>3. ASSUME NEW q, q = gone PROVE PaymentPosted(q)'
    <3>1. EntriesOf(PaymentDoc(p.id))' =
              LegsIn(p, asset, o) \union Reversed(LegsIn(p, asset, o), OpenPeriod)
      BY <1>2, <1>4, <1>7, <1>8 DEF EntriesOf
    <3>2. q.id = p.id /\ q.reversed /\ LegsIn(q, asset, o) = LegsIn(p, asset, o)
      BY <1>1, <2>3 DEF LegsIn
    <3>3. EntriesOf(PaymentDoc(q.id))' =
              LegsIn(q, asset, o) \union Reversed(LegsIn(q, asset, o), OpenPeriod)
      BY <3>1, <3>2
    <3>4. \E x \in AssetAccounts, y \in 1 .. OpenPeriod' : \E r \in y .. OpenPeriod' :
              EntriesOf(PaymentDoc(q.id))' = LegsIn(q, x, y) \union Reversed(LegsIn(q, x, y), r)
      BY <3>3, <1>3, <1>5
    <3> QED BY <3>2, <3>4 DEF PaymentPosted, LegsIn
  <2>4. ASSUME NEW e \in ledger'
        PROVE  \/ \E j \in DOMAIN bookings' : e.doc = BookingDoc(j)
               \/ \E q \in payments' : e.doc = PaymentDoc(q.id)
    BY <1>1, <1>2, <1>8 DEF LedgerMatchesDocuments
  <2>5. \A q \in payments' : PaymentPosted(q)'
    BY <1>2, <2>2, <2>3
  <2> QED BY <2>1, <2>4, <2>5 DEF LedgerMatchesDocuments
<1>12. AllocationsCurrent'
  <2>1. ASSUME NEW n \in Memberships PROVE allocations'[n] = Rebuilt(ledger', payments', n)
    <3>1. CASE n = p.member
      BY <1>2, <3>1 DEF RebuildFor
    <3>2. CASE n # p.member
      <4>1. ClaimEntries(ledger', n) = ClaimEntries(ledger, n)
        BY <1>2, <1>8, PaymentEntriesAreNoClaims
      <4>2. ActivePayments(payments', n) = ActivePayments(payments, n)
        BY <1>1, <1>2, <3>2 DEF ActivePayments
      <4>3. allocations'[n] = allocations[n]
        BY <1>2, <3>2 DEF RebuildFor
      <4> QED BY <4>1, <4>2, <4>3 DEF AllocationsCurrent, Rebuilt
    <3> QED BY <3>1, <3>2
  <2> QED BY <2>1 DEF AllocationsCurrent
<1> QED BY <1>9, <1>10, <1>11, <1>12

(***************************************************************************)
(* Closing the open period keeps the inductive invariant.                  *)
(***************************************************************************)
LEMMA CloseKeeps ==
    ASSUME IInv, Close
    PROVE  IInv'
<1> USE DEF IInv
<1>1. /\ OpenPeriod < MaxPeriods
      /\ allocations' = RebuildFor(Present, ledger, payments)
      /\ \A s \in statements' : \/ s \in statements
                                \/ s.member \in Memberships /\ s.period = OpenPeriod
      /\ periods' = NextPeriods
      /\ UNCHANGED <<bookings, payments, ledger, memberStatus>>
  <2>1. ASSUME NEW s \in statements', s \notin statements
        PROVE  s.member \in Memberships /\ s.period = OpenPeriod
    <3>1. PICK m \in Present : s = Snapshot(m, OpenPeriod, allocations'[m])
      BY <2>1, Zenon DEF Close
    <3>2. m \in Memberships
      BY <3>1 DEF Present
    <3>3. s.member = m /\ s.period = OpenPeriod
      BY <3>1 DEF Snapshot
    <3> QED BY <3>2, <3>3
  <2>2. /\ OpenPeriod < MaxPeriods
        /\ allocations' = RebuildFor(Present, ledger, payments)
        /\ periods' = NextPeriods
        /\ UNCHANGED <<bookings, payments, ledger, memberStatus>>
    BY Zenon DEF Close
  <2> QED BY <2>1, <2>2
<1>2. periods \in Seq({"OPEN", "CLOSED"}) /\ OpenPeriod \in Nat /\ OpenPeriod > 0
  BY DEF TypeOK, OpenPeriod, PeriodIds
<1>3. /\ periods' \in Seq({"OPEN", "CLOSED"})
      /\ OpenPeriod' = OpenPeriod + 1
      /\ \A p \in DOMAIN periods' : periods'[p] = "OPEN" <=> p = OpenPeriod'
  <2> DEFINE settled == [periods EXCEPT ![OpenPeriod] = "CLOSED"]
  <2>1. /\ settled \in Seq({"OPEN", "CLOSED"}) /\ Len(settled) = OpenPeriod
        /\ \A p \in 1 .. OpenPeriod : settled[p] = "CLOSED"
    BY <1>2 DEF TypeOK, OpenPeriod
  <2>2. periods' = Append(settled, "OPEN")
    BY <1>1 DEF NextPeriods
  <2> HIDE DEF settled
  <2>3. Len(periods') = OpenPeriod + 1 /\ periods' \in Seq({"OPEN", "CLOSED"})
    BY <2>1, <2>2
  <2>4. DOMAIN periods' = 1 .. OpenPeriod + 1
    BY <2>3
  <2>5. periods'[OpenPeriod + 1] = "OPEN" /\ \A p \in 1 .. OpenPeriod : periods'[p] = "CLOSED"
    BY <1>2, <2>1, <2>2
  <2> QED BY <1>2, <2>3, <2>4, <2>5 DEF OpenPeriod
<1>4. TypeOK'
  <2>1. OpenPeriod' \in PeriodIds
    <3>1. MaxPeriods \in Nat
      BY AccountingAssumption
    <3> QED BY <1>1, <1>2, <1>3, <3>1 DEF PeriodIds
  <2>2. DOMAIN allocations' = Memberships
    BY <1>1 DEF RebuildFor
  <2>3. \A s \in statements' : s.member \in Memberships /\ s.period \in 1 .. OpenPeriod' - 1
    BY <1>1, <1>2, <1>3 DEF TypeOK
  <2> QED BY <1>1, <1>3, <2>1, <2>2, <2>3 DEF TypeOK, OpenPeriod
<1>5. UniquePayments' /\ PeriodsExist'
  BY <1>1, <1>2, <1>3 DEF UniquePayments, PeriodsExist
<1>6. LedgerMatchesDocuments'
  <2>1. \A doc : EntriesOf(doc)' = EntriesOf(doc)
    BY <1>1 DEF EntriesOf
  <2>2. ASSUME NEW i \in DOMAIN bookings PROVE BookingPosted(i)'
    <3>1. BookingPosted(i) /\ bookings'[i] = bookings[i]
      BY <1>1 DEF LedgerMatchesDocuments
    <3>2. bookings[i].period .. OpenPeriod \subseteq bookings[i].period .. OpenPeriod + 1
      BY <1>2 DEF PeriodsExist
    <3> QED BY <1>3, <2>1, <3>1, <3>2 DEF BookingPosted
  <2>3. ASSUME NEW p \in payments PROVE PaymentPosted(p)'
    <3>1. PaymentPosted(p)
      BY DEF LedgerMatchesDocuments
    <3>2. 1 .. OpenPeriod \subseteq 1 .. OpenPeriod + 1
          /\ \A o \in 1 .. OpenPeriod : o .. OpenPeriod \subseteq o .. OpenPeriod + 1
      BY <1>2
    <3> QED BY <1>3, <2>1, <3>1, <3>2 DEF PaymentPosted
  <2> QED BY <1>1, <2>2, <2>3 DEF LedgerMatchesDocuments
<1>7. AllocationsCurrent'
  BY <1>1 DEF AllocationsCurrent, RebuildFor
<1> QED BY <1>4, <1>5, <1>6, <1>7

(***************************************************************************)
(* Steps that move a membership through its lifecycle, and stuttering.     *)
(***************************************************************************)
LEMMA LifecycleKeeps ==
    ASSUME IInv, memberStatus' \in [Memberships -> Statuses],
           UNCHANGED <<periods, bookings, payments, ledger, allocations, statements>>
    PROVE  IInv'
<1> USE DEF IInv
<1>1. TypeOK'
  BY DEF TypeOK, OpenPeriod
<1>2. UniquePayments' /\ PeriodsExist' /\ AllocationsCurrent'
  BY DEF UniquePayments, PeriodsExist, AllocationsCurrent, OpenPeriod
<1>3. LedgerMatchesDocuments'
  <2>1. OpenPeriod' = OpenPeriod /\ \A doc : EntriesOf(doc)' = EntriesOf(doc)
    BY DEF OpenPeriod, EntriesOf
  <2>2. ASSUME NEW i \in DOMAIN bookings PROVE BookingPosted(i)'
    <3>1. BookingPosted(i) /\ bookings'[i] = bookings[i]
      BY DEF LedgerMatchesDocuments
    <3> QED BY <2>1, <3>1 DEF BookingPosted
  <2>3. ASSUME NEW p \in payments PROVE PaymentPosted(p)'
    <3>1. PaymentPosted(p)
      BY DEF LedgerMatchesDocuments
    <3> QED BY <2>1, <3>1 DEF PaymentPosted
  <2> QED BY <2>2, <2>3 DEF LedgerMatchesDocuments
<1> QED BY <1>1, <1>2, <1>3

(***************************************************************************)
(* Archiving, reactivating and deleting a membership keep the invariant.   *)
(***************************************************************************)
LEMMA MoveMemberKeeps ==
    ASSUME IInv, NEW m \in Memberships, NEW from, NEW to \in Statuses, MoveMember(m, from, to)
    PROVE  IInv'
<1>1. memberStatus' \in [Memberships -> Statuses]
  BY DEF MoveMember, IInv, TypeOK
<1> QED BY <1>1, LifecycleKeeps DEF MoveMember

(***************************************************************************)
(* A new group satisfies the inductive invariant.                          *)
(***************************************************************************)
LEMMA InitEstablishes == Init => IInv
<1> SUFFICES ASSUME Init PROVE IInv
  OBVIOUS
<1>1. TypeOK
  <2>1. MaxPeriods \in Nat /\ MaxPeriods >= 1
    BY AccountingAssumption
  <2>2. Len(periods) = 1 /\ periods \in Seq({"OPEN", "CLOSED"})
        /\ \A p \in DOMAIN periods : periods[p] = "OPEN" <=> p = OpenPeriod
    BY DEF Init, OpenPeriod
  <2>3. memberStatus \in [Memberships -> Statuses]
    BY DEF Init, Statuses
  <2> QED BY <2>1, <2>2, <2>3 DEF Init, TypeOK, PeriodIds
<1>2. UniquePayments /\ PeriodsExist /\ LedgerMatchesDocuments
  BY DEF Init, UniquePayments, PeriodsExist, LedgerMatchesDocuments
<1>3. AllocationsCurrent
  <2>1. \A m : ClaimEntries(ledger, m) = {} /\ ActivePayments(payments, m) = {}
    BY DEF Init, ClaimEntries, Receivables, ActivePayments
  <2> QED BY <2>1 DEF Init, AllocationsCurrent, Rebuilt
<1> QED BY <1>1, <1>2, <1>3 DEF IInv

(***************************************************************************)
(* Every command, and stuttering, keeps the inductive invariant.           *)
(***************************************************************************)
LEMMA NextKeeps == IInv /\ [Next]_vars => IInv'
<1> SUFFICES ASSUME IInv, [Next]_vars PROVE IInv'
  OBVIOUS
<1>0. \A S : \A s \in DistinctSeqs(S) : s \in Seq(S)
  BY DEF DistinctSeqs, SeqOf
<1>1. CASE \E m \in Memberships, a \in Prices : Create(m, a)
  <2>1. PICK m \in Memberships, a \in Prices : RecordBookings(<<a>>, <<m>>, <<>>)
    BY <1>1 DEF Create
  <2>2. <<a>> \in Seq(Prices) /\ <<m>> \in Seq(Memberships) /\ <<>> \in Seq(Guests)
    OBVIOUS
  <2> QED BY <2>1, <2>2, RecordBookingsKeeps
<1>2. CASE \E ts \in DistinctSeqs(Memberships), gs \in DistinctSeqs(Guests), a \in Prices :
               CreateBatch(ts, gs, a)
  <2>1. PICK ts \in Seq(Memberships), gs \in Seq(Guests), a \in Prices : CreateBatch(ts, gs, a)
    BY <1>0, <1>2
  <2>2. <<a>> \in Seq(Prices) /\ RecordBookings(<<a>>, ts, gs)
    BY <2>1 DEF CreateBatch
  <2> QED BY <2>1, <2>2, RecordBookingsKeeps
<1>3. CASE \E items \in SeqOf(Prices, MaxItems), ts \in DistinctSeqs(Memberships),
              gs \in DistinctSeqs(Guests) : CreateBulk(items, ts, gs)
  <2>0. \A s \in SeqOf(Prices, MaxItems) : s \in Seq(Prices)
    BY DEF SeqOf
  <2>1. PICK items \in Seq(Prices), ts \in Seq(Memberships), gs \in Seq(Guests) :
            CreateBulk(items, ts, gs)
    BY <1>0, <1>3, <2>0
  <2> QED BY <2>1, RecordBookingsKeeps DEF CreateBulk
<1>4. CASE \E i \in DOMAIN bookings : Void(i)
  BY <1>4, VoidKeeps
<1>5. CASE \E source \in {"self-service", "finance"}, id \in PaymentIds, m \in Memberships,
              a \in PaymentAmounts, r \in ReceivedDates, asset \in AssetAccounts :
               CreatePayment(source, id, m, a, r, asset)
  BY <1>5, CreatePaymentKeeps
<1>6. CASE \E p \in payments : ReversePayment(p)
  BY <1>6, ReversePaymentKeeps
<1>7. CASE Close
  BY <1>7, CloseKeeps
<1>8. CASE \E m \in Memberships :
               ArchiveMember(m) \/ ReactivateMember(m) \/ PermanentlyDeleteMember(m)
  <2>1. PICK m \in Memberships, from, to \in Statuses : MoveMember(m, from, to)
    BY <1>8 DEF ArchiveMember, ReactivateMember, PermanentlyDeleteMember, Statuses
  <2> QED BY <2>1, MoveMemberKeeps
<1>9. CASE UNCHANGED vars
  BY <1>9, LifecycleKeeps DEF vars, IInv, TypeOK
<1> QED BY <1>1, <1>2, <1>3, <1>4, <1>5, <1>6, <1>7, <1>8, <1>9 DEF Next

(***************************************************************************)
(* The inductive invariant holds in every reachable state of the           *)
(* accounting core, for every number of members, guests, periods and       *)
(* bookings.                                                               *)
(***************************************************************************)
THEOREM InvariantHolds == Spec => []IInv
BY InitEstablishes, NextKeeps, PTL DEF Spec

(***************************************************************************)
(* The tables of bookings, finance and periods keep their declared shape,  *)
(* and exactly the newest period is open.                                  *)
(***************************************************************************)
THEOREM TypeCorrect == Spec => []TypeOK
<1>1. IInv => TypeOK
  BY DEF IInv
<1> QED BY <1>1, InvariantHolds, PTL

(***************************************************************************)
(* Under every interleaving of bookings, voids, payments, reversals and    *)
(* settlements the ledger holds exactly the entries of its documents, each *)
(* mirrored at most once.                                                  *)
(***************************************************************************)
THEOREM LedgerIsItsDocuments == Spec => []LedgerMatchesDocuments
<1>1. IInv => LedgerMatchesDocuments
  BY DEF IInv
<1> QED BY <1>1, InvariantHolds, PTL

(***************************************************************************)
(* No command of bookings, finance, periods or groups leaves the           *)
(* allocation tables of a membership behind the ledger they were derived   *)
(* from.                                                                   *)
(***************************************************************************)
THEOREM AllocationsNeverStale == Spec => []AllocationsCurrent
<1>1. IInv => AllocationsCurrent
  BY DEF IInv
<1> QED BY <1>1, InvariantHolds, PTL

(***************************************************************************)
(* Every command only adds ledger entries, and only to the open period.    *)
(***************************************************************************)
LEMMA StepsPostToOpenPeriod ==
    ASSUME TypeOK, Next
    PROVE  ledger \subseteq ledger' /\ \A e \in ledger' \ ledger : e.period = OpenPeriod
<1> DEFINE Posts == ledger \subseteq ledger' /\ \A e \in ledger' \ ledger : e.period = OpenPeriod
<1>1. ASSUME NEW items \in Seq(Prices), NEW all \in Seq(Memberships)
      PROVE  \A k \in DOMAIN NewBookings(items, all) :
                 NewBookings(items, all)[k].period = OpenPeriod
  BY DEF NewBookings
<1>2. ASSUME NEW items \in Seq(Prices), NEW ts \in Seq(Memberships), NEW gs \in Seq(Guests),
             RecordBookings(items, ts, gs)
      PROVE  Posts
  <2> DEFINE created == NewBookings(items, ts \o gs)
  <2>1. ts \o gs \in Seq(Memberships)
    BY DEF Memberships
  <2>2. \A k \in DOMAIN created : created[k].period = OpenPeriod
    BY <1>1, <2>1
  <2>3. ledger' = ledger \union
                  UNION {BookingLegs(Len(bookings) + k, created[k]) : k \in DOMAIN created}
    BY <1>2, Zenon DEF RecordBookings
  <2> HIDE DEF created
  <2>4. \A k \in DOMAIN created :
            \A e \in BookingLegs(Len(bookings) + k, created[k]) : e.period = OpenPeriod
    BY <2>2 DEF BookingLegs, InsertLedger
  <2> QED BY <2>3, <2>4
<1>3. ASSUME NEW S, S \subseteq ledger, ledger' = ledger \union {Mirror(e) : e \in S} PROVE Posts
  <2>1. \A e \in S : Mirror(e).period = OpenPeriod
    BY <1>3 DEF Mirror, TypeOK, Entry
  <2> QED BY <1>3, <2>1
<1>4. ASSUME NEW i \in DOMAIN bookings, Void(i) PROVE Posts
  <2>1. Originals(BookingDoc(i)) \subseteq ledger
        /\ ledger' = ledger \union {Mirror(e) : e \in Originals(BookingDoc(i))}
    BY <1>4, Zenon DEF Void, Originals
  <2> QED BY <1>3, <2>1
<1>5. ASSUME NEW p \in payments, ReversePayment(p) PROVE Posts
  <2>1. Originals(PaymentDoc(p.id)) \subseteq ledger
        /\ ledger' = ledger \union {Mirror(e) : e \in Originals(PaymentDoc(p.id))}
    BY <1>5, Zenon DEF ReversePayment, Originals
  <2> QED BY <1>3, <2>1
<1>6. ASSUME NEW source, NEW id, NEW m, NEW a, NEW r, NEW asset,
             CreatePayment(source, id, m, a, r, asset)
      PROVE  Posts
  <2>1. PICK p : ledger' = ledger \union PaymentLegs(p, asset)
    BY <1>6 DEF CreatePayment
  <2>2. \A e \in PaymentLegs(p, asset) : e.period = OpenPeriod
    BY DEF PaymentLegs, InsertLedger
  <2> QED BY <2>1, <2>2
<1>7. ASSUME UNCHANGED ledger PROVE Posts
  BY <1>7
<1>8. \A S : \A s \in DistinctSeqs(S) : s \in Seq(S)
  BY DEF DistinctSeqs, SeqOf
<1> SUFFICES Posts
  OBVIOUS
<1> HIDE DEF Posts
<1>9. CASE \E m \in Memberships, a \in Prices : Create(m, a)
  <2>1. PICK m \in Memberships, a \in Prices : RecordBookings(<<a>>, <<m>>, <<>>)
    BY <1>9 DEF Create
  <2>2. <<a>> \in Seq(Prices) /\ <<m>> \in Seq(Memberships) /\ <<>> \in Seq(Guests)
    OBVIOUS
  <2> QED BY <1>2, <2>1, <2>2
<1>10. CASE \E ts \in DistinctSeqs(Memberships), gs \in DistinctSeqs(Guests), a \in Prices :
                CreateBatch(ts, gs, a)
  <2>1. PICK ts \in Seq(Memberships), gs \in Seq(Guests), a \in Prices : CreateBatch(ts, gs, a)
    BY <1>8, <1>10
  <2>2. <<a>> \in Seq(Prices) /\ RecordBookings(<<a>>, ts, gs)
    BY <2>1 DEF CreateBatch
  <2> QED BY <1>2, <2>1, <2>2
<1>11. CASE \E items \in SeqOf(Prices, MaxItems), ts \in DistinctSeqs(Memberships),
               gs \in DistinctSeqs(Guests) : CreateBulk(items, ts, gs)
  <2>0. \A s \in SeqOf(Prices, MaxItems) : s \in Seq(Prices)
    BY DEF SeqOf
  <2>1. PICK items \in Seq(Prices), ts \in Seq(Memberships), gs \in Seq(Guests) :
            CreateBulk(items, ts, gs)
    BY <1>8, <1>11, <2>0
  <2> QED BY <1>2, <2>1 DEF CreateBulk
<1>12. CASE \/ Close
            \/ \E m \in Memberships :
                   ArchiveMember(m) \/ ReactivateMember(m) \/ PermanentlyDeleteMember(m)
  BY <1>7, <1>12 DEF Close, ArchiveMember, ReactivateMember, PermanentlyDeleteMember, MoveMember
<1> QED BY <1>4, <1>5, <1>6, <1>9, <1>10, <1>11, <1>12 DEF Next

(***************************************************************************)
(* A settled period is final: once it is closed no command of bookings,    *)
(* finance or periods adds an entry to it or takes one away.               *)
(***************************************************************************)
THEOREM SettledPeriodsAreFinal == Spec => ClosedPeriodsFrozen
<1>1. ASSUME TypeOK, [Next]_vars
      PROVE  [\A p \in DOMAIN periods : periods[p] = "CLOSED" =>
                 {e \in ledger' : e.period = p} = {e \in ledger : e.period = p}]_vars
  <2>1. CASE UNCHANGED vars
    BY <2>1
  <2>2. CASE Next
    <3>1. ledger \subseteq ledger' /\ \A e \in ledger' \ ledger : e.period = OpenPeriod
      BY <1>1, <2>2, StepsPostToOpenPeriod
    <3>2. \A p \in DOMAIN periods : periods[p] = "CLOSED" => p # OpenPeriod
      BY <1>1 DEF TypeOK
    <3> QED BY <3>1, <3>2
  <2> QED BY <1>1, <2>1, <2>2
<1> QED BY <1>1, TypeCorrect, PTL DEF Spec, ClosedPeriodsFrozen

-----------------------------------------------------------------------------
(***************************************************************************)
(* A finite set on which R is a strict total order can be listed in that   *)
(* order.                                                                  *)
(***************************************************************************)
Comparable(S, R) ==
    /\ \A x, y \in S : x # y => <<x, y>> \in R \/ <<y, x>> \in R
    /\ \A x, y, z \in S : <<x, y>> \in R /\ <<y, z>> \in R => <<x, z>> \in R

\* Such a set has a last element.
LEMMA LastExists ==
    ASSUME NEW S, IsFiniteSet(S), NEW R, Comparable(S, R)
    PROVE  S # {} => \E x \in S : \A y \in S \ {x} : <<y, x>> \in R
<1> DEFINE G == {T \in SUBSET S : T # {} => \E x \in T : \A y \in T \ {x} : <<y, x>> \in R}
<1>1. {} \in G
  OBVIOUS
<1>2. ASSUME NEW T \in SUBSET S, NEW x \in S \ T, T \in G PROVE T \cup {x} \in G
  <2>1. CASE T = {}
    BY <2>1
  <2>2. CASE T # {}
    <3>1. PICK m \in T : \A y \in T \ {m} : <<y, m>> \in R
      BY <1>2, <2>2
    <3>2. CASE <<m, x>> \in R
      <4>1. \A y \in T : <<y, x>> \in R
        BY <3>1, <3>2 DEF Comparable
      <4>2. \A y \in (T \cup {x}) \ {x} : <<y, x>> \in R
        BY <4>1
      <4> QED BY <4>2
    <3>3. CASE <<x, m>> \in R
      <4>1. \A y \in (T \cup {x}) \ {m} : <<y, m>> \in R
        BY <3>1, <3>3
      <4> QED BY <4>1
    <3> QED BY <3>2, <3>3 DEF Comparable
  <2> QED BY <2>1, <2>2
<1>3. S \in G
  <2> HIDE DEF G
  <2> QED BY <1>1, <1>2, SetInduction
<1> QED BY <1>3

\* Such a set can be listed in its order.
LEMMA SortExists ==
    ASSUME NEW S, IsFiniteSet(S), NEW R, Comparable(S, R)
    PROVE  \E f \in [1 .. Cardinality(S) -> S] :
               \A i, j \in 1 .. Cardinality(S) : i < j => <<f[i], f[j]>> \in R
<1> DEFINE Sorts(T, n) == \E f \in [1 .. n -> T] : \A i, j \in 1 .. n : i < j => <<f[i], f[j]>> \in R
           G == {n \in Nat : \A T \in SUBSET S : Cardinality(T) = n => Sorts(T, n)}
<1>1. 0 \in G
  <2>1. ASSUME NEW T \in SUBSET S PROVE Sorts(T, 0)
    <3> DEFINE e == [i \in 1 .. 0 |-> i]
    <3>1. 1 .. 0 = {}
      OBVIOUS
    <3>2. e \in [1 .. 0 -> T]
      BY <3>1
    <3>3. \A i, j \in 1 .. 0 : i < j => <<e[i], e[j]>> \in R
      BY <3>1
    <3> HIDE DEF e
    <3> QED BY <3>2, <3>3
  <2> QED BY <2>1
<1>2. ASSUME NEW n \in Nat, n \in G PROVE n + 1 \in G
  <2> SUFFICES ASSUME NEW T \in SUBSET S, Cardinality(T) = n + 1 PROVE Sorts(T, n + 1)
    OBVIOUS
  <2>1. IsFiniteSet(T) /\ T # {} /\ Comparable(T, R)
    <3>1. IsFiniteSet(T) /\ Comparable(T, R)
      BY FS_Subset DEF Comparable
    <3> QED BY <3>1, FS_EmptySet
  <2>2. PICK x \in T : \A y \in T \ {x} : <<y, x>> \in R
    BY <2>1, LastExists
  <2>3. Cardinality(T \ {x}) = n
    <3>1. Cardinality(T \ {x}) = Cardinality(T) - 1
      BY ONLY <2>1, x \in T, FS_RemoveElement
    <3> QED BY <3>1
  <2>4. PICK f \in [1 .. n -> T \ {x}] : \A i, j \in 1 .. n : i < j => <<f[i], f[j]>> \in R
    BY <1>2, <2>3
  <2> DEFINE g == [i \in 1 .. n + 1 |-> IF i = n + 1 THEN x ELSE f[i]]
  <2>5. g \in [1 .. n + 1 -> T]
    OBVIOUS
  <2>6. ASSUME NEW i \in 1 .. n + 1, NEW j \in 1 .. n + 1, i < j PROVE <<g[i], g[j]>> \in R
    <3>1. i \in 1 .. n /\ g[i] = f[i] /\ f[i] \in T \ {x}
      BY <2>6
    <3>2. CASE j = n + 1
      BY <2>2, <3>1, <3>2
    <3>3. CASE j # n + 1
      <4>1. j \in 1 .. n /\ g[j] = f[j]
        BY <3>3
      <4> QED BY <2>4, <2>6, <3>1, <4>1
    <3> QED BY <3>2, <3>3
  <2> HIDE DEF g
  <2> QED BY <2>5, <2>6
<1>3. Cardinality(S) \in Nat /\ S \in SUBSET S
  BY FS_CardinalityType
<1>4. Nat \subseteq G
  <2> HIDE DEF G
  <2> QED BY <1>1, <1>2, NumberInduction
<1> QED BY <1>3, <1>4

(***************************************************************************)
(* A listing without repetition names every member once.                   *)
(***************************************************************************)
Lists(f, S) ==
    /\ f \in Seq(S) /\ DOMAIN f = 1 .. Len(f)
    /\ \A i, j \in 1 .. Len(f) : f[i] = f[j] => i = j
    /\ \A x \in S : \E i \in 1 .. Len(f) : f[i] = x

Ascends(f) == \A i, j \in 1 .. Len(f) : i < j => f[i] < f[j]

\* A listing in a strict order lists every element exactly once.
LEMMA SortedLists ==
    ASSUME NEW S, IsFiniteSet(S), NEW R, \A x \in S : <<x, x>> \notin R,
           NEW f \in [1 .. Cardinality(S) -> S],
           \A i, j \in 1 .. Cardinality(S) : i < j => <<f[i], f[j]>> \in R
    PROVE  Lists(f, S)
<1>1. PICK n \in Nat : n = Cardinality(S)
  BY FS_CardinalityType
<1>2. f \in Seq(S) /\ DOMAIN f = 1 .. n /\ Len(f) = n
  BY <1>1
<1>3. \A i, j \in 1 .. n : f[i] = f[j] => i = j
  <2> SUFFICES ASSUME NEW i \in 1 .. n, NEW j \in 1 .. n, f[i] = f[j], i # j PROVE FALSE
    OBVIOUS
  <2>1. f[i] \in S
    BY <1>1
  <2>2. <<f[i], f[j]>> \in R \/ <<f[j], f[i]>> \in R
    BY <1>1
  <2> QED BY <2>1, <2>2
<1>4. f \in Injection(1 .. n, S)
  BY <1>1, <1>3 DEF Injection, IsInjective
<1>5. Cardinality(1 .. n) = n /\ IsFiniteSet(1 .. n)
  BY <1>1, FS_Interval
<1>6. f \in Surjection(1 .. n, S)
  BY <1>1, <1>4, <1>5, FS_Injection
<1>7. \A x \in S : \E i \in 1 .. n : f[i] = x
  BY <1>6 DEF Surjection
<1> QED BY <1>2, <1>3, <1>7 DEF Lists

(***************************************************************************)
(* ORDER BY the period and ORDER BY received_at, id list their rows.       *)
(***************************************************************************)
LEMMA PeriodsListed ==
    ASSUME NEW S, IsFiniteSet(S), S \subseteq Nat
    PROVE  Lists(Ordered(S, Earlier), S) /\ Ascends(Ordered(S, Earlier))
<1> DEFINE R == {x \in Nat \X Nat : x[1] < x[2]}
           n == Cardinality(S)
           F == [1 .. n -> S]
           InOrder(f) == \A i, j \in 1 .. n : i < j => Earlier(f[i], f[j])
<1>1. Comparable(S, R)
  <2>1. \A x, y \in Nat : <<x, y>> \in R <=> x < y
    OBVIOUS
  <2> HIDE DEF R
  <2> QED BY <2>1 DEF Comparable
<1>2. \A x, y \in S : <<x, y>> \in R <=> x < y
  OBVIOUS
<1>3. n \in Nat
  BY FS_CardinalityType
<1> HIDE DEF R
<1>4. PICK f \in F : \A i, j \in 1 .. n : i < j => <<f[i], f[j]>> \in R
  BY <1>1, SortExists
<1>5. InOrder(f)
  <2>1. \A i \in 1 .. n : f[i] \in S
    OBVIOUS
  <2> QED BY <1>2, <1>4, <2>1 DEF Earlier
<1>6. Ordered(S, Earlier) = CHOOSE g \in F : InOrder(g)
  BY DEF Ordered
<1>7. Ordered(S, Earlier) \in F /\ InOrder(Ordered(S, Earlier))
  <2> HIDE DEF F, InOrder
  <2> QED BY <1>5, <1>6
<1> PICK g : g = Ordered(S, Earlier)
  OBVIOUS
<1>8. g \in F /\ \A i, j \in 1 .. n : i < j => <<g[i], g[j]>> \in R
  <2>1. g \in F /\ InOrder(g)
    BY <1>7
  <2>2. \A i \in 1 .. n : g[i] \in S
    BY <2>1
  <2> QED BY <1>2, <2>1, <2>2 DEF Earlier
<1>9. \A x \in S : <<x, x>> \notin R
  <2>1. \A x \in S : x \in Nat /\ ~(x < x)
    OBVIOUS
  <2> QED BY <1>2, <2>1
<1>10. Lists(g, S)
  BY <1>8, <1>9, SortedLists
<1>11. Ascends(g)
  <2>1. g \in F /\ InOrder(g)
    BY <1>7
  <2>2. Len(g) = n
    BY <1>3, <2>1
  <2> QED BY <2>1, <2>2 DEF Earlier, Ascends
<1> QED BY <1>10, <1>11

\* Payments are listed by date received and identifier.
LEMMA PaymentsListed ==
    ASSUME NEW S, IsFiniteSet(S), \A p \in S : p.id \in Nat /\ p.received \in Nat,
           \A p, q \in S : p.id = q.id => p = q
    PROVE  Lists(Ordered(S, PaymentBefore), S)
<1> DEFINE R == {x \in S \X S : PaymentBefore(x[1], x[2])}
           n == Cardinality(S)
           F == [1 .. n -> S]
           InOrder(f) == \A i, j \in 1 .. n : i < j => PaymentBefore(f[i], f[j])
<1>1. \A x, y \in S : <<x, y>> \in R <=> PaymentBefore(x, y)
  OBVIOUS
<1>2. Comparable(S, R)
  <2> DEFINE second(t) == t \div TenthsPerSecond
             rank(t) == FractionRank(t)
  <2>1. ASSUME NEW t \in Nat
        PROVE  second(t) \in Int /\ rank(t) \in Int
               /\ t = TenthsPerSecond * second(t) + (IF rank(t) = TenthsPerSecond THEN 0 ELSE rank(t))
    BY DEF FractionRank, TenthsPerSecond
  <2>2. \A s, t \in Nat : second(s) = second(t) /\ rank(s) = rank(t) => s = t
    <3> HIDE DEF second, rank
    <3> QED BY <2>1
  <2>3. \A s, t \in Nat : TimestampBefore(s, t)
                <=> \/ second(s) < second(t)
                    \/ second(s) = second(t) /\ rank(s) < rank(t)
    BY DEF TimestampBefore
  <2> HIDE DEF second, rank
  <2>4. \A s, t \in Nat : s # t => TimestampBefore(s, t) \/ TimestampBefore(t, s)
    BY <2>1, <2>2, <2>3
  <2>5. \A s, t, u \in Nat : TimestampBefore(s, t) /\ TimestampBefore(t, u) => TimestampBefore(s, u)
    BY <2>1, <2>3
  <2> HIDE DEF R
  <2>6. \A x, y \in S : x # y => PaymentBefore(x, y) \/ PaymentBefore(y, x)
    BY <2>4 DEF PaymentBefore
  <2>7. \A x, y, z \in S : PaymentBefore(x, y) /\ PaymentBefore(y, z) => PaymentBefore(x, z)
    BY <2>5 DEF PaymentBefore
  <2> QED BY <1>1, <2>6, <2>7 DEF Comparable
<1>3. n \in Nat
  BY FS_CardinalityType
<1>4. \A x \in S : <<x, x>> \notin R
  <2>1. \A t \in Nat : ~TimestampBefore(t, t)
    <3> SUFFICES ASSUME NEW t \in Nat PROVE ~TimestampBefore(t, t)
      OBVIOUS
    <3>1. t \div TenthsPerSecond \in Int /\ FractionRank(t) \in Int
      BY DEF FractionRank, TenthsPerSecond
    <3> QED BY <3>1 DEF TimestampBefore
  <2>2. \A x \in S : ~PaymentBefore(x, x)
    BY <2>1 DEF PaymentBefore
  <2> QED BY <1>1, <2>2
<1> HIDE DEF R
<1>5. PICK f \in F : \A i, j \in 1 .. n : i < j => <<f[i], f[j]>> \in R
  BY <1>2, SortExists
<1>6. InOrder(f)
  <2>1. \A i \in 1 .. n : f[i] \in S
    OBVIOUS
  <2> QED BY <1>1, <1>5, <2>1
<1>7. Ordered(S, PaymentBefore) = CHOOSE g \in F : InOrder(g)
  BY DEF Ordered
<1>8. Ordered(S, PaymentBefore) \in F /\ InOrder(Ordered(S, PaymentBefore))
  <2> HIDE DEF F, InOrder
  <2> QED BY <1>6, <1>7
<1> PICK g : g = Ordered(S, PaymentBefore)
  OBVIOUS
<1>9. g \in F /\ \A i, j \in 1 .. n : i < j => <<g[i], g[j]>> \in R
  <2>1. g \in F /\ InOrder(g)
    BY <1>8
  <2>2. \A i \in 1 .. n : g[i] \in S
    BY <2>1
  <2> QED BY <1>1, <2>1, <2>2
<1>10. Lists(g, S)
  BY <1>4, <1>9, SortedLists
<1> QED BY <1>10

-----------------------------------------------------------------------------
(***************************************************************************)
(* What one round of the loop does (AllocationRound): it drops an          *)
(* exhausted source, passes an exhausted claim, or moves the smaller of    *)
(* the two remainders from the source to the claim.                        *)
(***************************************************************************)
Drops(s, t) ==
    /\ s.sources[1].remaining = 0
    /\ t.sources = Tail(s.sources)
    /\ t.claims = s.claims /\ t.claimIndex = s.claimIndex /\ t.rows = s.rows

Passes(s, t) ==
    /\ s.claims[s.claimIndex].remaining = 0
    /\ t.claimIndex = s.claimIndex + 1
    /\ t.sources = s.sources /\ t.claims = s.claims /\ t.rows = s.rows

Lowered(old, new, k, a) ==
    /\ Len(new) = Len(old)
    /\ \A i \in 1 .. Len(old) :
           /\ new[i].id = old[i].id
           /\ new[i].remaining = IF i = k THEN old[i].remaining - a ELSE old[i].remaining

Applies(s, t, a) ==
    /\ a \in Nat \ {0}
    /\ s.sources[1].remaining \in Nat \ {0} /\ s.claims[s.claimIndex].remaining \in Nat \ {0}
    /\ a = s.sources[1].remaining \/ a = s.claims[s.claimIndex].remaining
    /\ t.claimIndex = s.claimIndex
    /\ Lowered(s.sources, t.sources, 1, a)
    /\ Lowered(s.claims, t.claims, s.claimIndex, a)
    /\ t.rows = s.rows \cup {[source |-> s.sources[1].id, target |-> s.claims[s.claimIndex].id, amount |-> a]}

\* Taking an amount off one slot of a queue.
LEMMA LowerAt ==
    ASSUME NEW old \in Seq(Slot), NEW k \in 1 .. Len(old), NEW a \in Nat, a <= old[k].remaining
    PROVE  /\ [old EXCEPT ![k].remaining = @ - a] \in Seq(Slot)
           /\ Lowered(old, [old EXCEPT ![k].remaining = @ - a], k, a)
<1> DEFINE x == [old[k] EXCEPT !.remaining = @ - a]
           new == [old EXCEPT ![k] = x]
<1>1. \A i \in 1 .. Len(old) : old[i] \in Slot
  OBVIOUS
<1>2. x \in Slot /\ x.id = old[k].id /\ x.remaining = old[k].remaining - a
  <2> PICK o : o = old[k]
    OBVIOUS
  <2>1. o \in Slot /\ a <= o.remaining
    BY <1>1
  <2>2. o.remaining - a \in Nat
    BY <2>1 DEF Slot
  <2>3. x = [o EXCEPT !.remaining = @ - a]
    OBVIOUS
  <2> HIDE DEF x
  <2>4. x = [id |-> o.id, remaining |-> o.remaining - a]
    BY <2>1, <2>3 DEF Slot
  <2> QED BY <2>1, <2>2, <2>4 DEF Slot
<1>3. [old EXCEPT ![k].remaining = @ - a] = new
  OBVIOUS
<1> HIDE DEF x
<1>4. /\ new \in Seq(Slot) /\ Len(new) = Len(old)
      /\ \A i \in 1 .. Len(old) : new[i] = IF i = k THEN x ELSE old[i]
  <2> PICK n \in Nat : n = Len(old)
    OBVIOUS
  <2>1. old \in [1 .. n -> Slot]
    OBVIOUS
  <2>2. new \in [1 .. n -> Slot]
    BY <1>2, <2>1
  <2>3. \A i \in 1 .. n : new[i] = IF i = k THEN x ELSE old[i]
    BY <2>1
  <2>4. new \in Seq(Slot) /\ Len(new) = n
    <3> HIDE DEF new
    <3> QED BY <2>2
  <2> QED BY <2>3, <2>4
<1> HIDE DEF new
<1>5. Lowered(old, new, k, a)
  BY <1>2, <1>4 DEF Lowered
<1> QED BY <1>3, <1>4, <1>5

\* Every round of the loop drops a source, passes a claim or books a row.
LEMMA RoundEffect ==
    ASSUME NEW s \in Loops, ~Spent(s)
    PROVE  /\ AllocationRound(s) \in Loops
           /\ \/ Drops(s, AllocationRound(s))
              \/ Passes(s, AllocationRound(s))
              \/ \E a \in Nat : Applies(s, AllocationRound(s), a)
<1> DEFINE source == s.sources[1]
           claim == s.claims[s.claimIndex]
           k == s.claimIndex
           t == AllocationRound(s)
<1>1. /\ s.sources \in Seq(Slot) /\ s.claims \in Seq(Slot) /\ k \in Nat \ {0} /\ s.rows \subseteq Row
      /\ s = [sources |-> s.sources, claims |-> s.claims, claimIndex |-> s.claimIndex, rows |-> s.rows]
  BY DEF Loops
<1>2. /\ Len(s.sources) \in Nat \ {0} /\ k \in 1 .. Len(s.claims) /\ Len(s.claims) \in Nat
      /\ Head(s.sources) = source
  BY <1>1 DEF Spent
<1>3. /\ source \in Slot /\ source.id \in Nat /\ source.remaining \in Nat
      /\ claim \in Slot /\ claim.id \in Nat /\ claim.remaining \in Nat
  <2>1. source \in Slot /\ claim \in Slot
    BY <1>1, <1>2
  <2> HIDE DEF source, claim
  <2> QED BY <2>1 DEF Slot
<1>4. CASE source.remaining = 0
  <2>1. t = [s EXCEPT !.sources = Tail(@)]
    BY <1>2, <1>4 DEF AllocationRound
  <2>2. Tail(s.sources) \in Seq(Slot)
    BY <1>1, <1>2
  <2>3. t = [sources |-> Tail(s.sources), claims |-> s.claims, claimIndex |-> k, rows |-> s.rows]
    BY <1>1, <2>1
  <2> HIDE DEF t
  <2>4. t \in Loops
    BY <1>1, <2>2, <2>3 DEF Loops
  <2>5. Drops(s, t)
    BY <1>4, <2>3 DEF Drops
  <2> QED BY <2>4, <2>5 DEF t
<1>5. CASE source.remaining # 0 /\ claim.remaining = 0
  <2>1. t = [s EXCEPT !.claimIndex = @ + 1]
    BY <1>2, <1>5 DEF AllocationRound
  <2>2. t = [sources |-> s.sources, claims |-> s.claims, claimIndex |-> k + 1, rows |-> s.rows]
    BY <1>1, <2>1
  <2> HIDE DEF t
  <2>3. t \in Loops
    BY <1>1, <2>2 DEF Loops
  <2>4. Passes(s, t)
    BY <1>5, <2>2 DEF Passes
  <2> QED BY <2>3, <2>4 DEF t
<1>6. CASE source.remaining # 0 /\ claim.remaining # 0
  <2> DEFINE a == Min({source.remaining, claim.remaining})
             row == [source |-> source.id, target |-> claim.id, amount |-> a]
             S == [s.sources EXCEPT ![1].remaining = @ - a]
             C == [s.claims EXCEPT ![k].remaining = @ - a]
  <2>1. /\ a \in Nat \ {0} /\ a <= source.remaining /\ a <= claim.remaining
        /\ a = source.remaining \/ a = claim.remaining
    <3>1. PICK x, y : x = source.remaining /\ y = claim.remaining
      OBVIOUS
    <3>2. x \in Nat \ {0} /\ y \in Nat \ {0}
      BY <1>3, <1>6, <3>1
    <3>3. {x, y} \subseteq Nat /\ {x, y} # {}
      BY <3>2
    <3>4. Min({x, y}) \in {x, y} /\ \A z \in {x, y} : Min({x, y}) <= z
      BY ONLY <3>3, LeastNumber
    <3>5. a = Min({x, y})
      BY <3>1
    <3> HIDE DEF a
    <3> QED BY <3>1, <3>2, <3>4, <3>5
  <2>2. t = [s EXCEPT !.sources[1].remaining = @ - a,
                      !.claims[k].remaining = @ - a,
                      !.rows = @ \cup {row}]
    BY <1>2, <1>6 DEF AllocationRound, ApplySource
  <2> HIDE DEF a
  <2>3. t = [sources |-> S, claims |-> C, claimIndex |-> k, rows |-> s.rows \cup {row}]
    BY <1>1, <2>2
  <2>4. S \in Seq(Slot) /\ Lowered(s.sources, S, 1, a)
    <3>1. 1 \in 1 .. Len(s.sources) /\ s.sources \in Seq(Slot) /\ a \in Nat /\ a <= s.sources[1].remaining
      BY <1>1, <1>2, <2>1
    <3> QED BY ONLY <3>1, LowerAt
  <2>5. C \in Seq(Slot) /\ Lowered(s.claims, C, k, a)
    <3>1. k \in 1 .. Len(s.claims) /\ s.claims \in Seq(Slot) /\ a \in Nat /\ a <= s.claims[k].remaining
      BY <1>1, <1>2, <2>1
    <3> QED BY ONLY <3>1, LowerAt
  <2>6. row \in Row
    BY <1>3, <2>1 DEF Row
  <2> HIDE DEF t, S, C
  <2>7. t \in Loops
    BY <1>1, <2>3, <2>4, <2>5, <2>6 DEF Loops
  <2>8. Applies(s, t, a)
    BY <1>3, <1>6, <2>1, <2>3, <2>4, <2>5 DEF Applies
  <2> QED BY <2>1, <2>7, <2>8 DEF t
<1> QED BY <1>4, <1>5, <1>6

(***************************************************************************)
(* The loop is well defined: from every state the rounds lead to at most   *)
(* one state in which it stops.                                            *)
(***************************************************************************)
Trace(s, t, n, f) ==
    /\ f \in [0 .. n -> Loops]
    /\ f[0] = s /\ f[n] = t /\ Spent(t)
    /\ \A i \in 0 .. n - 1 : ~Spent(f[i]) /\ f[i + 1] = AllocationRound(f[i])

EndsIn(s, t) == \E n \in Nat : \E f : Trace(s, t, n, f)

Outcome(s) == CHOOSE t : EndsIn(s, t)

\* A state ends where the state after its round ends.
LEMMA EndsAfterRound ==
    ASSUME NEW s \in Loops, ~Spent(s)
    PROVE  \A t : EndsIn(s, t) <=> EndsIn(AllocationRound(s), t)
<1>1. AllocationRound(s) \in Loops
  BY RoundEffect
<1>2. ASSUME NEW t, EndsIn(s, t) PROVE EndsIn(AllocationRound(s), t)
  <2>0. PICK n \in Nat : \E f : Trace(s, t, n, f)
    BY <1>2 DEF EndsIn
  <2>1. PICK f : Trace(s, t, n, f)
    BY <2>0
  <2>a. f \in [0 .. n -> Loops]
    BY <2>1 DEF Trace
  <2>2. n # 0
    BY <2>1 DEF Trace
  <2> DEFINE m == n - 1
             g == [i \in 0 .. m |-> f[i + 1]]
  <2>3. m \in Nat /\ g \in [0 .. m -> Loops]
    BY <2>2, <2>a
  <2>4. g[0] = AllocationRound(s) /\ g[m] = t /\ Spent(t)
    <3>1. 0 \in 0 .. n - 1
      BY <2>2
    <3>2. f[0 + 1] = AllocationRound(f[0])
      BY <2>1, <3>1 DEF Trace
    <3> QED BY <2>1, <2>2, <3>2 DEF Trace
  <2>5. \A i \in 0 .. m - 1 : ~Spent(g[i]) /\ g[i + 1] = AllocationRound(g[i])
    <3> SUFFICES ASSUME NEW i \in 0 .. m - 1 PROVE ~Spent(g[i]) /\ g[i + 1] = AllocationRound(g[i])
      OBVIOUS
    <3>1. i + 1 \in 0 .. n - 1 /\ g[i] = f[i + 1] /\ g[i + 1] = f[(i + 1) + 1]
      OBVIOUS
    <3> HIDE DEF g
    <3> QED BY <2>1, <3>1 DEF Trace
  <2> HIDE DEF g, m
  <2>6. Trace(AllocationRound(s), t, m, g)
    BY <2>3, <2>4, <2>5 DEF Trace
  <2> QED BY <2>3, <2>6 DEF EndsIn
<1>3. ASSUME NEW t, EndsIn(AllocationRound(s), t) PROVE EndsIn(s, t)
  <2>0. PICK n \in Nat : \E f : Trace(AllocationRound(s), t, n, f)
    BY <1>3 DEF EndsIn
  <2>1. PICK f : Trace(AllocationRound(s), t, n, f)
    BY <2>0
  <2>a. f \in [0 .. n -> Loops]
    BY <2>1 DEF Trace
  <2> DEFINE m == n + 1
             g == [i \in 0 .. m |-> IF i = 0 THEN s ELSE f[i - 1]]
  <2>2. m \in Nat /\ g \in [0 .. m -> Loops]
    BY <2>a
  <2>3. g[0] = s /\ g[m] = t /\ Spent(t)
    <3>1. g[m] = f[n]
      OBVIOUS
    <3> QED BY <2>1, <3>1 DEF Trace
  <2>4. \A i \in 0 .. m - 1 : ~Spent(g[i]) /\ g[i + 1] = AllocationRound(g[i])
    <3> SUFFICES ASSUME NEW i \in 0 .. m - 1 PROVE ~Spent(g[i]) /\ g[i + 1] = AllocationRound(g[i])
      OBVIOUS
    <3>1. CASE i = 0
      <4>1. g[i] = s /\ g[i + 1] = f[0]
        BY <3>1
      <4> HIDE DEF g
      <4> QED BY <2>1, <4>1 DEF Trace
    <3>2. CASE i # 0
      <4>1. i - 1 \in 0 .. n - 1 /\ g[i] = f[i - 1] /\ g[i + 1] = f[(i - 1) + 1]
        BY <3>2
      <4> HIDE DEF g
      <4> QED BY <2>1, <4>1 DEF Trace
    <3> QED BY <3>1, <3>2
  <2> HIDE DEF g, m
  <2>5. Trace(s, t, m, g)
    BY <2>2, <2>3, <2>4 DEF Trace
  <2> QED BY <2>2, <2>5 DEF EndsIn
<1> QED BY <1>2, <1>3

\* A state that is spent ends where it is.
LEMMA EndsAtOnce ==
    ASSUME NEW s \in Loops, Spent(s)
    PROVE  \A t : EndsIn(s, t) <=> t = s
<1>1. ASSUME NEW t, EndsIn(s, t) PROVE t = s
  <2>0. PICK n \in Nat : \E f : Trace(s, t, n, f)
    BY <1>1 DEF EndsIn
  <2>1. PICK f : Trace(s, t, n, f)
    BY <2>0
  <2>a. f \in [0 .. n -> Loops]
    BY <2>1 DEF Trace
  <2>2. n = 0
    <3>1. n # 0 => 0 \in 0 .. n - 1
      OBVIOUS
    <3> QED BY <2>1, <3>1 DEF Trace
  <2> QED BY <2>1, <2>2 DEF Trace
<1>2. EndsIn(s, s)
  <2> DEFINE f == [i \in 0 .. 0 |-> s]
  <2>1. f \in [0 .. 0 -> Loops] /\ f[0] = s /\ \A i \in 0 .. 0 - 1 : FALSE
    OBVIOUS
  <2> HIDE DEF f
  <2>2. Trace(s, s, 0, f)
    BY <2>1 DEF Trace
  <2> QED BY <2>1, <2>2 DEF EndsIn
<1> QED BY <1>1, <1>2

\* The recursion that defines Run holds of it: a function with this property exists.
LEMMA RunStep ==
    ASSUME NEW s \in Loops
    PROVE  Run[s] = IF Spent(s) THEN s ELSE Run[AllocationRound(s)]
<1> DEFINE F(g) == [r \in Loops |-> IF Spent(r) THEN r ELSE g[AllocationRound(r)]]
           f == [r \in Loops |-> Outcome(r)]
<1>1. ASSUME NEW r \in Loops PROVE f[r] = IF Spent(r) THEN r ELSE f[AllocationRound(r)]
  <2>1. CASE Spent(r)
    <3>1. \A t : EndsIn(r, t) <=> t = r
      BY <2>1, EndsAtOnce
    <3>2. (CHOOSE t : EndsIn(r, t)) = r
      BY <3>1
    <3> QED BY <2>1, <3>2 DEF Outcome
  <2>2. CASE ~Spent(r)
    <3> DEFINE q == AllocationRound(r)
               A(t) == EndsIn(r, t)
               B(t) == EndsIn(q, t)
    <3>1. q \in Loops
      BY <2>2, RoundEffect
    <3>2. \A t : A(t) <=> B(t)
      BY <2>2, EndsAfterRound
    <3> HIDE DEF A, B
    <3>3. (CHOOSE t : A(t)) = (CHOOSE t : B(t))
      BY <3>2
    <3>4. Outcome(r) = (CHOOSE t : A(t)) /\ Outcome(q) = (CHOOSE t : B(t))
      BY Zenon DEF Outcome, A, B
    <3> HIDE DEF q
    <3>5. f[r] = f[q]
      BY <3>1, <3>3, <3>4
    <3> QED BY <2>2, <3>5 DEF q
  <2> QED BY <2>1, <2>2
<1>2. f = F(f)
  <2> HIDE DEF f
  <2>1. \A r \in Loops : f[r] = IF Spent(r) THEN r ELSE f[AllocationRound(r)]
    BY <1>1
  <2>2. f = [r \in Loops |-> f[r]]
    BY DEF f
  <2> QED BY <2>1, <2>2
<1>3. Run = CHOOSE g : g = F(g)
  BY Zenon DEF Run
<1>4. Run = F(Run)
  <2> HIDE DEF F, f
  <2> QED BY <1>2, <1>3
<1>5. F(Run)[s] = IF Spent(s) THEN s ELSE Run[AllocationRound(s)]
  OBVIOUS
<1> HIDE DEF F
<1> QED BY <1>4, <1>5

-----------------------------------------------------------------------------
(***************************************************************************)
(* The loop stops: every round uses up a source, a claim or a remainder.   *)
(* What the rounds keep therefore holds of the state in which it stops.    *)
(***************************************************************************)
Remainder(slot) == IF slot.remaining = 0 THEN 0 ELSE 1

Effort(s) ==
    2 * Len(s.sources) + 2 * (Len(s.claims) + 1 - s.claimIndex)
        + Remainder(s.sources[1]) + Remainder(s.claims[s.claimIndex])

\* Every round costs effort, so that the loop ends.
LEMMA EffortFalls ==
    ASSUME NEW s \in Loops, ~Spent(s), NEW t \in Loops, ~Spent(t),
           Drops(s, t) \/ Passes(s, t) \/ \E a \in Nat : Applies(s, t, a)
    PROVE  Effort(s) \in Nat /\ Effort(t) < Effort(s)
<1>1. ASSUME NEW r \in Loops, ~Spent(r)
      PROVE  /\ r.sources \in Seq(Slot) /\ Len(r.sources) \in Nat \ {0}
             /\ Len(r.claims) \in Nat /\ r.claimIndex \in 1 .. Len(r.claims)
  BY <1>1 DEF Loops, Spent
<1>2. \A x : Remainder(x) \in {0, 1}
  BY DEF Remainder
<1>d. ASSUME NEW r \in Loops, ~Spent(r)
      PROVE  \E l \in Nat, c \in Nat, k \in Nat, u \in Nat, v \in Nat :
                 /\ u <= 1 /\ v <= 1
                 /\ l = Len(r.sources) /\ c = Len(r.claims) /\ k = r.claimIndex /\ k <= c
                 /\ u = Remainder(r.sources[1]) /\ v = Remainder(r.claims[r.claimIndex])
  <2>1. PICK l \in Nat, c \in Nat, k \in Nat :
            l = Len(r.sources) /\ c = Len(r.claims) /\ k = r.claimIndex /\ k <= c
    BY <1>1, <1>d
  <2>2. PICK u \in Nat, v \in Nat : /\ u <= 1 /\ v <= 1
                                    /\ u = Remainder(r.sources[1]) /\ v = Remainder(r.claims[r.claimIndex])
    BY <1>2
  <2> QED BY ONLY <2>1, <2>2
<1>3. PICK l \in Nat, c \in Nat, k \in Nat, u \in Nat, v \in Nat :
          /\ u <= 1 /\ v <= 1
          /\ l = Len(s.sources) /\ c = Len(s.claims) /\ k = s.claimIndex /\ k <= c
          /\ u = Remainder(s.sources[1]) /\ v = Remainder(s.claims[s.claimIndex])
  BY <1>d, Zenon
<1>a. PICK tl \in Nat, tc \in Nat, tk \in Nat, tu \in Nat, tv \in Nat :
          /\ tu <= 1 /\ tv <= 1
          /\ tl = Len(t.sources) /\ tc = Len(t.claims) /\ tk = t.claimIndex /\ tk <= tc
          /\ tu = Remainder(t.sources[1]) /\ tv = Remainder(t.claims[t.claimIndex])
  BY <1>d, Zenon
<1>b. /\ Effort(s) = 2 * l + 2 * (c + 1 - k) + u + v
      /\ Effort(t) = 2 * tl + 2 * (tc + 1 - tk) + tu + tv
  BY <1>3, <1>a DEF Effort
<1>c. k <= c /\ tk <= tc /\ u <= 1 /\ v <= 1 /\ tu <= 1 /\ tv <= 1
  BY <1>3, <1>a
<1>4. CASE Drops(s, t)
  <2>1. Len(t.sources) = Len(s.sources) - 1
    BY <1>1, <1>4 DEF Drops
  <2>2. Remainder(s.sources[1]) = 0 /\ t.claims = s.claims /\ t.claimIndex = s.claimIndex
    BY <1>4 DEF Drops, Remainder
  <2>3. tl = l - 1 /\ u = 0 /\ tc = c /\ tk = k /\ tv = v
    BY <1>3, <1>a, <2>1, <2>2
  <2> QED BY ONLY <1>c, <1>b, <2>3
<1>5. CASE Passes(s, t)
  <2>1. t.sources = s.sources /\ t.claims = s.claims /\ t.claimIndex = s.claimIndex + 1
    BY <1>5 DEF Passes
  <2>2. Remainder(s.claims[s.claimIndex]) = 0
    BY <1>5 DEF Passes, Remainder
  <2>3. tl = l /\ v = 0 /\ tc = c /\ tk = k + 1 /\ tu = u
    BY <1>3, <1>a, <2>1, <2>2
  <2> QED BY ONLY <1>c, <1>b, <2>3
<1>6. CASE \E a \in Nat : Applies(s, t, a)
  <2>1. PICK a \in Nat : Applies(s, t, a)
    BY <1>6
  <2>2. Len(t.sources) = Len(s.sources) /\ Len(t.claims) = Len(s.claims) /\ t.claimIndex = s.claimIndex
    BY <2>1 DEF Applies, Lowered
  <2>3. /\ t.sources[1].remaining = s.sources[1].remaining - a
        /\ t.claims[s.claimIndex].remaining = s.claims[s.claimIndex].remaining - a
    BY <1>1, <2>1 DEF Applies, Lowered
  <2>4. Remainder(s.sources[1]) = 1 /\ Remainder(s.claims[s.claimIndex]) = 1
    BY <2>1 DEF Applies, Remainder
  <2>5. Remainder(t.sources[1]) = 0 \/ Remainder(t.claims[t.claimIndex]) = 0
    BY <2>1, <2>2, <2>3 DEF Applies, Remainder
  <2>6. tl = l /\ tc = c /\ tk = k /\ u = 1 /\ v = 1 /\ (tu = 0 \/ tv = 0)
    BY <1>3, <1>a, <2>2, <2>4, <2>5
  <2> QED BY ONLY <1>c, <1>b, <2>6
<1>7. Effort(s) \in Nat
  BY ONLY <1>c, <1>b
<1> QED BY <1>4, <1>5, <1>6, <1>7

\* What every round keeps holds where the loop ends, and there nothing is left to do.
LEMMA RunKeeps ==
    ASSUME NEW I, I \subseteq Loops, \A s \in I : ~Spent(s) => AllocationRound(s) \in I
    PROVE  \A s \in I : Run[s] \in I /\ Spent(Run[s])
<1> DEFINE Ends(s) == Run[s] \in I /\ Spent(Run[s])
           G == {n \in Nat : \A s \in I : Spent(s) \/ Effort(s) < n => Ends(s)}
<1>1. ASSUME NEW s \in I, Spent(s) PROVE Ends(s)
  BY <1>1, RunStep
<1>2. ASSUME NEW s \in I, ~Spent(s) PROVE Effort(s) \in Nat
  <2>1. /\ s.sources \in Seq(Slot) /\ s.claims \in Seq(Slot) /\ s.claimIndex \in Nat \ {0}
        /\ ~(s.claimIndex > Len(s.claims))
    BY <1>2 DEF Loops, Spent
  <2>2. PICK a \in Nat, b \in Nat, c \in Nat :
            a = Len(s.sources) /\ b = Len(s.claims) /\ c = s.claimIndex
    BY <2>1
  <2>3. PICK x \in Nat, y \in Nat :
            x = Remainder((s.sources)[1]) /\ y = Remainder((s.claims)[s.claimIndex])
    BY DEF Remainder
  <2>4. c <= b
    BY <2>1, <2>2
  <2>5. 2 * a + 2 * (b + 1 - c) + x + y \in Nat
    BY ONLY <2>4
  <2> QED BY <2>2, <2>3, <2>5 DEF Effort
<1>3. 0 \in G
  <2> HIDE DEF Ends
  <2>1. \A s \in I : ~Spent(s) => ~(Effort(s) < 0)
    BY <1>2
  <2> QED BY <1>1, <2>1
<1>4. ASSUME NEW n \in Nat, n \in G PROVE n + 1 \in G
  <2> SUFFICES ASSUME NEW s \in I, ~Spent(s), Effort(s) < n + 1 PROVE Ends(s)
    <3> HIDE DEF Ends
    <3> QED BY <1>1
  <2>1. PICK t \in I : t = AllocationRound(s)
    OBVIOUS
  <2>2. s \in Loops /\ t \in Loops
    OBVIOUS
  <2>3. Spent(t) \/ Effort(t) < n
    <3>1. Drops(s, t) \/ Passes(s, t) \/ \E a \in Nat : Applies(s, t, a)
      BY <2>1, <2>2, RoundEffect
    <3>2. ~Spent(t) => Effort(t) < Effort(s) /\ Effort(t) \in Nat /\ Effort(s) \in Nat
      BY <1>2, <2>2, <3>1, EffortFalls
    <3> QED BY <3>2
  <2>4. Ends(t)
    <3> HIDE DEF Ends
    <3> QED BY <1>4, <2>3
  <2>5. Run[s] = Run[t]
    BY <2>1, <2>2, RunStep
  <2> QED BY <2>4, <2>5
<1>5. Nat \subseteq G
  <2> HIDE DEF G
  <2> QED BY <1>3, <1>4, NumberInduction
<1>6. ASSUME NEW s \in I PROVE Ends(s)
  <2> HIDE DEF Ends
  <2>1. CASE Spent(s)
    BY <1>1, <2>1
  <2>2. CASE ~Spent(s)
    <3>1. PICK n \in Nat : n = Effort(s) + 1
      BY <1>2, <2>2
    <3>2. Effort(s) < n /\ n \in G
      BY <1>2, <1>5, <2>2, <3>1
    <3> QED BY <3>2
  <2> QED BY <2>1, <2>2
<1> QED BY <1>6

(***************************************************************************)
(* Sums over the rows of an allocation table, per source and per target.   *)
(***************************************************************************)
BySource(rows, x) == SumAmounts({r \in rows : r.source = x})
ByTarget(rows, x) == SumAmounts({r \in rows : r.target = x})

\* One more row counts once for its source and once for its target.
LEMMA RowAdded ==
    ASSUME NEW rows, rows \subseteq Row, IsFiniteSet(rows), NEW row \in Row, row \notin rows, NEW x
    PROVE  /\ IsFiniteSet(rows \cup {row})
           /\ BySource(rows \cup {row}, x) = BySource(rows, x) + (IF row.source = x THEN row.amount ELSE 0)
           /\ ByTarget(rows \cup {row}, x) = ByTarget(rows, x) + (IF row.target = x THEN row.amount ELSE 0)
           /\ BySource(rows, x) \in Int /\ ByTarget(rows, x) \in Int
<1> DEFINE R == rows \cup {row}
           Src == {r \in rows : r.source = x}
           Trg == {r \in rows : r.target = x}
<1>1. IsFiniteSet(R)
  BY FS_AddElement
<1>2. \A r \in R : r.amount \in Int
  BY DEF Row
<1>3. \A S : SumAmounts(S) = AmountSum(S)
  BY Zenon DEF SumAmounts, AmountSum
<1> HIDE DEF R
<1>4. /\ \A T \in SUBSET R : SumAmounts(T) \in Int
      /\ \A T, U \in SUBSET R : T \cap U = {} => SumAmounts(T \cup U) = SumAmounts(T) + SumAmounts(U)
      /\ \A r \in R : SumAmounts({r}) = r.amount
  BY <1>1, <1>2, <1>3, AmountFacts
<1>5. Src \in SUBSET R /\ Trg \in SUBSET R /\ {row} \in SUBSET R /\ Src \cap {row} = {} /\ Trg \cap {row} = {}
  BY DEF R
<1>6. {r \in R : r.source = x} = IF row.source = x THEN Src \cup {row} ELSE Src
  <2>1. CASE row.source = x
    <3>1. {r \in R : r.source = x} = Src \cup {row}
      BY <2>1 DEF R
    <3> QED BY <2>1, <3>1
  <2>2. CASE row.source # x
    <3>1. {r \in R : r.source = x} = Src
      BY <2>2 DEF R
    <3> QED BY <2>2, <3>1
  <2> QED BY <2>1, <2>2
<1>7. {r \in R : r.target = x} = IF row.target = x THEN Trg \cup {row} ELSE Trg
  <2>1. CASE row.target = x
    <3>1. {r \in R : r.target = x} = Trg \cup {row}
      BY <2>1 DEF R
    <3> QED BY <2>1, <3>1
  <2>2. CASE row.target # x
    <3>1. {r \in R : r.target = x} = Trg
      BY <2>2 DEF R
    <3> QED BY <2>2, <3>1
  <2> QED BY <2>1, <2>2
<1>8. SumAmounts({row}) = row.amount /\ row.amount \in Int
  BY <1>2, <1>4, <1>5
<1>9. BySource(R, x) = SumAmounts({r \in R : r.source = x}) /\ BySource(rows, x) = SumAmounts(Src)
  BY DEF BySource
<1>10. ByTarget(R, x) = SumAmounts({r \in R : r.target = x}) /\ ByTarget(rows, x) = SumAmounts(Trg)
  BY DEF ByTarget
<1>11. SumAmounts(Src) \in Int /\ SumAmounts(Trg) \in Int
  BY <1>4, <1>5
<1>12. SumAmounts(Src \cup {row}) = SumAmounts(Src) + row.amount
       /\ SumAmounts(Trg \cup {row}) = SumAmounts(Trg) + row.amount
  BY <1>4, <1>5, <1>8
<1> HIDE DEF Src, Trg
<1>13. BySource(R, x) = BySource(rows, x) + (IF row.source = x THEN row.amount ELSE 0)
  <2>1. CASE row.source = x
    BY <1>6, <1>9, <1>12, <2>1
  <2>2. CASE row.source # x
    <3>1. BySource(R, x) = BySource(rows, x) /\ BySource(rows, x) \in Int
      BY <1>6, <1>9, <1>11, <2>2
    <3> QED BY <2>2, <3>1
  <2> QED BY <2>1, <2>2
<1>14. ByTarget(R, x) = ByTarget(rows, x) + (IF row.target = x THEN row.amount ELSE 0)
  <2>1. CASE row.target = x
    BY <1>7, <1>10, <1>12, <2>1
  <2>2. CASE row.target # x
    <3>1. ByTarget(R, x) = ByTarget(rows, x) /\ ByTarget(rows, x) \in Int
      BY <1>7, <1>10, <1>11, <2>2
    <3> QED BY <2>2, <3>1
  <2> QED BY <2>1, <2>2
<1> QED BY <1>1, <1>9, <1>10, <1>11, <1>13, <1>14 DEF R

-----------------------------------------------------------------------------
(***************************************************************************)
(* What the loop keeps, for the sources and claims it was started with:    *)
(* what a source has lost and what a claim has been given is in the rows,  *)
(* claims behind the index are exhausted, no row lies ahead of the loop,   *)
(* and a source that can still give to the claim under the index has not   *)
(* yet done so - so that a new row never coincides with an old one.        *)
(***************************************************************************)
Distinct(slots) == \A i, j \in 1 .. Len(slots) : slots[i].id = slots[j].id => i = j

Dropped(sources, s) == Len(sources) - Len(s.sources)

RowsFit(sources, claims, s) ==
    /\ IsFiniteSet(s.rows)
    /\ \A r \in s.rows :
           /\ \E k \in 1 .. Len(sources) : k <= Dropped(sources, s) + 1 /\ r.source = sources[k].id
           /\ \E j \in 1 .. Len(claims) : j <= s.claimIndex /\ r.target = claims[j].id

SourcesFit(sources, s) ==
    /\ Len(s.sources) <= Len(sources)
    /\ \A k \in 1 .. Len(sources) :
           IF k <= Dropped(sources, s)
           THEN BySource(s.rows, sources[k].id) = sources[k].remaining
           ELSE /\ s.sources[k - Dropped(sources, s)].id = sources[k].id
                /\ BySource(s.rows, sources[k].id)
                       = sources[k].remaining - s.sources[k - Dropped(sources, s)].remaining

ClaimsFit(claims, s) ==
    /\ Len(s.claims) = Len(claims)
    /\ \A j \in 1 .. Len(claims) :
           /\ s.claims[j].id = claims[j].id
           /\ ByTarget(s.rows, claims[j].id) = claims[j].remaining - s.claims[j].remaining
           /\ j < s.claimIndex => s.claims[j].remaining = 0

Fresh(s) ==
    ~Spent(s) =>
        \/ s.sources[1].remaining = 0
        \/ s.claims[s.claimIndex].remaining = 0
        \/ \A r \in s.rows : r.source = s.sources[1].id => r.target # s.claims[s.claimIndex].id

Draining(sources, claims) ==
    {s \in Loops : /\ RowsFit(sources, claims, s) /\ SourcesFit(sources, s)
                   /\ ClaimsFit(claims, s) /\ Fresh(s)}

\* The parts of a loop state.
LEMMA LoopShape ==
    ASSUME NEW s \in Loops
    PROVE  /\ s.sources \in Seq(Slot) /\ Len(s.sources) \in Nat
           /\ s.claims \in Seq(Slot) /\ Len(s.claims) \in Nat
           /\ s.claimIndex \in Nat \ {0} /\ s.rows \subseteq Row
           /\ \A i \in 1 .. Len(s.sources) : s.sources[i].id \in Nat /\ s.sources[i].remaining \in Nat
           /\ \A i \in 1 .. Len(s.claims) : s.claims[i].id \in Nat /\ s.claims[i].remaining \in Nat
           /\ ~Spent(s) => Len(s.sources) > 0 /\ s.claimIndex <= Len(s.claims)
<1>1. s.sources \in Seq(Slot) /\ s.claims \in Seq(Slot) /\ s.claimIndex \in Nat \ {0} /\ s.rows \subseteq Row
  BY DEF Loops
<1>2. ASSUME NEW q \in Seq(Slot) PROVE \A i \in 1 .. Len(q) : q[i].id \in Nat /\ q[i].remaining \in Nat
  <2> SUFFICES ASSUME NEW i \in 1 .. Len(q) PROVE q[i].id \in Nat /\ q[i].remaining \in Nat
    OBVIOUS
  <2>1. q[i] \in Slot
    OBVIOUS
  <2> QED BY <2>1 DEF Slot
<1>3. ~Spent(s) => Len(s.sources) > 0 /\ s.claimIndex <= Len(s.claims)
  BY <1>1 DEF Spent
<1> QED BY <1>1, <1>2, <1>3

\* Dropping a source that is empty keeps the invariant of the loop.
LEMMA DropKeeps ==
    ASSUME NEW sources \in Seq(Slot), NEW claims \in Seq(Slot), Distinct(sources), Distinct(claims),
           NEW s \in Draining(sources, claims), ~Spent(s), NEW t \in Loops, Drops(s, t)
    PROVE  t \in Draining(sources, claims)
<1> PICK n \in Nat, d \in Nat : n = Len(sources) /\ d = Dropped(sources, s) /\ Len(s.sources) = n - d /\ d < n
  <2>1. Len(s.sources) \in Nat \ {0} /\ Len(s.sources) <= Len(sources) /\ Len(sources) \in Nat
    BY LoopShape DEF Draining, SourcesFit
  <2>2. PICK l \in Nat, m \in Nat : l = Len(s.sources) /\ m = Len(sources) /\ l # 0 /\ l <= m
    BY <2>1
  <2>3. l <= m /\ l # 0
    BY <2>2
  <2>4. PICK e \in Nat : e = m - l
    BY ONLY <2>3
  <2>5. l = m - e /\ e < m
    BY ONLY <2>3, <2>4
  <2>6. Dropped(sources, s) = e
    BY <2>2, <2>4 DEF Dropped
  <2> QED BY <2>2, <2>5, <2>6
<1>1. /\ s \in Loops /\ RowsFit(sources, claims, s) /\ SourcesFit(sources, s)
      /\ ClaimsFit(claims, s) /\ Fresh(s)
  BY DEF Draining
<1>2. /\ Len(t.sources) = n - (d + 1) /\ Dropped(sources, t) = d + 1
      /\ \A i \in 1 .. n - (d + 1) : t.sources[i] = s.sources[i + 1]
      /\ t.rows = s.rows /\ t.claims = s.claims /\ t.claimIndex = s.claimIndex
      /\ s.sources[1].remaining = 0
  <2>1. s.sources \in Seq(Slot) /\ Len(s.sources) = n - d
    BY <1>1, LoopShape
  <2>2. t.sources = Tail(s.sources) /\ t.rows = s.rows /\ t.claims = s.claims /\ t.claimIndex = s.claimIndex
        /\ s.sources[1].remaining = 0
    BY DEF Drops
  <2>3. Len(t.sources) = n - (d + 1)
    BY <2>1, <2>2
  <2>4. \A i \in 1 .. n - (d + 1) : t.sources[i] = s.sources[i + 1]
    BY <2>1, <2>2
  <2>5. Dropped(sources, t) = d + 1
    BY <2>3 DEF Dropped
  <2> QED BY <2>2, <2>3, <2>4, <2>5
<1>3. RowsFit(sources, claims, t)
  BY <1>1, <1>2 DEF RowsFit
<1>4. SourcesFit(sources, t)
  <2>1. ASSUME NEW k \in 1 .. n
        PROVE  IF k <= d + 1
               THEN BySource(t.rows, sources[k].id) = sources[k].remaining
               ELSE /\ t.sources[k - (d + 1)].id = sources[k].id
                    /\ BySource(t.rows, sources[k].id)
                           = sources[k].remaining - t.sources[k - (d + 1)].remaining
    <3>1. IF k <= d
          THEN BySource(s.rows, sources[k].id) = sources[k].remaining
          ELSE /\ s.sources[k - d].id = sources[k].id
               /\ BySource(s.rows, sources[k].id) = sources[k].remaining - s.sources[k - d].remaining
      BY <1>1 DEF SourcesFit
    <3>2. CASE k <= d
      BY <1>2, <3>1, <3>2
    <3>3. CASE k = d + 1
      <4>1. k - d = 1 /\ ~(k <= d)
        BY <3>3
      <4>2. sources[k].remaining \in Nat
        <5>1. sources[k] \in Slot
          OBVIOUS
        <5> QED BY <5>1 DEF Slot
      <4>3. BySource(s.rows, sources[k].id) = sources[k].remaining - s.sources[1].remaining
        BY <3>1, <4>1
      <4> QED BY <1>2, <3>3, <4>2, <4>3
    <3>4. CASE k > d + 1
      <4>1. k - (d + 1) \in 1 .. n - (d + 1) /\ (k - (d + 1)) + 1 = k - d /\ ~(k <= d) /\ ~(k <= d + 1)
        BY <3>4
      <4>2. t.sources[k - (d + 1)] = s.sources[k - d]
        BY <1>2, <4>1
      <4> QED BY <1>2, <3>1, <4>1, <4>2
    <3> QED BY <3>2, <3>3, <3>4
  <2> QED BY <1>2, <2>1 DEF SourcesFit
<1>5. ClaimsFit(claims, t)
  BY <1>1, <1>2 DEF ClaimsFit
<1>6. Fresh(t)
  <2> SUFFICES ASSUME ~Spent(t), NEW r \in t.rows PROVE r.source # t.sources[1].id
    BY DEF Fresh
  <2>1. d + 2 \in 1 .. n
    BY <1>2, LoopShape
  <2>2. t.sources[1].id = sources[d + 2].id
    <3>1. ~(d + 2 <= d + 1) /\ (d + 2) - (d + 1) = 1
      OBVIOUS
    <3> QED BY <1>2, <1>4, <2>1, <3>1 DEF SourcesFit
  <2>3. PICK k \in 1 .. n : k <= d + 1 /\ r.source = sources[k].id
    BY <1>1, <1>2 DEF RowsFit
  <2> QED BY <2>1, <2>2, <2>3 DEF Distinct
<1> QED BY <1>3, <1>4, <1>5, <1>6 DEF Draining

\* So does passing a claim that is settled.
LEMMA PassKeeps ==
    ASSUME NEW sources \in Seq(Slot), NEW claims \in Seq(Slot), Distinct(sources), Distinct(claims),
           NEW s \in Draining(sources, claims), ~Spent(s), NEW t \in Loops, Passes(s, t)
    PROVE  t \in Draining(sources, claims)
<1> PICK n \in Nat, k \in Nat : n = Len(claims) /\ k = s.claimIndex /\ k <= n
  BY LoopShape DEF Draining, ClaimsFit
<1>1. /\ s \in Loops /\ RowsFit(sources, claims, s) /\ SourcesFit(sources, s)
      /\ ClaimsFit(claims, s) /\ Fresh(s)
  BY DEF Draining
<1>2. /\ t.sources = s.sources /\ t.rows = s.rows /\ t.claims = s.claims /\ t.claimIndex = k + 1
      /\ s.claims[k].remaining = 0 /\ Dropped(sources, t) = Dropped(sources, s)
  BY DEF Passes, Dropped
<1>3. RowsFit(sources, claims, t)
  <2>1. \A j \in 1 .. n : j <= k => j <= k + 1
    OBVIOUS
  <2> QED BY <1>1, <1>2, <2>1 DEF RowsFit
<1>4. SourcesFit(sources, t)
  BY <1>1, <1>2 DEF SourcesFit
<1>5. ClaimsFit(claims, t)
  <2>1. \A j \in 1 .. n : j < k + 1 => j < k \/ j = k
    OBVIOUS
  <2> QED BY <1>1, <1>2, <2>1 DEF ClaimsFit
<1>6. Fresh(t)
  <2> SUFFICES ASSUME ~Spent(t), NEW r \in t.rows PROVE r.target # t.claims[k + 1].id
    BY <1>2 DEF Fresh
  <2>1. k + 1 \in 1 .. n
    BY <1>1, <1>2, LoopShape DEF ClaimsFit
  <2>2. t.claims[k + 1].id = claims[k + 1].id
    BY <1>5, <2>1 DEF ClaimsFit
  <2>3. PICK j \in 1 .. n : j <= k /\ r.target = claims[j].id
    BY <1>1, <1>2 DEF RowsFit
  <2> QED BY <2>1, <2>2, <2>3 DEF Distinct
<1> QED BY <1>3, <1>4, <1>5, <1>6 DEF Draining

\* So does booking a row.
LEMMA ApplyKeeps ==
    ASSUME NEW sources \in Seq(Slot), NEW claims \in Seq(Slot), Distinct(sources), Distinct(claims),
           NEW s \in Draining(sources, claims), ~Spent(s), NEW t \in Loops, NEW a \in Nat, Applies(s, t, a)
    PROVE  t \in Draining(sources, claims)
<1> PICK n \in Nat, d \in Nat : n = Len(sources) /\ d = Dropped(sources, s) /\ Len(s.sources) = n - d /\ d < n
  <2>1. Len(s.sources) \in Nat \ {0} /\ Len(s.sources) <= Len(sources) /\ Len(sources) \in Nat
    BY LoopShape DEF Draining, SourcesFit
  <2>2. PICK l \in Nat, m \in Nat : l = Len(s.sources) /\ m = Len(sources) /\ l # 0 /\ l <= m
    BY <2>1
  <2>3. l <= m /\ l # 0
    BY <2>2
  <2>4. PICK e \in Nat : e = m - l
    BY ONLY <2>3
  <2>5. l = m - e /\ e < m
    BY ONLY <2>3, <2>4
  <2>6. Dropped(sources, s) = e
    BY <2>2, <2>4 DEF Dropped
  <2> QED BY <2>2, <2>5, <2>6
<1> PICK c \in Nat, k \in Nat \ {0} : c = Len(claims) /\ k = s.claimIndex /\ k <= c /\ Len(s.claims) = c
  BY LoopShape DEF Draining, ClaimsFit
<1>1. /\ s \in Loops /\ RowsFit(sources, claims, s) /\ SourcesFit(sources, s)
      /\ ClaimsFit(claims, s) /\ Fresh(s)
  BY DEF Draining
<1> DEFINE row == [source |-> s.sources[1].id, target |-> s.claims[k].id, amount |-> a]
<1>2. /\ s.sources[1].remaining \in Nat \ {0} /\ s.claims[k].remaining \in Nat \ {0}
      /\ a = s.sources[1].remaining \/ a = s.claims[k].remaining
      /\ t.claimIndex = k
      /\ Lowered(s.sources, t.sources, 1, a)
      /\ Lowered(s.claims, t.claims, k, a)
      /\ t.rows = s.rows \cup {row}
  BY DEF Applies
<1>3. row \in Row /\ row \notin s.rows
  <2>1. row \in Row
    BY <1>1, LoopShape DEF Row
  <2>2. \A r \in s.rows : r.source = s.sources[1].id => r.target # s.claims[k].id
    BY <1>1, <1>2 DEF Fresh
  <2> QED BY <2>1, <2>2
<1>4. s.sources[1].id = sources[d + 1].id /\ s.claims[k].id = claims[k].id
      /\ d + 1 \in 1 .. n /\ k \in 1 .. c
  <2>1. d + 1 \in 1 .. n /\ k \in 1 .. c /\ ~(d + 1 <= d) /\ (d + 1) - d = 1
    OBVIOUS
  <2>2. s.sources[(d + 1) - d].id = sources[d + 1].id
    BY <1>1, <2>1 DEF SourcesFit
  <2> QED BY <1>1, <2>1, <2>2 DEF ClaimsFit
<1>5. /\ row.source = sources[d + 1].id /\ row.target = claims[k].id /\ row.amount = a
  BY <1>4
<1> PICK new : new = row
  OBVIOUS
<1> HIDE DEF row
<1>6. /\ IsFiniteSet(t.rows)
      /\ \A x : /\ BySource(t.rows, x) = BySource(s.rows, x) + (IF new.source = x THEN a ELSE 0)
                /\ ByTarget(t.rows, x) = ByTarget(s.rows, x) + (IF new.target = x THEN a ELSE 0)
                /\ BySource(s.rows, x) \in Int /\ ByTarget(s.rows, x) \in Int
  <2> PICK rows : rows = s.rows
    OBVIOUS
  <2>1. rows \subseteq Row /\ IsFiniteSet(rows) /\ new \in Row /\ new \notin rows /\ new.amount = a
    BY <1>1, <1>3, <1>5, LoopShape DEF RowsFit
  <2>2. t.rows = rows \cup {new}
    BY <1>2
  <2>3. ASSUME NEW x
        PROVE  /\ IsFiniteSet(rows \cup {new})
               /\ BySource(rows \cup {new}, x) = BySource(rows, x) + (IF new.source = x THEN new.amount ELSE 0)
               /\ ByTarget(rows \cup {new}, x) = ByTarget(rows, x) + (IF new.target = x THEN new.amount ELSE 0)
               /\ BySource(rows, x) \in Int /\ ByTarget(rows, x) \in Int
    BY ONLY <2>1, RowAdded
  <2> QED BY <2>1, <2>2, <2>3
<1>7. Len(t.sources) = n - d /\ Dropped(sources, t) = d
  BY <1>2 DEF Lowered, Dropped
<1>8. RowsFit(sources, claims, t)
  <2>0. t.claimIndex = k /\ IsFiniteSet(t.rows) /\ Dropped(sources, t) = d /\ n = Len(sources) /\ c = Len(claims)
    BY <1>2, <1>6, <1>7
  <2>a. (\A r \in t.rows : /\ \E i \in 1 .. n : i <= d + 1 /\ r.source = sources[i].id
                           /\ \E j \in 1 .. c : j <= k /\ r.target = claims[j].id)
            => RowsFit(sources, claims, t)
    BY ONLY <2>0 DEF RowsFit
  <2> SUFFICES ASSUME NEW r \in t.rows
               PROVE  /\ \E i \in 1 .. n : i <= d + 1 /\ r.source = sources[i].id
                      /\ \E j \in 1 .. c : j <= k /\ r.target = claims[j].id
    BY <2>a
  <2>1. CASE r \in s.rows
    BY <1>1, <2>1 DEF RowsFit
  <2>2. CASE r = new
    <3>1. d + 1 <= d + 1 /\ k <= k
      OBVIOUS
    <3> QED BY <1>4, <1>5, <2>2, <3>1
  <2> QED BY <1>2, <2>1, <2>2
<1>9. SourcesFit(sources, t)
  <2>1. ASSUME NEW i \in 1 .. n
        PROVE  IF i <= d
               THEN BySource(t.rows, sources[i].id) = sources[i].remaining
               ELSE /\ t.sources[i - d].id = sources[i].id
                    /\ BySource(t.rows, sources[i].id) = sources[i].remaining - t.sources[i - d].remaining
    <3>1. IF i <= d
          THEN BySource(s.rows, sources[i].id) = sources[i].remaining
          ELSE /\ s.sources[i - d].id = sources[i].id
               /\ BySource(s.rows, sources[i].id) = sources[i].remaining - s.sources[i - d].remaining
      BY <1>1 DEF SourcesFit
    <3>2. new.source = sources[i].id <=> i = d + 1
      BY <1>4, <1>5 DEF Distinct
    <3>3. CASE i <= d
      <4>1. BySource(t.rows, sources[i].id) = BySource(s.rows, sources[i].id) + 0
        BY <1>6, <3>2, <3>3
      <4>2. BySource(s.rows, sources[i].id) \in Int
        BY <1>6
      <4> QED BY <3>1, <3>3, <4>1, <4>2
    <3>4. CASE i > d
      <4>1. i - d \in 1 .. Len(s.sources) /\ ~(i <= d) /\ (i - d = 1 <=> i = d + 1)
        BY <3>4
      <4>2. t.sources[i - d].id = s.sources[i - d].id
            /\ t.sources[i - d].remaining = IF i - d = 1 THEN s.sources[i - d].remaining - a
                                            ELSE s.sources[i - d].remaining
        BY <1>2, <4>1 DEF Lowered
      <4>3. s.sources[i - d].remaining \in Nat /\ sources[i].remaining \in Nat
        <5>1. sources[i] \in Slot
          OBVIOUS
        <5> QED BY <1>1, <4>1, <5>1, LoopShape DEF Slot
      <4>4. CASE i = d + 1
        <5>1. BySource(t.rows, sources[i].id) = BySource(s.rows, sources[i].id) + a
          BY <1>6, <3>2, <4>4
        <5>2. t.sources[i - d].remaining = s.sources[i - d].remaining - a
          BY <4>1, <4>2, <4>4
        <5>3. PICK u \in Nat, v \in Nat, w \in Int :
                  /\ u = s.sources[i - d].remaining /\ v = sources[i].remaining
                  /\ w = BySource(s.rows, sources[i].id)
          BY <1>6, <4>3
        <5>4. w = v - u
          BY <3>1, <4>1, <5>3
        <5>5. BySource(t.rows, sources[i].id) = w + a
          BY <5>1, <5>3
        <5>6. w + a = v - (u - a)
          BY ONLY <5>4
        <5>7. BySource(t.rows, sources[i].id) = sources[i].remaining - t.sources[i - d].remaining
          BY <5>2, <5>3, <5>5, <5>6
        <5>8. t.sources[i - d].id = sources[i].id
          BY <3>1, <4>1, <4>2
        <5> QED BY <4>1, <5>7, <5>8
      <4>5. CASE i # d + 1
        <5>1. BySource(t.rows, sources[i].id) = BySource(s.rows, sources[i].id) + 0
          BY <1>6, <3>2, <4>5
        <5>2. BySource(s.rows, sources[i].id) \in Int
          BY <1>6
        <5>3. t.sources[i - d].remaining = s.sources[i - d].remaining
          BY <4>1, <4>2, <4>5
        <5> QED BY <3>1, <4>1, <4>2, <4>3, <5>1, <5>2, <5>3
      <4> QED BY <4>4, <4>5
    <3> QED BY <3>3, <3>4
  <2> QED BY <1>7, <2>1 DEF SourcesFit
<1>10. ClaimsFit(claims, t)
  <2>1. Len(t.claims) = c
    BY <1>2 DEF Lowered
  <2>2. ASSUME NEW j \in 1 .. c
        PROVE  /\ t.claims[j].id = claims[j].id
               /\ ByTarget(t.rows, claims[j].id) = claims[j].remaining - t.claims[j].remaining
               /\ j < k => t.claims[j].remaining = 0
    <3>1. /\ s.claims[j].id = claims[j].id
          /\ ByTarget(s.rows, claims[j].id) = claims[j].remaining - s.claims[j].remaining
          /\ j < k => s.claims[j].remaining = 0
      BY <1>1 DEF ClaimsFit
    <3>2. new.target = claims[j].id <=> j = k
      BY <1>4, <1>5 DEF Distinct
    <3>3. t.claims[j].id = s.claims[j].id
          /\ t.claims[j].remaining = IF j = k THEN s.claims[j].remaining - a ELSE s.claims[j].remaining
      BY <1>2 DEF Lowered
    <3>4. s.claims[j].remaining \in Nat /\ claims[j].remaining \in Nat
      <4>1. claims[j] \in Slot
        OBVIOUS
      <4> QED BY <1>1, <4>1, LoopShape DEF Slot
    <3>5. CASE j = k
      <4>1. ByTarget(t.rows, claims[j].id) = ByTarget(s.rows, claims[j].id) + a
        BY <1>6, <3>2, <3>5
      <4>2. PICK u \in Nat, v \in Nat, w \in Int :
                /\ u = s.claims[j].remaining /\ v = claims[j].remaining
                /\ w = ByTarget(s.rows, claims[j].id)
        BY <1>6, <3>4
      <4>3. w = v - u
        BY <3>1, <4>2
      <4>4. ByTarget(t.rows, claims[j].id) = w + a
        BY <4>1, <4>2
      <4>6. w + a = v - (u - a)
        BY ONLY <4>3
      <4>5. t.claims[j].remaining = u - a
        BY <3>3, <3>5, <4>2
      <4> QED BY <1>4, <3>1, <3>3, <3>5, <4>2, <4>4, <4>5, <4>6
    <3>6. CASE j # k
      <4>1. ByTarget(t.rows, claims[j].id) = ByTarget(s.rows, claims[j].id) + 0
        BY <1>6, <3>2, <3>6
      <4>2. ByTarget(s.rows, claims[j].id) \in Int
        BY <1>6
      <4> QED BY <3>1, <3>3, <3>4, <3>6, <4>1, <4>2
    <3> QED BY <3>5, <3>6
  <2> QED BY <1>2, <2>1, <2>2 DEF ClaimsFit
<1>11. Fresh(t)
  <2>1. t.sources[1].remaining = s.sources[1].remaining - a
        /\ t.claims[k].remaining = s.claims[k].remaining - a
    <3>1. 1 \in 1 .. Len(s.sources) /\ k \in 1 .. Len(s.claims)
      BY <1>4
    <3> QED BY <1>2, <3>1 DEF Lowered
  <2>2. t.sources[1].remaining = 0 \/ t.claims[k].remaining = 0
    <3>1. PICK u \in Nat, v \in Nat : u = s.sources[1].remaining /\ v = s.claims[k].remaining
      BY <1>2
    <3>2. t.sources[1].remaining = u - a /\ t.claims[k].remaining = v - a /\ (a = u \/ a = v)
      BY <1>2, <2>1, <3>1
    <3>3. a = u => u - a = 0
      OBVIOUS
    <3>4. a = v => v - a = 0
      OBVIOUS
    <3> QED BY <3>2, <3>3, <3>4
  <2> QED BY <1>2, <2>2 DEF Fresh
<1> QED BY <1>8, <1>9, <1>10, <1>11 DEF Draining

(***************************************************************************)
(* What Drain returns: each claim has been given what its rows say, no     *)
(* source gave more than it had, and either every source is used up or     *)
(* every claim is.                                                         *)
(***************************************************************************)
InTurn(claims, left) ==
    \A i, j \in 1 .. Len(claims) :
        i < j => left[i].remaining = 0 \/ left[j].remaining = claims[j].remaining

Drained(sources, claims, d) ==
    /\ d.claims \in Seq(Slot) /\ Len(d.claims) = Len(claims)
    /\ d.rows \subseteq Row /\ IsFiniteSet(d.rows)
    /\ \A r \in d.rows : /\ \E k \in 1 .. Len(sources) : r.source = sources[k].id
                         /\ \E j \in 1 .. Len(claims) : r.target = claims[j].id
    /\ \A j \in 1 .. Len(claims) :
           /\ d.claims[j].id = claims[j].id /\ d.claims[j].remaining \in Nat
           /\ ByTarget(d.rows, claims[j].id) = claims[j].remaining - d.claims[j].remaining
    /\ \A k \in 1 .. Len(sources) : BySource(d.rows, sources[k].id) <= sources[k].remaining
    /\ \/ \A k \in 1 .. Len(sources) : BySource(d.rows, sources[k].id) = sources[k].remaining
       \/ \A j \in 1 .. Len(claims) : d.claims[j].remaining = 0
    /\ InTurn(claims, d.claims)

\* What draining sources into claims yields.
LEMMA DrainFacts ==
    ASSUME NEW sources \in Seq(Slot), NEW claims \in Seq(Slot), Distinct(sources), Distinct(claims),
           NEW d, d = Drain(sources, claims)
    PROVE  Drained(sources, claims, d)
<1> DEFINE I == Draining(sources, claims)
           s0 == [sources |-> sources, claims |-> claims, claimIndex |-> 1, rows |-> {}]
<1>0. /\ \A i \in 1 .. Len(sources) : sources[i].id \in Nat /\ sources[i].remaining \in Nat
      /\ \A i \in 1 .. Len(claims) : claims[i].id \in Nat /\ claims[i].remaining \in Nat
  <2>1. \A q \in Seq(Slot) : \A i \in 1 .. Len(q) : q[i] \in Slot
    OBVIOUS
  <2> QED BY <2>1 DEF Slot
<1>1. s0 \in I
  <2>1. s0 \in Loops
    BY DEF Loops
  <2>2. \A x : BySource({}, x) = 0 /\ ByTarget({}, x) = 0
    <3>1. SumAmounts({}) = AmountSum({})
      BY Zenon DEF SumAmounts, AmountSum
    <3>2. AmountSum({}) = 0
      BY AmountFacts, FS_EmptySet
    <3>3. \A x : {r \in {} : r.source = x} = {} /\ {r \in {} : r.target = x} = {}
      OBVIOUS
    <3> QED BY <3>1, <3>2, <3>3 DEF BySource, ByTarget
  <2>3. RowsFit(sources, claims, s0)
    BY FS_EmptySet DEF RowsFit
  <2>4. Dropped(sources, s0) = 0
    BY DEF Dropped
  <2>5. SourcesFit(sources, s0)
    <3> SUFFICES ASSUME NEW k \in 1 .. Len(sources)
                 PROVE  /\ ~(k <= 0) /\ sources[k - 0].id = sources[k].id
                        /\ BySource({}, sources[k].id) = sources[k].remaining - sources[k - 0].remaining
      BY <2>4 DEF SourcesFit
    <3> QED BY <1>0, <2>2
  <2>6. ClaimsFit(claims, s0)
    BY <1>0, <2>2 DEF ClaimsFit
  <2>7. Fresh(s0)
    BY DEF Fresh
  <2> HIDE DEF s0
  <2> QED BY <2>1, <2>3, <2>5, <2>6, <2>7 DEF Draining
<1>2. I \subseteq Loops
  BY DEF Draining
<1>3. ASSUME NEW s \in I, ~Spent(s) PROVE AllocationRound(s) \in I
  <2>1. s \in Loops
    BY <1>2
  <2> PICK t : t = AllocationRound(s)
    OBVIOUS
  <2>2. t \in Loops /\ (Drops(s, t) \/ Passes(s, t) \/ \E a \in Nat : Applies(s, t, a))
    BY <1>3, <2>1, RoundEffect
  <2>3. t \in I
    BY <1>3, <2>2, DropKeeps, PassKeeps, ApplyKeeps
  <2> QED BY <2>3
<1>4. d \in I /\ Spent(d)
  <2>1. d = Run[s0]
    BY DEF Drain
  <2> HIDE DEF I, s0
  <2> QED BY <1>1, <1>2, <1>3, <2>1, RunKeeps
<1>5. d \in Loops /\ RowsFit(sources, claims, d) /\ SourcesFit(sources, d) /\ ClaimsFit(claims, d)
  BY <1>4 DEF Draining
<1>6. /\ d.claims \in Seq(Slot) /\ d.rows \subseteq Row /\ d.claimIndex \in Nat
      /\ d.sources \in Seq(Slot) /\ Len(d.sources) \in Nat
      /\ \A i \in 1 .. Len(d.sources) : d.sources[i].remaining \in Nat
      /\ \A i \in 1 .. Len(d.claims) : d.claims[i].remaining \in Nat
  BY <1>5, LoopShape
<1>7. ASSUME NEW k \in 1 .. Len(sources)
      PROVE  /\ BySource(d.rows, sources[k].id) <= sources[k].remaining
             /\ d.sources = <<>> => BySource(d.rows, sources[k].id) = sources[k].remaining
  <2> PICK n \in Nat, e \in Nat : n = Len(sources) /\ e = Dropped(sources, d) /\ Len(d.sources) = n - e
    <3>1. PICK l \in Nat, m \in Nat : l = Len(d.sources) /\ m = Len(sources) /\ l <= m
      BY <1>5, <1>6 DEF SourcesFit
    <3>2. l <= m
      BY <3>1
    <3>3. PICK x \in Nat : x = m - l
      BY ONLY <3>2
    <3>4. l = m - x
      BY ONLY <3>3
    <3>5. Dropped(sources, d) = x
      BY <3>1, <3>3 DEF Dropped
    <3> QED BY <3>1, <3>4, <3>5
  <2>1. CASE k <= e
    BY <1>0, <1>5, <2>1 DEF SourcesFit
  <2>2. CASE ~(k <= e)
    <3>1. k - e \in 1 .. Len(d.sources) /\ d.sources # <<>>
      BY <2>2
    <3>2. BySource(d.rows, sources[k].id) = sources[k].remaining - d.sources[k - e].remaining
      BY <1>5, <2>2 DEF SourcesFit
    <3>3. PICK u \in Nat, v \in Nat : u = d.sources[k - e].remaining /\ v = sources[k].remaining
      BY <1>0, <1>6, <3>1
    <3>4. BySource(d.rows, sources[k].id) = v - u
      BY <3>2, <3>3
    <3>5. v - u <= v
      OBVIOUS
    <3> QED BY <3>1, <3>3, <3>4, <3>5
  <2> QED BY <2>1, <2>2
<1>8. Len(d.claims) = Len(claims) /\ IsFiniteSet(d.rows)
  BY <1>5 DEF ClaimsFit, RowsFit
<1>9. \/ \A k \in 1 .. Len(sources) : BySource(d.rows, sources[k].id) = sources[k].remaining
      \/ \A j \in 1 .. Len(claims) : d.claims[j].remaining = 0
  <2>1. CASE d.sources = <<>>
    BY <1>7, <2>1
  <2>2. CASE d.claimIndex > Len(d.claims)
    <3>1. \A j \in 1 .. Len(claims) : j < d.claimIndex
      BY <1>6, <1>8, <2>2
    <3> QED BY <1>5, <3>1 DEF ClaimsFit
  <2> QED BY <1>4, <2>1, <2>2 DEF Spent
<1>10. \A r \in d.rows : /\ \E k \in 1 .. Len(sources) : r.source = sources[k].id
                         /\ \E j \in 1 .. Len(claims) : r.target = claims[j].id
  BY <1>5 DEF RowsFit
<1>11. \A j \in 1 .. Len(claims) :
           /\ d.claims[j].id = claims[j].id /\ d.claims[j].remaining \in Nat
           /\ ByTarget(d.rows, claims[j].id) = claims[j].remaining - d.claims[j].remaining
  BY <1>5, <1>6, <1>8 DEF ClaimsFit
<1>12. ASSUME NEW i \in 1 .. Len(claims), NEW j \in 1 .. Len(claims), i < j
       PROVE  d.claims[i].remaining = 0 \/ d.claims[j].remaining = claims[j].remaining
  <2>1. CASE i < d.claimIndex
    BY <1>5, <2>1 DEF ClaimsFit
  <2>2. CASE ~(i < d.claimIndex)
    <3>1. ~(j <= d.claimIndex)
      BY <1>6, <1>12, <2>2
    <3>2. {r \in d.rows : r.target = claims[j].id} = {}
      <4> SUFFICES ASSUME NEW r \in d.rows, r.target = claims[j].id PROVE FALSE
        OBVIOUS
      <4>1. PICK k \in 1 .. Len(claims) : k <= d.claimIndex /\ r.target = claims[k].id
        BY <1>5 DEF RowsFit
      <4>2. k = j
        BY <4>1 DEF Distinct
      <4> QED BY <3>1, <4>1, <4>2
    <3>3. SumAmounts({}) = 0
      <4>1. SumAmounts({}) = AmountSum({})
        BY Zenon DEF SumAmounts, AmountSum
      <4> QED BY <4>1, AmountFacts, FS_EmptySet
    <3>4. ByTarget(d.rows, claims[j].id) = 0
      BY <3>2, <3>3 DEF ByTarget
    <3>5. PICK a \in Nat, b \in Nat : a = claims[j].remaining /\ b = d.claims[j].remaining
      BY <1>0, <1>11
    <3>6. a - b = 0
      BY <1>11, <3>4, <3>5
    <3>7. a = b
      BY ONLY <3>6
    <3> QED BY <3>5, <3>7
  <2> QED BY <2>1, <2>2
<1>13. InTurn(claims, d.claims)
  BY <1>12 DEF InTurn
<1> QED BY <1>6, <1>7, <1>8, <1>9, <1>10, <1>11, <1>13 DEF Drained

-----------------------------------------------------------------------------
(***************************************************************************)
(* The sum of no amounts is zero, sums of integers are integers, and sums  *)
(* over the rows of an allocation table are not negative.                  *)
(***************************************************************************)
LEMMA SumsAgree == \A S : SumAmounts(S) = AmountSum(S)
BY Zenon DEF SumAmounts, AmountSum

\* No amounts add up to nothing.
LEMMA NoAmounts == SumAmounts({}) = 0
<1>1. AmountSum({}) = 0
  BY AmountFacts, FS_EmptySet
<1> QED BY <1>1, SumsAgree

\* Integers add up to integers.
LEMMA AmountsType ==
    ASSUME NEW S, IsFiniteSet(S), \A l \in S : l.amount \in Int
    PROVE  \A T \in SUBSET S : IsFiniteSet(T) /\ SumAmounts(T) \in Int
BY SumsAgree, AmountFacts

\* What rows give and receive is never negative.
LEMMA RowSums ==
    ASSUME NEW rows, rows \subseteq Row, IsFiniteSet(rows), NEW x
    PROVE  BySource(rows, x) \in Nat /\ ByTarget(rows, x) \in Nat
<1>1. ASSUME NEW T \in SUBSET rows PROVE SumAmounts(T) \in Nat
  <2> PICK w : w = [l \in T |-> l.amount]
    OBVIOUS
  <2>1. IsFiniteSet(T) /\ \A l \in T : w[l] = l.amount /\ w[l] \in Nat
    BY FS_Subset DEF Row
  <2>2. AmountSum(T) = Total(w, T)
    BY <2>1, AmountsTotal
  <2>3. Total(w, T) \in Nat
    BY <2>1, SumNat
  <2> QED BY <2>2, <2>3, SumsAgree
<1> QED BY <1>1 DEF BySource, ByTarget

\* A function maps a finite set to a finite set.
LEMMA FiniteImage ==
    ASSUME NEW S, IsFiniteSet(S), NEW f
    PROVE  IsFiniteSet({f[x] : x \in S})
<1> DEFINE g == [x \in S |-> f[x]]
           T == {f[x] : x \in S}
<1>1. g \in Surjection(S, T)
  BY DEF Surjection
<1> QED BY <1>1, FS_Surjection

(***************************************************************************)
(* The claims and the corrections of a membership, and the queue of its    *)
(* payments, as the loop reads them.                                       *)
(***************************************************************************)
EntriesFit(entries) ==
    IsFiniteSet(entries) /\ \A e \in entries : e.period \in Nat /\ e.amount \in Int

PaysFit(pays) ==
    /\ IsFiniteSet(pays)
    /\ \A p \in pays : p.id \in Nat /\ p.received \in Nat /\ p.amount \in Nat
    /\ \A p, q \in pays : p.id = q.id => p = q

ClaimQueue(entries, sign, q) ==
    /\ q \in Seq(Slot) /\ Distinct(q)
    /\ \A i \in 1 .. Len(q) :
           /\ q[i].id \in PeriodsOfSign(entries, sign)
           /\ q[i].remaining = sign * PeriodClaim(entries, q[i].id)
    /\ \A i, j \in 1 .. Len(q) : i < j => q[i].id < q[j].id
    /\ \A p \in PeriodsOfSign(entries, sign) : \E i \in 1 .. Len(q) : q[i].id = p

PayQueue(pays, q) ==
    /\ q \in Seq(Slot) /\ Distinct(q)
    /\ \A i \in 1 .. Len(q) : \E p \in pays : q[i].id = p.id /\ q[i].remaining = p.amount
    /\ \A p \in pays : \E i \in 1 .. Len(q) : q[i].id = p.id /\ q[i].remaining = p.amount

\* SignedClaims lists the periods of one sign, each with what it claims or gives.
LEMMA ClaimsAre ==
    ASSUME NEW entries, EntriesFit(entries), NEW sign \in Int, NEW q, q = SignedClaims(entries, sign)
    PROVE  ClaimQueue(entries, sign, q)
<1> DEFINE S == PeriodsOfSign(entries, sign)
           D == {e.period : e \in entries}
<1>1. \A p : PeriodClaim(entries, p) \in Int
  BY AmountsType DEF PeriodClaim, EntriesFit
<1>2. IsFiniteSet(S) /\ S \subseteq Nat
  <2> DEFINE f == [e \in entries |-> e.period]
  <2>1. D = {f[e] : e \in entries}
    OBVIOUS
  <2>2. IsFiniteSet({f[e] : e \in entries})
    <3> HIDE DEF f
    <3> QED BY FiniteImage DEF EntriesFit
  <2>3. S \subseteq D /\ D \subseteq Nat
    BY DEF PeriodsOfSign, EntriesFit
  <2> QED BY <2>1, <2>2, <2>3, FS_Subset
<1> PICK o : o = Ordered(S, Earlier)
  OBVIOUS
<1>3. Lists(o, S) /\ Ascends(o)
  BY <1>2, PeriodsListed
<1>4. q = [i \in DOMAIN o |-> [id |-> o[i], remaining |-> sign * PeriodClaim(entries, o[i])]]
  BY DEF SignedClaims
<1> PICK n \in Nat : n = Len(o) /\ DOMAIN o = 1 .. n
  <2>1. o \in Seq(S) /\ DOMAIN o = 1 .. Len(o)
    BY <1>3 DEF Lists
  <2>2. Len(o) \in Nat
    <3> HIDE DEF S
    <3> QED BY ONLY <2>1
  <2> HIDE DEF S
  <2> QED BY ONLY <2>1, <2>2
<1>5. ASSUME NEW i \in 1 .. n
      PROVE  /\ q[i] \in Slot /\ q[i].id = o[i] /\ o[i] \in S
             /\ q[i].remaining = sign * PeriodClaim(entries, q[i].id)
  <2>1. o[i] \in S
    BY <1>3 DEF Lists
  <2>2. sign * PeriodClaim(entries, o[i]) > 0 /\ sign * PeriodClaim(entries, o[i]) \in Int
    BY <1>1, <2>1 DEF PeriodsOfSign
  <2>3. q[i] = [id |-> o[i], remaining |-> sign * PeriodClaim(entries, o[i])]
    BY <1>4
  <2>4. sign * PeriodClaim(entries, o[i]) \in Nat
    BY <2>2
  <2> QED BY <1>2, <2>1, <2>3, <2>4 DEF Slot
<1>6. q \in Seq(Slot) /\ Len(q) = n
  <2>1. DOMAIN q = 1 .. n /\ q = [i \in 1 .. n |-> q[i]]
    BY <1>4
  <2> QED BY <1>5, <2>1
<1>7. Distinct(q)
  BY <1>3, <1>5, <1>6 DEF Distinct, Lists
<1>8. \A p \in S : \E i \in 1 .. n : q[i].id = p
  BY <1>3, <1>5 DEF Lists
<1>9. \A i, j \in 1 .. n : i < j => q[i].id < q[j].id
  <2>1. Len(o) = n
    OBVIOUS
  <2> HIDE DEF S
  <2> QED BY <1>3, <1>5, <2>1 DEF Ascends
<1> HIDE DEF S
<1> QED BY <1>5, <1>6, <1>7, <1>8, <1>9 DEF S, ClaimQueue

\* PaymentQueue lists the payments, each with its amount.
LEMMA QueueIs ==
    ASSUME NEW pays, PaysFit(pays), NEW q, q = PaymentQueue(pays)
    PROVE  PayQueue(pays, q)
<1> PICK o : o = Ordered(pays, PaymentBefore)
  OBVIOUS
<1>1. Lists(o, pays)
  BY PaymentsListed DEF PaysFit
<1>2. q = [i \in DOMAIN o |-> [id |-> o[i].id, remaining |-> o[i].amount]]
  BY DEF PaymentQueue
<1> PICK n \in Nat : n = Len(o) /\ DOMAIN o = 1 .. n
  <2>1. o \in Seq(pays) /\ DOMAIN o = 1 .. Len(o)
    BY <1>1 DEF Lists
  <2>2. Len(o) \in Nat
    BY ONLY <2>1
  <2> QED BY ONLY <2>1, <2>2
<1>3. ASSUME NEW i \in 1 .. n
      PROVE  q[i] \in Slot /\ q[i].id = o[i].id /\ q[i].remaining = o[i].amount /\ o[i] \in pays
  <2>1. o[i] \in pays
    BY <1>1 DEF Lists
  <2>2. q[i] = [id |-> o[i].id, remaining |-> o[i].amount]
    BY <1>2
  <2>3. o[i].id \in Nat /\ o[i].amount \in Nat
    BY <2>1 DEF PaysFit
  <2> QED BY <2>1, <2>2, <2>3 DEF Slot
<1>4. q \in Seq(Slot) /\ Len(q) = n
  <2>1. DOMAIN q = 1 .. n /\ q = [i \in 1 .. n |-> q[i]]
    BY <1>2
  <2> QED BY <1>3, <2>1
<1>5. Distinct(q)
  BY <1>1, <1>3, <1>4 DEF Distinct, Lists, PaysFit
<1>6. \A p \in pays : \E i \in 1 .. n : q[i].id = p.id /\ q[i].remaining = p.amount
  BY <1>1, <1>3 DEF Lists
<1> QED BY <1>3, <1>4, <1>5, <1>6 DEF PayQueue

\* What a rebuild leaves due in a period.
DueIn(entries, rebuilt, p) ==
    PeriodClaim(entries, p) + BySource(rebuilt.corrections, p)
        - ByTarget(rebuilt.payments, p) - ByTarget(rebuilt.corrections, p)

\* Only periods that owe receive; only those with a credit give, and no more than that.
OneWay(entries, rebuilt) ==
    \A p \in Nat :
        /\ PeriodClaim(entries, p) <= 0 =>
               ByTarget(rebuilt.payments, p) = 0 /\ ByTarget(rebuilt.corrections, p) = 0
        /\ PeriodClaim(entries, p) >= 0 => BySource(rebuilt.corrections, p) = 0
        /\ PeriodClaim(entries, p) < 0 => DueIn(entries, rebuilt, p) <= 0

\* No period receives anything while an older one is still due.
OldestFirst(entries, rebuilt) ==
    \A p, q \in Nat :
        p < q /\ PeriodClaim(entries, p) > 0 /\ PeriodClaim(entries, q) > 0 =>
            DueIn(entries, rebuilt, p) = 0 \/ DueIn(entries, rebuilt, q) = PeriodClaim(entries, q)

(***************************************************************************)
(* What RebuildPaymentAllocations guarantees for any claims and payments:  *)
(* money moves only from periods with a credit and from payments that      *)
(* exist, and only to periods that owe, the oldest first; no payment is    *)
(* spent beyond its amount; as long as a payment is not spent, no period   *)
(* is due; and no period is due beside one that still has a credit.        *)
(***************************************************************************)
THEOREM RebuildGuarantees ==
    ASSUME NEW entries, EntriesFit(entries), NEW pays, PaysFit(pays),
           NEW R, R = RebuildPaymentAllocations(entries, pays)
    PROVE  /\ R.corrections \subseteq Row /\ IsFiniteSet(R.corrections)
           /\ R.payments \subseteq Row /\ IsFiniteSet(R.payments)
           /\ \A r \in R.corrections : /\ \E e \in entries : e.period = r.source
                                       /\ \E e \in entries : e.period = r.target
           /\ \A r \in R.payments : /\ \E p \in pays : p.id = r.source
                                    /\ \E e \in entries : e.period = r.target
           /\ \A p \in pays : BySource(R.payments, p.id) <= p.amount
           /\ \/ \A p \in pays : BySource(R.payments, p.id) = p.amount
              \/ \A p \in Nat : DueIn(entries, R, p) <= 0
           /\ \/ \A p \in Nat : DueIn(entries, R, p) >= 0
              \/ \A p \in Nat : DueIn(entries, R, p) <= 0
           /\ OneWay(entries, R) /\ OldestFirst(entries, R)
<1> PICK claims, adjustments, queue :
        /\ claims = SignedClaims(entries, 1) /\ adjustments = SignedClaims(entries, -1)
        /\ queue = PaymentQueue(pays)
  OBVIOUS
<1> PICK corrected : corrected = Drain(adjustments, claims)
  OBVIOUS
<1> PICK paid : paid = Drain(queue, corrected.claims)
  OBVIOUS
<1>1. R.corrections = corrected.rows /\ R.payments = paid.rows
  BY DEF RebuildPaymentAllocations, Claims, Adjustments
<1>2. ClaimQueue(entries, 1, claims) /\ ClaimQueue(entries, -1, adjustments) /\ PayQueue(pays, queue)
  <2>1. ClaimQueue(entries, 1, claims)
    BY ClaimsAre
  <2>2. ClaimQueue(entries, -1, adjustments)
    <3>1. PICK sign \in Int : sign = -1
      OBVIOUS
    <3>2. ClaimQueue(entries, sign, adjustments)
      BY <3>1, ClaimsAre
    <3> QED BY <3>1, <3>2
  <2>3. PayQueue(pays, queue)
    BY QueueIs
  <2> QED BY <2>1, <2>2, <2>3
<1> DEFINE n == Len(claims)
<1>3. /\ \A i \in 1 .. n : /\ claims[i].id \in PeriodsOfSign(entries, 1)
                           /\ claims[i].remaining = 1 * PeriodClaim(entries, claims[i].id)
      /\ \A p \in PeriodsOfSign(entries, 1) : \E i \in 1 .. n : claims[i].id = p
      /\ \A i \in 1 .. Len(adjustments) :
             /\ adjustments[i].id \in PeriodsOfSign(entries, -1)
             /\ adjustments[i].remaining = (-1) * PeriodClaim(entries, adjustments[i].id)
      /\ \A p \in PeriodsOfSign(entries, -1) : \E i \in 1 .. Len(adjustments) : adjustments[i].id = p
  BY <1>2 DEF ClaimQueue
<1>4. /\ \A i \in 1 .. Len(queue) : \E p \in pays : queue[i].id = p.id /\ queue[i].remaining = p.amount
      /\ \A p \in pays : \E i \in 1 .. Len(queue) : queue[i].id = p.id /\ queue[i].remaining = p.amount
  BY <1>2 DEF PayQueue
<1>5. Drained(adjustments, claims, corrected)
  <2>1. /\ claims \in Seq(Slot) /\ Distinct(claims)
        /\ adjustments \in Seq(Slot) /\ Distinct(adjustments)
    BY <1>2 DEF ClaimQueue
  <2> QED BY <2>1, DrainFacts
<1>a. /\ Len(corrected.claims) = n
      /\ corrected.rows \subseteq Row /\ IsFiniteSet(corrected.rows)
      /\ \A r \in corrected.rows : /\ \E k \in 1 .. Len(adjustments) : r.source = adjustments[k].id
                                   /\ \E j \in 1 .. n : r.target = claims[j].id
      /\ \A j \in 1 .. n :
             /\ corrected.claims[j].id = claims[j].id /\ corrected.claims[j].remaining \in Nat
             /\ ByTarget(corrected.rows, claims[j].id) = claims[j].remaining - corrected.claims[j].remaining
      /\ \A k \in 1 .. Len(adjustments) : BySource(corrected.rows, adjustments[k].id) <= adjustments[k].remaining
      /\ \/ \A k \in 1 .. Len(adjustments) : BySource(corrected.rows, adjustments[k].id) = adjustments[k].remaining
         \/ \A j \in 1 .. n : corrected.claims[j].remaining = 0
  BY <1>5 DEF Drained
<1>6. Drained(queue, corrected.claims, paid)
  <2>1. corrected.claims \in Seq(Slot) /\ queue \in Seq(Slot) /\ Distinct(queue)
    BY <1>2, <1>5 DEF Drained, PayQueue
  <2>2. Distinct(corrected.claims)
    <3>1. Distinct(claims)
      BY <1>2 DEF ClaimQueue
    <3> QED BY <1>a, <3>1 DEF Distinct
  <2> QED BY <2>1, <2>2, DrainFacts
<1>7. /\ paid.rows \subseteq Row /\ IsFiniteSet(paid.rows)
      /\ \A r \in paid.rows : /\ \E k \in 1 .. Len(queue) : r.source = queue[k].id
                              /\ \E j \in 1 .. n : r.target = corrected.claims[j].id
      /\ \A j \in 1 .. n :
             /\ paid.claims[j].remaining \in Nat
             /\ ByTarget(paid.rows, corrected.claims[j].id)
                    = corrected.claims[j].remaining - paid.claims[j].remaining
      /\ \A k \in 1 .. Len(queue) : BySource(paid.rows, queue[k].id) <= queue[k].remaining
      /\ \/ \A k \in 1 .. Len(queue) : BySource(paid.rows, queue[k].id) = queue[k].remaining
         \/ \A j \in 1 .. n : paid.claims[j].remaining = 0
  <2>1. Len(corrected.claims) = n
    BY <1>a
  <2> HIDE DEF n
  <2> QED BY ONLY <1>6, <2>1 DEF Drained
<1>9. ASSUME NEW p \in Nat
      PROVE  /\ PeriodClaim(entries, p) \in Int
             /\ PeriodClaim(entries, p) > 0 => \E j \in 1 .. n : claims[j].id = p
             /\ PeriodClaim(entries, p) < 0 => \E k \in 1 .. Len(adjustments) : adjustments[k].id = p
             /\ BySource(corrected.rows, p) \in Nat /\ ByTarget(corrected.rows, p) \in Nat
             /\ ByTarget(paid.rows, p) \in Nat
             /\ ~(PeriodClaim(entries, p) < 0) => BySource(corrected.rows, p) = 0
             /\ ~(PeriodClaim(entries, p) > 0) => ByTarget(corrected.rows, p) = 0 /\ ByTarget(paid.rows, p) = 0
             /\ PeriodClaim(entries, p) > 0 => ~(PeriodClaim(entries, p) < 0)
             /\ PeriodClaim(entries, p) = 0 => ~(PeriodClaim(entries, p) < 0) /\ ~(PeriodClaim(entries, p) > 0)
  <2>1. PeriodClaim(entries, p) \in Int
    BY AmountsType DEF PeriodClaim, EntriesFit
  <2>2. PeriodClaim(entries, p) # 0 => p \in {e.period : e \in entries}
    <3> SUFFICES ASSUME p \notin {e.period : e \in entries} PROVE PeriodClaim(entries, p) = 0
      OBVIOUS
    <3>1. {e \in entries : e.period = p} = {}
      OBVIOUS
    <3> QED BY <3>1, NoAmounts DEF PeriodClaim
  <2> PICK c \in Int : c = PeriodClaim(entries, p)
    BY <2>1
  <2>3. p \in PeriodsOfSign(entries, 1) <=> c > 0
    <3>1. 1 * c = c
      OBVIOUS
    <3> QED BY <2>2, <3>1 DEF PeriodsOfSign
  <2>4. p \in PeriodsOfSign(entries, -1) <=> c < 0
    <3>1. (-1) * c > 0 <=> c < 0
      OBVIOUS
    <3> QED BY <2>2, <3>1 DEF PeriodsOfSign
  <2>5. BySource(corrected.rows, p) \in Nat /\ ByTarget(corrected.rows, p) \in Nat
        /\ ByTarget(paid.rows, p) \in Nat
    BY <1>a, <1>7, RowSums
  <2>6. ASSUME ~(c < 0) PROVE BySource(corrected.rows, p) = 0
    <3>1. ~(c < 0)
      BY <2>6
    <3>2. {r \in corrected.rows : r.source = p} = {}
      <4> SUFFICES ASSUME NEW r \in corrected.rows, r.source = p PROVE FALSE
        OBVIOUS
      <4>1. PICK k \in 1 .. Len(adjustments) : adjustments[k].id = p
        BY <1>a
      <4> QED BY <1>3, <2>4, <3>1, <4>1
    <3> QED BY <3>2, NoAmounts DEF BySource
  <2>7. ASSUME ~(c > 0) PROVE ByTarget(corrected.rows, p) = 0 /\ ByTarget(paid.rows, p) = 0
    <3>1. ~(c > 0)
      BY <2>7
    <3>a. \A j \in 1 .. n : claims[j].id # p /\ corrected.claims[j].id # p
      BY <1>3, <1>a, <2>3, <3>1
    <3>2. {r \in corrected.rows : r.target = p} = {}
      BY <1>a, <3>a
    <3>3. {r \in paid.rows : r.target = p} = {}
      BY <1>7, <3>a
    <3> QED BY <3>2, <3>3, NoAmounts DEF ByTarget
  <2>8. (c > 0 => ~(c < 0)) /\ (c < 0 => ~(c > 0)) /\ (c = 0 => ~(c < 0) /\ ~(c > 0))
    OBVIOUS
  <2> QED BY <1>3, <2>1, <2>3, <2>4, <2>5, <2>6, <2>7, <2>8
<1>10. ASSUME NEW p \in Nat, PeriodClaim(entries, p) > 0
       PROVE  \E j \in 1 .. n : /\ claims[j].id = p
                                /\ DueIn(entries, R, p) = paid.claims[j].remaining
                                /\ claims[j].remaining = PeriodClaim(entries, p)
                                /\ corrected.claims[j].remaining >= paid.claims[j].remaining
  <2>1. PICK j \in 1 .. n : claims[j].id = p
    BY <1>9, <1>10
  <2>2. PICK c \in Int, a \in Nat, b \in Nat, x \in Nat, y \in Nat :
            /\ c = PeriodClaim(entries, p) /\ a = ByTarget(corrected.rows, p) /\ b = ByTarget(paid.rows, p)
            /\ x = corrected.claims[j].remaining /\ y = paid.claims[j].remaining
    BY <1>a, <1>7, <1>9
  <2>3. a = 1 * c - x /\ b = x - y
    <3>1. claims[j].remaining = 1 * c /\ corrected.claims[j].id = p
      BY <1>3, <1>a, <2>1, <2>2
    <3>2. ByTarget(corrected.rows, p) = claims[j].remaining - corrected.claims[j].remaining
      BY <1>a, <2>1
    <3>3. ByTarget(paid.rows, p) = corrected.claims[j].remaining - paid.claims[j].remaining
      BY <1>7, <3>1
    <3> QED BY <2>2, <3>1, <3>2, <3>3
  <2>4. BySource(corrected.rows, p) = 0
    BY <1>9, <1>10
  <2>5. DueIn(entries, R, p) = c + 0 - b - a
    BY <1>1, <2>2, <2>4 DEF DueIn
  <2>6. c + 0 - b - a = y /\ x >= y
    BY ONLY <2>3
  <2>7. claims[j].remaining = c
    <3>1. 1 * c = c
      OBVIOUS
    <3> QED BY <1>3, <2>1, <2>2, <3>1
  <2> QED BY <2>1, <2>2, <2>5, <2>6, <2>7
<1>11. ASSUME NEW p \in Nat, PeriodClaim(entries, p) < 0
       PROVE  \E k \in 1 .. Len(adjustments) :
                  /\ adjustments[k].id = p
                  /\ DueIn(entries, R, p) = BySource(corrected.rows, adjustments[k].id) - adjustments[k].remaining
                  /\ DueIn(entries, R, p) <= 0
  <2>1. PICK k \in 1 .. Len(adjustments) : adjustments[k].id = p
    BY <1>9, <1>11
  <2>a. PeriodClaim(entries, p) \in Int /\ BySource(corrected.rows, p) \in Nat
    BY <1>9
  <2>2. PICK c \in Int, b \in Nat : c = PeriodClaim(entries, p) /\ b = BySource(corrected.rows, p)
    BY <2>a
  <2>3. ByTarget(corrected.rows, p) = 0 /\ ByTarget(paid.rows, p) = 0
    <3>1. ~(c > 0)
      BY <1>11, <2>2
    <3> QED BY <1>9, <2>2, <3>1
  <2>4. adjustments[k].remaining = (-1) * c /\ b <= (-1) * c
    BY <1>3, <1>a, <2>1, <2>2
  <2>5. DueIn(entries, R, p) = c + b - 0 - 0
    BY <1>1, <2>2, <2>3 DEF DueIn
  <2>6. c + b - 0 - 0 = b - ((-1) * c) /\ c + b - 0 - 0 <= 0
    BY ONLY <2>4
  <2> QED BY <2>1, <2>2, <2>4, <2>5, <2>6
<1>12. ASSUME NEW p \in Nat, PeriodClaim(entries, p) = 0 PROVE DueIn(entries, R, p) = 0
  <2>1. /\ BySource(corrected.rows, p) = 0 /\ ByTarget(corrected.rows, p) = 0
        /\ ByTarget(paid.rows, p) = 0
    BY <1>9, <1>12
  <2> QED BY <1>1, <1>12, <2>1 DEF DueIn
<1>13. ASSUME \A j \in 1 .. n : paid.claims[j].remaining = 0
       PROVE  \A p \in Nat : DueIn(entries, R, p) <= 0
  <2> SUFFICES ASSUME NEW p \in Nat PROVE DueIn(entries, R, p) <= 0
    OBVIOUS
  <2>1. CASE PeriodClaim(entries, p) > 0
    <3>1. DueIn(entries, R, p) = 0
      BY <1>10, <1>13, <2>1
    <3> QED BY <3>1
  <2>2. CASE PeriodClaim(entries, p) < 0
    BY <1>11, <2>2
  <2>3. CASE PeriodClaim(entries, p) = 0
    <3>1. DueIn(entries, R, p) = 0
      BY <1>12, <2>3
    <3> QED BY <3>1
  <2> QED BY <1>9, <2>1, <2>2, <2>3
<1>14. \/ \A p \in pays : BySource(R.payments, p.id) = p.amount
       \/ \A p \in Nat : DueIn(entries, R, p) <= 0
  <2>1. CASE \A k \in 1 .. Len(queue) : BySource(paid.rows, queue[k].id) = queue[k].remaining
    BY <1>1, <1>4, <2>1
  <2>2. CASE \A j \in 1 .. n : paid.claims[j].remaining = 0
    BY <1>13, <2>2
  <2> QED BY <1>7, <2>1, <2>2
<1>15. \/ \A p \in Nat : DueIn(entries, R, p) >= 0
       \/ \A p \in Nat : DueIn(entries, R, p) <= 0
  <2>1. CASE \A k \in 1 .. Len(adjustments) : BySource(corrected.rows, adjustments[k].id) = adjustments[k].remaining
    <3> SUFFICES ASSUME NEW p \in Nat PROVE DueIn(entries, R, p) >= 0
      OBVIOUS
    <3>1. CASE PeriodClaim(entries, p) > 0
      <4>1. PICK j \in 1 .. n : DueIn(entries, R, p) = paid.claims[j].remaining
        BY <1>10, <3>1
      <4> QED BY <1>7, <4>1
    <3>2. CASE PeriodClaim(entries, p) < 0
      <4>1. PICK k \in 1 .. Len(adjustments) :
                /\ adjustments[k].id = p
                /\ DueIn(entries, R, p) = BySource(corrected.rows, adjustments[k].id) - adjustments[k].remaining
        BY <1>11, <3>2
      <4>2. BySource(corrected.rows, p) \in Nat
        BY <1>9
      <4> QED BY <2>1, <4>1, <4>2
    <3>3. CASE PeriodClaim(entries, p) = 0
      <4>1. DueIn(entries, R, p) = 0
        BY <1>12, <3>3
      <4> QED BY <4>1
    <3> QED BY <1>9, <3>1, <3>2, <3>3
  <2>2. CASE \A j \in 1 .. n : corrected.claims[j].remaining = 0
    <3>1. ASSUME NEW j \in 1 .. n PROVE paid.claims[j].remaining = 0
      <4>1. ByTarget(paid.rows, corrected.claims[j].id) \in Nat
        BY <1>7, RowSums
      <4>2. ByTarget(paid.rows, corrected.claims[j].id) = 0 - paid.claims[j].remaining
            /\ paid.claims[j].remaining \in Nat
        BY <1>7, <2>2
      <4> QED BY <4>1, <4>2
    <3> QED BY <1>13, <3>1
  <2> QED BY <1>a, <2>1, <2>2
<1>b. /\ \A j \in 1 .. n : \E e \in entries : e.period = claims[j].id
      /\ \A k \in 1 .. Len(adjustments) : \E e \in entries : e.period = adjustments[k].id
  BY <1>3 DEF PeriodsOfSign
<1>16. ASSUME NEW r \in R.corrections
       PROVE  /\ \E e \in entries : e.period = r.source
              /\ \E e \in entries : e.period = r.target
  <2>1. PICK k \in 1 .. Len(adjustments) : r.source = adjustments[k].id
    BY <1>1, <1>a
  <2>2. PICK j \in 1 .. n : r.target = claims[j].id
    BY <1>1, <1>a
  <2> QED BY <1>b, <2>1, <2>2
<1>17. ASSUME NEW r \in R.payments
       PROVE  /\ \E p \in pays : p.id = r.source
              /\ \E e \in entries : e.period = r.target
  <2>1. PICK k \in 1 .. Len(queue) : r.source = queue[k].id
    BY <1>1, <1>7
  <2>2. PICK j \in 1 .. n : r.target = corrected.claims[j].id
    BY <1>1, <1>7
  <2>3. corrected.claims[j].id = claims[j].id
    BY <1>a
  <2> QED BY <1>4, <1>b, <2>1, <2>2, <2>3
<1>18. \A p \in pays : BySource(R.payments, p.id) <= p.amount
  BY <1>1, <1>4, <1>7
<1>19. OneWay(entries, R)
  <2>1. ASSUME NEW p \in Nat
        PROVE  /\ PeriodClaim(entries, p) <= 0 => ~(PeriodClaim(entries, p) > 0)
               /\ PeriodClaim(entries, p) >= 0 => ~(PeriodClaim(entries, p) < 0)
    BY <1>9
  <2>2. \A p \in Nat : PeriodClaim(entries, p) < 0 => DueIn(entries, R, p) <= 0
    BY <1>11
  <2> QED BY <1>1, <1>9, <2>1, <2>2 DEF OneWay
<1>20. OldestFirst(entries, R)
  <2> SUFFICES ASSUME NEW p \in Nat, NEW q \in Nat, p < q,
                      PeriodClaim(entries, p) > 0, PeriodClaim(entries, q) > 0
               PROVE  DueIn(entries, R, p) = 0 \/ DueIn(entries, R, q) = PeriodClaim(entries, q)
    BY DEF OldestFirst
  <2>1. PICK i \in 1 .. n : /\ claims[i].id = p /\ DueIn(entries, R, p) = paid.claims[i].remaining
                            /\ corrected.claims[i].remaining >= paid.claims[i].remaining
    BY <1>10
  <2>2. PICK j \in 1 .. n : /\ claims[j].id = q /\ DueIn(entries, R, q) = paid.claims[j].remaining
                            /\ claims[j].remaining = PeriodClaim(entries, q)
    BY <1>10
  <2>3. i < j
    <3>1. \A x, y \in 1 .. n : x < y => claims[x].id < claims[y].id
      BY <1>2 DEF ClaimQueue
    <3>2. j < i => q < p
      BY <2>1, <2>2, <3>1
    <3>3. i = j => p = q
      BY <2>1, <2>2
    <3>4. n \in Nat
      BY <1>2 DEF ClaimQueue
    <3> QED BY <3>2, <3>3, <3>4
  <2>4. /\ corrected.claims[i].remaining = 0 \/ corrected.claims[j].remaining = claims[j].remaining
        /\ paid.claims[i].remaining = 0 \/ paid.claims[j].remaining = corrected.claims[j].remaining
    <3>1. InTurn(claims, corrected.claims) /\ InTurn(corrected.claims, paid.claims)
      BY <1>5, <1>6 DEF Drained
    <3>2. Len(corrected.claims) = n
      BY <1>a
    <3> QED BY <2>3, <3>1, <3>2 DEF InTurn
  <2>5. PICK a \in Nat, b \in Nat : /\ a = corrected.claims[i].remaining
                                     /\ b = paid.claims[i].remaining /\ a >= b
    BY <1>a, <1>7, <2>1
  <2>6. a = 0 => b = 0
    BY ONLY <2>5
  <2> QED BY <2>1, <2>2, <2>4, <2>5, <2>6
<1> QED BY <1>1, <1>a, <1>7, <1>14, <1>15, <1>16, <1>17, <1>18, <1>19, <1>20

-----------------------------------------------------------------------------
(***************************************************************************)
(* What the statements rest on: the tables are finite, no entry lies in a  *)
(* period to come or belongs to a membership that does not exist yet, a    *)
(* membership has one statement per period, which shows the charges the    *)
(* ledger has, and no entries where it has no statement.                   *)
(***************************************************************************)
TablesFinite == IsFiniteSet(ledger) /\ IsFiniteSet(payments)

PostedSoFar == \A e \in ledger : e.period \in 1 .. OpenPeriod

AbsentUnposted ==
    \A m \in Memberships : memberStatus[m] = "ABSENT" => \A e \in ledger : e.member # m

OneStatement == \A s, t \in statements : s.member = t.member /\ s.period = t.period => s = t

ChargesFrozen == \A s \in statements : s.charges = ChargesOf(s.member, s.period)

OthersUnconcerned ==
    \A m \in Memberships : \A p \in 1 .. OpenPeriod - 1 :
        \/ \E s \in statements : s.member = m /\ s.period = p
        \/ \A e \in ledger : e.member = m => e.period # p

SettledInv ==
    /\ TablesFinite /\ PostedSoFar /\ AbsentUnposted
    /\ OneStatement /\ ChargesFrozen /\ OthersUnconcerned

(***************************************************************************)
(* What a command may do to the ledger, the payments and the memberships:  *)
(* it posts entries of the open period only, in finite number, for         *)
(* memberships that exist afterwards, for no membership at all, or for the *)
(* member of an earlier entry; and no membership ceases to exist.          *)
(***************************************************************************)
PostsFor(e) ==
    \/ e.member = NoMember
    \/ e.member \in Memberships /\ memberStatus'[e.member] # "ABSENT"
    \/ \E f \in ledger : f.member = e.member

Posts ==
    /\ IsFiniteSet(ledger') /\ IsFiniteSet(payments')
    /\ \A e \in ledger' \ ledger : PostsFor(e)
    /\ \A m \in Memberships : memberStatus'[m] = "ABSENT" => memberStatus[m] = "ABSENT"

\* A booking command posts for its targets, all of which exist afterwards.
LEMMA RecordBookingsPosts ==
    ASSUME TypeOK, TablesFinite, NEW items \in Seq(Prices), NEW targets \in Seq(Memberships),
           NEW newGuests \in Seq(Guests), RecordBookings(items, targets, newGuests)
    PROVE  Posts /\ UNCHANGED <<periods, statements>>
<1> DEFINE all == targets \o newGuests
           created == NewBookings(items, all)
           n == Len(bookings)
           legs(k) == BookingLegs(n + k, created[k])
<1>1. /\ TargetsAccepted(targets, newGuests)
      /\ ledger' = ledger \cup UNION {legs(k) : k \in DOMAIN created}
      /\ memberStatus' = [m \in Memberships |->
               IF m \in ToSet(newGuests) THEN "ACTIVE" ELSE memberStatus[m]]
      /\ UNCHANGED <<periods, payments, statements>>
  BY DEF RecordBookings
<1>2. all \in Seq(Memberships) /\ \A m \in ToSet(all) : m \in ToSet(targets) \/ m \in ToSet(newGuests)
  BY DEF Memberships, ToSet
<1>3. created \in Seq(Booking) /\ \A k \in DOMAIN created : created[k].target \in ToSet(all)
  <2>1. OpenPeriod \in PeriodIds
    BY DEF TypeOK, OpenPeriod
  <2> HIDE DEF all
  <2> QED BY <1>2, <2>1, NewBookingsType
<1>4. \A m \in ToSet(all) : m \in Memberships /\ memberStatus'[m] # "ABSENT"
  <2> SUFFICES ASSUME NEW m \in ToSet(all) PROVE m \in Memberships /\ memberStatus'[m] # "ABSENT"
    OBVIOUS
  <2>1. m \in Memberships
    <3> HIDE DEF all
    <3> QED BY <1>2 DEF ToSet
  <2>2. CASE m \in ToSet(newGuests)
    BY <1>1, <2>1, <2>2
  <2>3. CASE m \notin ToSet(newGuests)
    <3>1. memberStatus[m] = "ACTIVE"
      BY <1>1, <1>2, <2>3 DEF TargetsAccepted
    <3> QED BY <1>1, <2>1, <2>3, <3>1
  <2> QED BY <2>1, <2>2, <2>3
<1> HIDE DEF created
<1>5. \A k \in DOMAIN created : \A e \in legs(k) : PostsFor(e)
  <2> HIDE DEF all
  <2>1. ASSUME NEW k \in DOMAIN created, NEW e \in legs(k) PROVE e.member \in {created[k].target, NoMember}
    BY DEF BookingLegs, InsertLedger
  <2> QED BY <1>3, <1>4, <2>1 DEF PostsFor
<1>6. IsFiniteSet(ledger')
  <2>1. IsFiniteSet(DOMAIN created)
    <3>1. Len(created) \in Nat /\ DOMAIN created = 1 .. Len(created)
      BY <1>3
    <3> QED BY <3>1, FS_Interval
  <2> DEFINE f == [k \in DOMAIN created |-> legs(k)]
  <2>2. {legs(k) : k \in DOMAIN created} = {f[k] : k \in DOMAIN created}
    OBVIOUS
  <2>3. \A k : IsFiniteSet(legs(k))
    <3>1. \A a, b : IsFiniteSet({a, b})
      <4> SUFFICES ASSUME NEW a, NEW b PROVE IsFiniteSet({a, b})
        OBVIOUS
      <4>1. IsFiniteSet({a} \cup {b})
        BY FS_Singleton, FS_AddElement
      <4>2. {a} \cup {b} = {a, b}
        OBVIOUS
      <4> QED BY <4>1, <4>2
    <3> QED BY <3>1 DEF BookingLegs
  <2>4. IsFiniteSet({f[k] : k \in DOMAIN created})
    <3> HIDE DEF f
    <3> QED BY <2>1, FiniteImage
  <2> HIDE DEF legs
  <2>5. IsFiniteSet(UNION {legs(k) : k \in DOMAIN created})
    BY <2>2, <2>3, <2>4, FS_UNION
  <2> QED BY <1>1, <2>5, FS_Union DEF TablesFinite
<1>7. \A e \in ledger' \ ledger : PostsFor(e)
  <2> HIDE DEF legs
  <2> QED BY <1>1, <1>5
<1>8. \A m \in Memberships : memberStatus'[m] = "ABSENT" => memberStatus[m] = "ABSENT"
  BY <1>1
<1>9. IsFiniteSet(payments')
  BY <1>1 DEF TablesFinite
<1> QED BY <1>1, <1>6, <1>7, <1>8, <1>9 DEF Posts

\* A mirror image belongs to the member of its original.
LEMMA MirrorsPost ==
    ASSUME TypeOK, TablesFinite, NEW doc, ledger' = ledger \cup {Mirror(e) : e \in Originals(doc)},
           IsFiniteSet(payments'), memberStatus' = memberStatus
    PROVE  Posts
<1> DEFINE f == [e \in Originals(doc) |-> Mirror(e)]
<1>1. IsFiniteSet({f[e] : e \in Originals(doc)})
  <2>1. IsFiniteSet(Originals(doc))
    BY FS_Subset DEF Originals, TablesFinite
  <2> HIDE DEF f
  <2> QED BY <2>1, FiniteImage
<1>2. {f[e] : e \in Originals(doc)} = {Mirror(e) : e \in Originals(doc)}
  OBVIOUS
<1>3. IsFiniteSet(ledger')
  BY <1>1, <1>2, FS_Union DEF TablesFinite
<1>4. ASSUME NEW g \in ledger' \ ledger PROVE PostsFor(g)
  <2>1. PICK e \in ledger : g = Mirror(e)
    BY <1>4 DEF Originals
  <2>2. g.member = e.member
    BY <2>1 DEF Mirror, TypeOK, Entry
  <2> QED BY <2>2 DEF PostsFor
<1> QED BY <1>3, <1>4 DEF Posts

\* Every command posts this way, and none but Close touches periods or statements.
LEMMA StepsPost ==
    ASSUME TypeOK, TablesFinite, Next
    PROVE  Posts /\ (Close \/ UNCHANGED <<periods, statements>>)
<1>a. \A S : \A s \in DistinctSeqs(S) : s \in Seq(S)
  BY DEF DistinctSeqs, SeqOf
<1>b. \A s \in SeqOf(Prices, MaxItems) : s \in Seq(Prices)
  BY DEF SeqOf
<1>1. CASE \E m \in Memberships, a \in Prices : Create(m, a)
  <2>1. PICK m \in Memberships, a \in Prices : RecordBookings(<<a>>, <<m>>, <<>>)
    BY <1>1 DEF Create
  <2>2. <<a>> \in Seq(Prices) /\ <<m>> \in Seq(Memberships) /\ <<>> \in Seq(Guests)
    OBVIOUS
  <2> QED BY <2>1, <2>2, RecordBookingsPosts
<1>2. CASE \E ts \in DistinctSeqs(Memberships), gs \in DistinctSeqs(Guests), a \in Prices :
               CreateBatch(ts, gs, a)
  <2>1. PICK ts \in Seq(Memberships), gs \in Seq(Guests), a \in Prices : CreateBatch(ts, gs, a)
    BY <1>a, <1>2
  <2>2. <<a>> \in Seq(Prices) /\ RecordBookings(<<a>>, ts, gs)
    BY <2>1 DEF CreateBatch
  <2> QED BY <2>1, <2>2, RecordBookingsPosts
<1>3. CASE \E items \in SeqOf(Prices, MaxItems), ts \in DistinctSeqs(Memberships),
              gs \in DistinctSeqs(Guests) : CreateBulk(items, ts, gs)
  <2>1. PICK items \in Seq(Prices), ts \in Seq(Memberships), gs \in Seq(Guests) :
            CreateBulk(items, ts, gs)
    BY <1>a, <1>3, <1>b
  <2> QED BY <2>1, RecordBookingsPosts DEF CreateBulk
<1>4. CASE \E i \in DOMAIN bookings : Void(i)
  <2>1. PICK i \in DOMAIN bookings : Void(i)
    BY <1>4
  <2>2. /\ ledger' = ledger \cup {Mirror(e) : e \in Originals(BookingDoc(i))}
        /\ UNCHANGED <<periods, payments, statements, memberStatus>>
    BY <2>1, Zenon DEF Void
  <2>3. IsFiniteSet(payments')
    BY <2>2 DEF TablesFinite
  <2> QED BY <2>2, <2>3, MirrorsPost
<1>5. CASE \E source \in {"self-service", "finance"}, id \in PaymentIds, m \in Memberships,
              a \in PaymentAmounts, r \in ReceivedDates, asset \in AssetAccounts :
               CreatePayment(source, id, m, a, r, asset)
  <2>1. PICK source \in {"self-service", "finance"}, id \in PaymentIds, m \in Memberships,
              a \in PaymentAmounts, r \in ReceivedDates, asset \in AssetAccounts :
               CreatePayment(source, id, m, a, r, asset)
    BY <1>5
  <2> PICK p : p = [id |-> id, member |-> m, amount |-> a, received |-> r, reversed |-> FALSE]
    OBVIOUS
  <2>2. /\ memberStatus[m] # "ABSENT" /\ payments' = payments \cup {p}
        /\ ledger' = ledger \cup PaymentLegs(p, asset)
        /\ UNCHANGED <<periods, statements, memberStatus>>
    BY <2>1 DEF CreatePayment, PaymentAccepted
  <2>3. IsFiniteSet(payments') /\ IsFiniteSet(ledger')
    <3>1. \A S, x, y : IsFiniteSet(S) => IsFiniteSet(S \cup {x}) /\ IsFiniteSet(S \cup {x, y})
      <4> SUFFICES ASSUME NEW S, NEW x, NEW y, IsFiniteSet(S)
                   PROVE  IsFiniteSet(S \cup {x}) /\ IsFiniteSet(S \cup {x, y})
        OBVIOUS
      <4>1. IsFiniteSet((S \cup {x}) \cup {y}) /\ IsFiniteSet(S \cup {x})
        BY FS_AddElement
      <4>2. (S \cup {x}) \cup {y} = S \cup {x, y}
        OBVIOUS
      <4> QED BY <4>1, <4>2
    <3> QED BY <2>2, <3>1 DEF PaymentLegs, TablesFinite
  <2>4. ASSUME NEW e \in ledger' \ ledger PROVE PostsFor(e)
    <3>1. e \in PaymentLegs(p, asset)
      BY <2>2, <2>4
    <3>2. e.member \in {p.member, NoMember} /\ p.member = m
      BY <3>1 DEF PaymentLegs, InsertLedger
    <3> QED BY <2>2, <3>2 DEF PostsFor
  <2> QED BY <2>2, <2>3, <2>4 DEF Posts
<1>6. CASE \E p \in payments : ReversePayment(p)
  <2>1. PICK p \in payments : ReversePayment(p)
    BY <1>6
  <2>2. /\ ledger' = ledger \cup {Mirror(e) : e \in Originals(PaymentDoc(p.id))}
        /\ payments' = (payments \ {p}) \cup {[p EXCEPT !.reversed = TRUE]}
        /\ UNCHANGED <<periods, statements, memberStatus>>
    BY <2>1, Zenon DEF ReversePayment
  <2>3. IsFiniteSet(payments')
    BY <2>2, FS_RemoveElement, FS_AddElement DEF TablesFinite
  <2> QED BY <2>2, <2>3, MirrorsPost
<1>7. CASE Close
  BY <1>7 DEF Close, Posts, TablesFinite
<1>8. CASE \E m \in Memberships :
               ArchiveMember(m) \/ ReactivateMember(m) \/ PermanentlyDeleteMember(m)
  <2>1. PICK m \in Memberships, from, to \in Statuses \ {"ABSENT"} : MoveMember(m, from, to)
    BY <1>8 DEF ArchiveMember, ReactivateMember, PermanentlyDeleteMember, Statuses
  <2>2. /\ memberStatus' = [memberStatus EXCEPT ![m] = to]
        /\ UNCHANGED <<periods, payments, ledger, statements>>
    BY <2>1 DEF MoveMember
  <2>3. \A o \in Memberships : memberStatus'[o] = "ABSENT" => memberStatus[o] = "ABSENT"
    BY <2>2 DEF TypeOK
  <2> QED BY <2>2, <2>3 DEF Posts, TablesFinite
<1> QED BY <1>1, <1>2, <1>3, <1>4, <1>5, <1>6, <1>7, <1>8 DEF Next

(***************************************************************************)
(* Every command keeps what the statements rest on.                        *)
(***************************************************************************)
LEMMA SettledInit == Init => SettledInv
<1> SUFFICES ASSUME Init PROVE SettledInv
  OBVIOUS
<1>1. ledger = {} /\ payments = {} /\ statements = {} /\ OpenPeriod = 1
  BY DEF Init, OpenPeriod
<1>2. TablesFinite
  BY <1>1, FS_EmptySet DEF TablesFinite
<1> QED BY <1>1, <1>2 DEF SettledInv, PostedSoFar, AbsentUnposted, OneStatement, ChargesFrozen, OthersUnconcerned

\* What closing a period does to the tables.
LEMMA CloseEffect ==
    ASSUME TypeOK, Close
    PROVE  /\ OpenPeriod \in Nat \ {0} /\ OpenPeriod' = OpenPeriod + 1
           /\ UNCHANGED <<ledger, payments, memberStatus>>
           /\ statements' = statements \cup
                  {Snapshot(m, OpenPeriod, allocations'[m]) : m \in
                      {n \in Present : HasEmail(n) \/ HasActivity(n, OpenPeriod, allocations'[n])}}
<1>1. /\ periods' = NextPeriods /\ UNCHANGED <<ledger, payments, memberStatus>>
      /\ statements' = statements \cup
             {Snapshot(m, OpenPeriod, allocations'[m]) : m \in
                 {n \in Present : HasEmail(n) \/ HasActivity(n, OpenPeriod, allocations'[n])}}
  BY Zenon DEF Close
<1>2. periods \in Seq({"OPEN", "CLOSED"}) /\ OpenPeriod \in Nat \ {0}
  BY DEF TypeOK, OpenPeriod, PeriodIds
<1>3. OpenPeriod' = OpenPeriod + 1
  <2> DEFINE settled == [periods EXCEPT ![OpenPeriod] = "CLOSED"]
  <2>1. settled \in Seq({"OPEN", "CLOSED"}) /\ Len(settled) = OpenPeriod
    BY <1>2 DEF TypeOK, OpenPeriod
  <2>2. periods' = Append(settled, "OPEN")
    BY <1>1 DEF NextPeriods
  <2> HIDE DEF settled
  <2>3. Len(periods') = OpenPeriod + 1
    BY <2>1, <2>2
  <2> QED BY <2>3 DEF OpenPeriod
<1> QED BY <1>1, <1>2, <1>3

\* No command changes the charges of a period that is not the open one.
LEMMA ClosedChargesStay ==
    ASSUME TypeOK, Next, NEW m, NEW p, p # OpenPeriod
    PROVE  ChargesOf(m, p)' = ChargesOf(m, p)
<1>1. ledger \subseteq ledger' /\ \A e \in ledger' \ ledger : e.period = OpenPeriod
  BY StepsPostToOpenPeriod
<1>2. {e \in ClaimEntries(ledger', m) : e.period = p} = {e \in ClaimEntries(ledger, m) : e.period = p}
  BY <1>1 DEF ClaimEntries, Receivables
<1> QED BY <1>2 DEF ChargesOf, PeriodClaim

\* Every step keeps the invariant.
LEMMA SettledNext == IInv /\ SettledInv /\ [Next]_vars => SettledInv'
<1> SUFFICES ASSUME IInv, SettledInv, [Next]_vars PROVE SettledInv'
  OBVIOUS
<1> USE DEF SettledInv
<1>0. TypeOK /\ OpenPeriod \in Nat \ {0}
  BY DEF IInv, TypeOK, OpenPeriod, PeriodIds
<1>1. CASE UNCHANGED vars
  <2> USE <1>1 DEF vars
  <2>1. OpenPeriod' = OpenPeriod
    BY DEF OpenPeriod
  <2>2. TablesFinite' /\ PostedSoFar' /\ AbsentUnposted' /\ OneStatement'
    BY <2>1 DEF TablesFinite, PostedSoFar, AbsentUnposted, OneStatement
  <2>3. ChargesFrozen'
    <3>1. \A m, p : ChargesOf(m, p)' = ChargesOf(m, p)
      BY DEF ChargesOf
    <3> QED BY <3>1 DEF ChargesFrozen
  <2>4. OthersUnconcerned'
    BY <2>1 DEF OthersUnconcerned
  <2> QED BY <2>2, <2>3, <2>4
<1>2. CASE Next
  <2>1. ledger \subseteq ledger' /\ \A e \in ledger' \ ledger : e.period = OpenPeriod
    BY <1>0, <1>2, StepsPostToOpenPeriod
  <2>2. Posts /\ (Close \/ UNCHANGED <<periods, statements>>)
    BY <1>0, <1>2, StepsPost
  <2>3. TablesFinite'
    BY <2>2 DEF Posts, TablesFinite
  <2>4. OpenPeriod' = OpenPeriod \/ OpenPeriod' = OpenPeriod + 1
    BY <1>0, <2>2, CloseEffect DEF OpenPeriod
  <2>5. PostedSoFar'
    BY <1>0, <2>1, <2>4 DEF PostedSoFar
  <2>6. AbsentUnposted'
    <3> SUFFICES ASSUME NEW m \in Memberships, memberStatus'[m] = "ABSENT", NEW e \in ledger' PROVE e.member # m
      BY DEF AbsentUnposted
    <3>1. memberStatus[m] = "ABSENT"
      BY <2>2 DEF Posts
    <3>2. \A f \in ledger : f.member # m
      BY <3>1 DEF AbsentUnposted
    <3>3. m # NoMember
      BY AccountingAssumption DEF Memberships
    <3>4. e \notin ledger => PostsFor(e)
      BY <2>2 DEF Posts
    <3> QED BY <3>2, <3>3, <3>4 DEF PostsFor
  <2>7. \A s \in statements : /\ s.period # OpenPeriod
                              /\ s.charges = ChargesOf(s.member, s.period)'
    <3> SUFFICES ASSUME NEW s \in statements
                 PROVE  s.period # OpenPeriod /\ s.charges = ChargesOf(s.member, s.period)'
      OBVIOUS
    <3>1. s.period \in 1 .. OpenPeriod - 1 /\ s.charges = ChargesOf(s.member, s.period)
      BY <1>0 DEF TypeOK, ChargesFrozen
    <3>2. s.period # OpenPeriod
      BY <1>0, <3>1
    <3> PICK m, p : m = s.member /\ p = s.period
      OBVIOUS
    <3>3. ChargesOf(m, p)' = ChargesOf(m, p)
      BY <1>0, <1>2, <3>2, ClosedChargesStay
    <3> QED BY <3>1, <3>2, <3>3
  <2>8. \A m \in Memberships : \A p \in 1 .. OpenPeriod - 1 :
            \/ \E s \in statements : s.member = m /\ s.period = p
            \/ \A e \in ledger' : e.member = m => e.period # p
    <3>1. \A p \in 1 .. OpenPeriod - 1 : p # OpenPeriod
      BY <1>0
    <3> QED BY <2>1, <3>1 DEF OthersUnconcerned
  <2>9. CASE UNCHANGED <<periods, statements>>
    <3>1. OpenPeriod' = OpenPeriod
      BY <2>9 DEF OpenPeriod
    <3>2. OneStatement'
      BY <2>9 DEF OneStatement
    <3>3. ChargesFrozen'
      BY <2>7, <2>9 DEF ChargesFrozen
    <3>4. OthersUnconcerned'
      BY <2>8, <2>9, <3>1 DEF OthersUnconcerned
    <3> QED BY <2>3, <2>5, <2>6, <3>2, <3>3, <3>4
  <2>10. CASE Close
    <3> DEFINE Told == {n \in Present : HasEmail(n) \/ HasActivity(n, OpenPeriod, allocations'[n])}
    <3>1. /\ OpenPeriod' = OpenPeriod + 1
          /\ UNCHANGED <<ledger, payments, memberStatus>>
          /\ statements' = statements \cup {Snapshot(m, OpenPeriod, allocations'[m]) : m \in Told}
      BY <1>0, <2>10, CloseEffect
    <3>2. ASSUME NEW s \in statements' \ statements
          PROVE  \E m \in Told : s = Snapshot(m, OpenPeriod, allocations'[m])
      BY <3>1, <3>2
    <3>3. \A m, r : /\ Snapshot(m, OpenPeriod, r).member = m
                    /\ Snapshot(m, OpenPeriod, r).period = OpenPeriod
                    /\ Snapshot(m, OpenPeriod, r).charges = ChargesOf(m, OpenPeriod)
      BY DEF Snapshot, ChargesOf
    <3>4. Told \subseteq Memberships
      BY DEF Present
    <3>5. \A m \in Memberships \ Told : \A e \in ledger : e.member = m => e.period # OpenPeriod
      <4> SUFFICES ASSUME NEW m \in Memberships \ Told, NEW e \in ledger, e.member = m PROVE e.period # OpenPeriod
        OBVIOUS
      <4>1. m \in Present
        BY DEF Present, AbsentUnposted
      <4>2. ~HasActivity(m, OpenPeriod, allocations'[m])
        BY <4>1
      <4> QED BY <4>2 DEF HasActivity
    <3>6. \A m \in Told : Snapshot(m, OpenPeriod, allocations'[m]) \in statements'
      BY <3>1
    <3> HIDE DEF Told
    <3>7. OneStatement'
      <4> SUFFICES ASSUME NEW s \in statements', NEW t \in statements', s.member = t.member, s.period = t.period
                   PROVE  s = t
        BY DEF OneStatement
      <4>1. CASE s \in statements /\ t \in statements
        BY <4>1 DEF OneStatement
      <4>2. CASE s \in statements /\ t \notin statements
        BY <2>7, <3>2, <3>3, <4>2
      <4>3. CASE s \notin statements /\ t \in statements
        BY <2>7, <3>2, <3>3, <4>3
      <4>4. CASE s \notin statements /\ t \notin statements
        BY <3>2, <3>3, <4>4
      <4> QED BY <4>1, <4>2, <4>3, <4>4
    <3>8. ChargesFrozen'
      <4>1. \A m, p : ChargesOf(m, p)' = ChargesOf(m, p)
        BY <3>1 DEF ChargesOf
      <4> SUFFICES ASSUME NEW s \in statements' PROVE s.charges = ChargesOf(s.member, s.period)'
        BY DEF ChargesFrozen
      <4>2. CASE s \in statements
        BY <2>7, <4>2
      <4>3. CASE s \notin statements
        <5>1. PICK m \in Told : s = Snapshot(m, OpenPeriod, allocations'[m])
          BY <3>2, <4>3
        <5>2. s.member = m /\ s.period = OpenPeriod /\ s.charges = ChargesOf(m, OpenPeriod)
          BY <3>3, <5>1
        <5> PICK p : p = OpenPeriod
          OBVIOUS
        <5>3. s.charges = ChargesOf(m, p)'
          BY <4>1, <5>2
        <5> QED BY <5>2, <5>3
      <4> QED BY <4>2, <4>3
    <3>9. OthersUnconcerned'
      <4> SUFFICES ASSUME NEW m \in Memberships, NEW p \in 1 .. OpenPeriod' - 1
                   PROVE  \/ \E s \in statements' : s.member = m /\ s.period = p
                          \/ \A e \in ledger' : e.member = m => e.period # p
        BY DEF OthersUnconcerned
      <4>1. CASE p = OpenPeriod
        <5>1. CASE m \in Told
          BY <3>3, <3>6, <4>1, <5>1
        <5>2. CASE m \notin Told
          BY <3>1, <3>5, <4>1, <5>2
        <5> QED BY <5>1, <5>2
      <4>2. CASE p # OpenPeriod
        <5>1. p \in 1 .. OpenPeriod - 1
          BY <1>0, <3>1, <4>2
        <5> QED BY <2>8, <3>1, <5>1
      <4> QED BY <4>1, <4>2
    <3> QED BY <2>3, <2>5, <2>6, <3>7, <3>8, <3>9
  <2> QED BY <2>2, <2>9, <2>10
<1> QED BY <1>1, <1>2

\* It holds at all times, together with the invariant above.
LEMMA SettledHolds == Spec => [](IInv /\ SettledInv)
<1>1. Init => IInv /\ SettledInv
  BY InitEstablishes, SettledInit
<1>2. IInv /\ SettledInv /\ [Next]_vars => (IInv /\ SettledInv)'
  BY NextKeeps, SettledNext
<1> QED BY <1>1, <1>2, PTL DEF Spec

(***************************************************************************)
(* The rows and the due amounts of a membership are those of its rebuild.  *)
(***************************************************************************)
LEMMA MemberRebuilt ==
    ASSUME IInv, SettledInv, NEW m \in Memberships
    PROVE  /\ EntriesFit(ClaimEntries(ledger, m)) /\ PaysFit(ActivePayments(payments, m))
           /\ allocations[m] = RebuildPaymentAllocations(ClaimEntries(ledger, m), ActivePayments(payments, m))
           /\ \A p : DueOf(m, p) = DueIn(ClaimEntries(ledger, m), allocations[m], p)
<1>1. EntriesFit(ClaimEntries(ledger, m))
  <2>1. IsFiniteSet(ClaimEntries(ledger, m))
    <3>1. ClaimEntries(ledger, m) \subseteq ledger
      BY DEF ClaimEntries, Receivables
    <3> QED BY <3>1, FS_Subset DEF SettledInv, TablesFinite
  <2>2. \A e \in ClaimEntries(ledger, m) : e \in Entry
    BY DEF ClaimEntries, Receivables, IInv, TypeOK
  <2>3. PeriodIds \subseteq Nat
    BY DEF PeriodIds
  <2> QED BY <2>1, <2>2, <2>3 DEF EntriesFit, Entry
<1>2. PaysFit(ActivePayments(payments, m))
  <2>1. ActivePayments(payments, m) \subseteq payments
    BY DEF ActivePayments
  <2>2. IsFiniteSet(ActivePayments(payments, m))
    BY <2>1, FS_Subset DEF SettledInv, TablesFinite
  <2>3. \A p \in payments : p \in Payment
    BY DEF IInv, TypeOK
  <2>4. PaymentIds \subseteq Nat /\ ReceivedDates \subseteq Nat /\ PaymentAmounts \subseteq Nat
    BY AccountingAssumption
  <2>5. \A p \in payments : p.id \in Nat /\ p.received \in Nat /\ p.amount \in Nat
    BY <2>3, <2>4 DEF Payment
  <2> QED BY <2>1, <2>2, <2>5 DEF PaysFit, IInv, UniquePayments
<1>3. allocations[m] = RebuildPaymentAllocations(ClaimEntries(ledger, m), ActivePayments(payments, m))
  BY DEF IInv, AllocationsCurrent, Rebuilt
<1>4. \A p : DueOf(m, p) = DueIn(ClaimEntries(ledger, m), allocations[m], p)
  BY DEF DueOf, DueIn, ChargesOf, PaidOf, AppliedOf, ProvidedOf, BySource, ByTarget
<1> QED BY <1>1, <1>2, <1>3, <1>4

(***************************************************************************)
(* Statements stay true: whatever is booked, voided, paid or reversed      *)
(* after a period was closed, its statements show the charges the ledger   *)
(* has for it, and a membership that got none owes nothing in it           *)
(* (snapshotStatements in periods/service.go).                             *)
(***************************************************************************)
THEOREM StatementsStayTrue == Spec => []StatementsMatchLedger
<1>1. ASSUME IInv, SettledInv PROVE StatementsMatchLedger
  <2> SUFFICES ASSUME NEW m \in Memberships, NEW p \in 1 .. OpenPeriod - 1,
                      NEW found, found = {s \in statements : s.member = m /\ s.period = p}
               PROVE  /\ Cardinality(found) <= 1
                      /\ \A s \in found : s.charges = ChargesOf(m, p)
                      /\ found = {} => ChargesOf(m, p) = 0 /\ DueOf(m, p) = 0
    BY DEF StatementsMatchLedger
  <2>1. Cardinality(found) <= 1
    <3>1. \A s, t \in found : s = t
      BY <1>1 DEF SettledInv, OneStatement
    <3>2. CASE found = {}
      BY <3>2, FS_EmptySet
    <3>3. CASE found # {}
      <4>1. PICK s : s \in found
        BY <3>3
      <4>2. found = {s}
        BY <3>1, <4>1
      <4>3. Cardinality({s}) = 1
        BY FS_Singleton
      <4>4. Cardinality(found) = 1
        BY ONLY <4>2, <4>3, Zenon
      <4> QED BY <4>4
    <3> QED BY <3>2, <3>3
  <2>2. \A s \in found : s.charges = ChargesOf(m, p)
    BY <1>1 DEF SettledInv, ChargesFrozen
  <2>3. ASSUME found = {} PROVE ChargesOf(m, p) = 0 /\ DueOf(m, p) = 0
    <3> DEFINE E == ClaimEntries(ledger, m)
               R == allocations[m]
    <3>1. \A e \in E : e.period # p
      BY <1>1, <2>3 DEF SettledInv, OthersUnconcerned, ClaimEntries, Receivables
    <3>2. {e \in E : e.period = p} = {}
      <4> HIDE DEF E
      <4> QED BY <3>1
    <3>3. ChargesOf(m, p) = 0
      BY <3>2, NoAmounts DEF ChargesOf, PeriodClaim
    <3>4. /\ \A r \in R.corrections : r.source # p /\ r.target # p
          /\ \A r \in R.payments : r.target # p
      <4>1. /\ \A r \in R.corrections : /\ \E e \in E : e.period = r.source
                                        /\ \E e \in E : e.period = r.target
            /\ \A r \in R.payments : \E e \in E : e.period = r.target
        <5> PICK A : A = ActivePayments(payments, m)
          OBVIOUS
        <5>1. EntriesFit(E) /\ PaysFit(A) /\ R = RebuildPaymentAllocations(E, A)
          BY <1>1, MemberRebuilt
        <5> HIDE DEF E, R
        <5> QED BY <5>1, RebuildGuarantees
      <4> HIDE DEF E, R
      <4> QED BY <3>1, <4>1
    <3>5. PaidOf(m, p) = 0 /\ AppliedOf(m, p) = 0 /\ ProvidedOf(m, p) = 0
      <4>1. /\ {r \in R.payments : r.target = p} = {} /\ {r \in R.corrections : r.target = p} = {}
            /\ {r \in R.corrections : r.source = p} = {}
        BY <3>4
      <4> QED BY <4>1, NoAmounts DEF PaidOf, AppliedOf, ProvidedOf
    <3> QED BY <3>3, <3>5 DEF DueOf
  <2> QED BY <2>1, <2>2, <2>3
<1> QED BY <1>1, SettledHolds, PTL

-----------------------------------------------------------------------------
(***************************************************************************)
(* Amounts added up group by group, and due amounts as a sum.              *)
(***************************************************************************)
AmountsGrouped(v, K, S, key) == \A k \in K : v[k] = SumAmounts({l \in S : key[l] = k})

\* Amounts may be added up group by group.
LEMMA AmountGroups ==
    ASSUME NEW S, IsFiniteSet(S), \A l \in S : l.amount \in Int,
           NEW K, IsFiniteSet(K), NEW key, \A l \in S : key[l] \in K,
           NEW v, AmountsGrouped(v, K, S, key)
    PROVE  SumAmounts(S) = Total(v, K)
<1> PICK w : w = [l \in S |-> l.amount]
  OBVIOUS
<1>1. \A l \in S : w[l] = l.amount /\ w[l] \in Int
  OBVIOUS
<1>2. \A T \in SUBSET S : SumAmounts(T) = Total(w, T)
  BY <1>1, AmountsTotal, SumsAgree
<1>3. Grouped(v, K, w, S, key)
  BY <1>2 DEF Grouped, AmountsGrouped
<1>4. Total(w, S) = Total(v, K)
  BY <1>1, <1>3, SumGroups
<1> QED BY <1>2, <1>4

AddingDues(m, D, g) == [s \in D |-> IF s = {} THEN 0 ELSE DueOf(m, Pick(s)) + g[s \ {Pick(s)}]]

DuesSum(m, S) == MapThenSumSet(LAMBDA p : DueOf(m, p), S)

\* The sum of due amounts as the library computes it.
LEMMA DuesAre ==
    ASSUME NEW m, NEW S
    PROVE  DuesSum(m, S) = (CHOOSE g : g = AddingDues(m, SUBSET S, g))[S]
BY Zenon DEF DuesSum, MapThenSumSet, MapThenFoldSet, AddingDues, Pick

\* It is the sum of any function that gives the due amounts.
LEMMA DuesTotal ==
    ASSUME NEW m, NEW S, NEW w, \A p \in S : w[p] = DueOf(m, p)
    PROVE  DuesSum(m, S) = Total(w, S)
<1>1. ASSUME NEW g PROVE AddingDues(m, SUBSET S, g) = Adding(w, SUBSET S, g)
  <2>1. \A s \in SUBSET S : s # {} => Pick(s) \in S
    BY Picked
  <2> QED BY <2>1 DEF AddingDues, Adding
<1> DEFINE A(g) == g = AddingDues(m, SUBSET S, g)
           B(g) == g = Adding(w, SUBSET S, g)
<1>2. \A g : A(g) <=> B(g)
  BY <1>1
<1> HIDE DEF A, B
<1>3. (CHOOSE g : A(g)) = (CHOOSE g : B(g))
  BY <1>2
<1>4. (CHOOSE g : A(g)) = (CHOOSE g : g = AddingDues(m, SUBSET S, g))
  BY Zenon DEF A
<1>5. (CHOOSE g : B(g)) = (CHOOSE g : g = Adding(w, SUBSET S, g))
  BY Zenon DEF B
<1>6. Total(w, S) = (CHOOSE g : B(g))[S]
  BY <1>5, SumIs
<1>7. DuesSum(m, S) = (CHOOSE g : A(g))[S]
  BY <1>4, DuesAre
<1> QED BY <1>3, <1>6, <1>7

(***************************************************************************)
(* A payment weighs on the balance of its membership by its amount as long *)
(* as it is not reversed, and on no other balance.                         *)
(***************************************************************************)
PaymentEntries(m) == {e \in Receivables(ledger, m) : e.doc.kind = "payment"}

\* Payment by payment.
LEMMA PaymentWeight ==
    ASSUME IInv, NEW m \in Memberships, NEW p \in payments,
           NEW S, S = {e \in PaymentEntries(m) : e.doc = PaymentDoc(p.id)}
    PROVE  /\ p.member = m /\ ~p.reversed => SumAmounts(S) = -p.amount
           /\ ~(p.member = m /\ ~p.reversed) => SumAmounts(S) = 0
<1>1. p \in Payment /\ p.amount \in Int /\ -p.amount \in Int
  BY PaymentAmountType DEF IInv, TypeOK, Payment
<1>2. PICK asset \in AssetAccounts, o \in 1 .. OpenPeriod :
          IF p.reversed
          THEN \E r \in o .. OpenPeriod :
                   EntriesOf(PaymentDoc(p.id)) = LegsIn(p, asset, o) \union Reversed(LegsIn(p, asset, o), r)
          ELSE EntriesOf(PaymentDoc(p.id)) = LegsIn(p, asset, o)
  BY DEF IInv, LedgerMatchesDocuments, PaymentPosted, LegsIn
<1> DEFINE x == InsertLedger(PaymentDoc(p.id), FALSE, "MEMBER_RECEIVABLE", p.member, o, -p.amount)
           y == InsertLedger(PaymentDoc(p.id), FALSE, asset, NoMember, o, p.amount)
           M(e, r) == [e EXCEPT !.reversal = TRUE, !.period = r, !.amount = -@]
<1>3. LegsIn(p, asset, o) = {x, y} /\ \A r : Reversed({x, y}, r) = {M(x, r), M(y, r)}
  BY DEF LegsIn, Reversed
<1>4. asset # "MEMBER_RECEIVABLE"
  BY AccountingAssumption
<1>5. /\ x.account = "MEMBER_RECEIVABLE" /\ x.member = p.member /\ x.amount = -p.amount /\ ~x.reversal
      /\ x.doc = PaymentDoc(p.id) /\ y.account = asset /\ x.doc.kind = "payment"
      /\ \A r : /\ M(x, r).account = "MEMBER_RECEIVABLE" /\ M(x, r).member = p.member
                /\ M(x, r).amount = -(-p.amount) /\ M(x, r).reversal /\ M(y, r).account = asset
                /\ M(x, r).doc = PaymentDoc(p.id)
  BY DEF InsertLedger, PaymentDoc
<1>6. S = {e \in EntriesOf(PaymentDoc(p.id)) : e.account = "MEMBER_RECEIVABLE" /\ e.member = m}
  BY DEF PaymentEntries, Receivables, EntriesOf, PaymentDoc
<1> HIDE DEF x, y, M
<1>7. CASE p.member # m
  <2>1. S = {}
    <3>1. CASE p.reversed
      <4>1. PICK r : EntriesOf(PaymentDoc(p.id)) = {x, y} \union {M(x, r), M(y, r)}
        BY <1>2, <1>3, <3>1
      <4> QED BY <1>4, <1>5, <1>6, <1>7, <4>1
    <3>2. CASE ~p.reversed
      <4>1. EntriesOf(PaymentDoc(p.id)) = {x, y}
        BY <1>2, <1>3, <3>2
      <4> QED BY <1>4, <1>5, <1>6, <1>7, <4>1
    <3> QED BY <3>1, <3>2
  <2> QED BY <1>7, <2>1, NoAmounts
<1>8. CASE p.member = m /\ ~p.reversed
  <2>1. EntriesOf(PaymentDoc(p.id)) = {x, y}
    BY <1>2, <1>3, <1>8
  <2>2. S = {x}
    BY <1>4, <1>5, <1>6, <1>8, <2>1
  <2>3. AmountSum({x}) = x.amount
    <3>1. IsFiniteSet({x}) /\ \A l \in {x} : l.amount \in Int
      BY <1>1, <1>5, FS_Singleton
    <3> QED BY <3>1, AmountFacts
  <2> QED BY <1>5, <1>8, <2>2, <2>3, SumsAgree
<1>9. CASE p.member = m /\ p.reversed
  <2>1. PICK r : EntriesOf(PaymentDoc(p.id)) = {x, y} \union {M(x, r), M(y, r)}
    BY <1>2, <1>3, <1>9
  <2> PICK z : z = M(x, r)
    OBVIOUS
  <2>2. S = {x, z} /\ x # z
    BY <1>4, <1>5, <1>6, <1>9, <2>1
  <2>3. AmountSum({x, z}) = x.amount + z.amount
    <3>1. IsFiniteSet({x, z})
      <4>1. IsFiniteSet({x} \cup {z}) /\ {x} \cup {z} = {x, z}
        BY FS_Singleton, FS_AddElement
      <4> QED BY <4>1
    <3>2. \A l \in {x, z} : l.amount \in Int
      BY <1>1, <1>5
    <3> QED BY <2>2, <3>1, <3>2, AmountFacts
  <2>4. x.amount + z.amount = 0
    BY <1>1, <1>5
  <2> QED BY <1>9, <2>2, <2>3, <2>4, SumsAgree
<1> QED BY <1>7, <1>8, <1>9

\* All payments together weigh what the active ones amount to.
LEMMA PaymentsWeigh ==
    ASSUME IInv, SettledInv, NEW m \in Memberships
    PROVE  /\ SumAmounts(PaymentEntries(m)) + SumAmounts(ActivePayments(payments, m)) = 0
           /\ SumAmounts(PaymentEntries(m)) \in Int /\ SumAmounts(ActivePayments(payments, m)) \in Int
<1> DEFINE PE == PaymentEntries(m)
           A == ActivePayments(payments, m)
<1>1. IsFiniteSet(payments) /\ A \subseteq payments /\ IsFiniteSet(A) /\ IsFiniteSet(payments \ A)
  <2>1. A \subseteq payments
    BY DEF ActivePayments
  <2> HIDE DEF A
  <2> QED BY <2>1, FS_Subset DEF SettledInv, TablesFinite
<1>2. \A p \in payments : p.amount \in Int /\ -p.amount \in Int
  BY PaymentAmountType DEF IInv, TypeOK, Payment
<1>3. PE \subseteq ledger /\ IsFiniteSet(PE)
  <2>1. PE \subseteq ledger
    BY DEF PaymentEntries, Receivables
  <2> HIDE DEF PE
  <2> QED BY <2>1, FS_Subset DEF SettledInv, TablesFinite
<1>4. \A e \in PE : e.amount \in Int
  BY <1>3 DEF IInv, TypeOK, Entry
<1>5. PICK key : key = [e \in PE |-> CHOOSE p \in payments : e.doc = PaymentDoc(p.id)]
  OBVIOUS
<1>6. \A e \in PE : key[e] \in payments /\ e.doc = PaymentDoc(key[e].id)
  <2> SUFFICES ASSUME NEW e \in PE PROVE key[e] \in payments /\ e.doc = PaymentDoc(key[e].id)
    OBVIOUS
  <2>1. e \in ledger /\ e.doc.kind = "payment"
    BY DEF PaymentEntries, Receivables
  <2>2. \A i : e.doc # BookingDoc(i)
    BY <2>1 DEF BookingDoc
  <2>3. \E p \in payments : e.doc = PaymentDoc(p.id)
    BY <2>1, <2>2 DEF IInv, LedgerMatchesDocuments
  <2>4. key[e] = CHOOSE p \in payments : e.doc = PaymentDoc(p.id)
    BY <1>5
  <2> QED BY <2>3, <2>4
<1> PICK v : v = [p \in payments |-> SumAmounts({e \in PE : key[e] = p})]
  OBVIOUS
<1>7. SumAmounts(PE) = Total(v, payments)
  <2>1. AmountsGrouped(v, payments, PE, key)
    BY DEF AmountsGrouped
  <2>2. \A e \in PE : key[e] \in payments
    BY <1>6
  <2> HIDE DEF PE
  <2> QED BY <1>1, <1>3, <1>4, <2>1, <2>2, AmountGroups
<1>8. \A p \in payments : {e \in PE : key[e] = p} = {e \in PE : e.doc = PaymentDoc(p.id)}
  <2> SUFFICES ASSUME NEW p \in payments, NEW e \in PE PROVE key[e] = p <=> e.doc = PaymentDoc(p.id)
    OBVIOUS
  <2>1. \A q \in payments : q.id = p.id => q = p
    BY DEF IInv, UniquePayments
  <2> HIDE DEF PE
  <2> QED BY <1>6, <2>1, DistinctDocuments
<1>9. \A p \in payments : /\ p \in A => v[p] = -p.amount
                          /\ p \notin A => v[p] = 0
  <2> SUFFICES ASSUME NEW p \in payments PROVE (p \in A => v[p] = -p.amount) /\ (p \notin A => v[p] = 0)
    OBVIOUS
  <2> PICK S : S = {e \in PaymentEntries(m) : e.doc = PaymentDoc(p.id)}
    OBVIOUS
  <2>1. v[p] = SumAmounts(S)
    BY <1>8
  <2>2. /\ p.member = m /\ ~p.reversed => SumAmounts(S) = -p.amount
        /\ ~(p.member = m /\ ~p.reversed) => SumAmounts(S) = 0
    BY PaymentWeight
  <2>3. p \in A <=> p.member = m /\ ~p.reversed
    BY DEF ActivePayments
  <2> HIDE DEF A
  <2> QED BY <2>1, <2>2, <2>3
<1> HIDE DEF A, PE
<1> PICK a : a = [p \in payments |-> IF p \in A THEN p.amount ELSE 0]
  OBVIOUS
<1>10. \A p \in payments : a[p] \in Int /\ v[p] \in Int /\ 0 = v[p] + a[p]
  BY <1>2, <1>9
<1>11. Total(v, payments) + Total(a, payments) = 0
  <2> PICK z : z = [p \in payments |-> 0]
    OBVIOUS
  <2>1. \A p \in payments : z[p] = 0 /\ v[p] \in Int /\ a[p] \in Int /\ z[p] = v[p] + a[p]
    BY <1>10
  <2>2. Total(z, payments) = Total(v, payments) + Total(a, payments)
    BY ONLY <1>1, <2>1, SumPlus
  <2>3. Total(z, payments) = 0
    BY <1>1, <2>1, SumZero
  <2> QED BY <2>2, <2>3
<1>12. Total(a, payments) = SumAmounts(A) /\ SumAmounts(A) \in Int
  <2>1. A \cup (payments \ A) = payments /\ A \cap (payments \ A) = {}
    BY <1>1
  <2> PICK B : B = payments \ A
    OBVIOUS
  <2>2. Total(a, A \cup B) = Total(a, A) + Total(a, B)
    <3>1. IsFiniteSet(A) /\ IsFiniteSet(B) /\ A \cap B = {} /\ \A p \in A \cup B : a[p] \in Int
      BY <1>1, <1>10, <2>1
    <3> QED BY ONLY <3>1, SumUnion
  <2>3. Total(a, B) = 0
    BY <1>1, SumZero
  <2>4. SumAmounts(A) = Total(a, A)
    <3>1. \A p \in A : a[p] = p.amount
      BY <1>1
    <3> QED BY <3>1, AmountsTotal, SumsAgree
  <2>5. Total(a, A) \in Int
    <3>1. \A p \in A : a[p] \in Int
      BY <1>1, <1>10
    <3> QED BY <1>1, <3>1, SumRemove
  <2>6. Total(a, payments) = Total(a, A) + Total(a, B)
    BY <2>1, <2>2
  <2> QED BY ONLY <2>3, <2>4, <2>5, <2>6
<1>13. Total(v, payments) \in Int
  BY <1>1, <1>10, SumRemove
<1> QED BY <1>7, <1>11, <1>12, <1>13 DEF A, PE

-----------------------------------------------------------------------------
(***************************************************************************)
(* Claims and rows added up period by period, and payment rows added up    *)
(* payment by payment.                                                     *)
(***************************************************************************)
LEMMA ByPeriods ==
    ASSUME NEW n \in Nat, NEW E, EntriesFit(E), \A e \in E : e.period \in 1 .. n,
           NEW c, \A p \in 1 .. n : c[p] = PeriodClaim(E, p)
    PROVE  SumAmounts(E) = Total(c, 1 .. n) /\ \A p \in 1 .. n : c[p] \in Int
<1> PICK key : key = [e \in E |-> e.period]
  OBVIOUS
<1>1. AmountsGrouped(c, 1 .. n, E, key)
  <2>1. ASSUME NEW p \in 1 .. n PROVE c[p] = SumAmounts({e \in E : key[e] = p})
    <3>1. {e \in E : key[e] = p} = {e \in E : e.period = p}
      OBVIOUS
    <3> QED BY <3>1 DEF PeriodClaim
  <2> QED BY <2>1 DEF AmountsGrouped
<1>2. IsFiniteSet(1 .. n) /\ IsFiniteSet(E) /\ \A e \in E : e.amount \in Int /\ key[e] \in 1 .. n
  BY FS_Interval DEF EntriesFit
<1>3. SumAmounts(E) = Total(c, 1 .. n)
  BY <1>1, <1>2, AmountGroups
<1>4. \A p \in 1 .. n : c[p] \in Int
  BY AmountsType DEF PeriodClaim, EntriesFit
<1> QED BY <1>3, <1>4

\* Rows added up by what they take from.
LEMMA RowsBySource ==
    ASSUME NEW rows, rows \subseteq Row, IsFiniteSet(rows), NEW K, IsFiniteSet(K),
           \A r \in rows : r.source \in K, NEW s, \A k \in K : s[k] = BySource(rows, k)
    PROVE  SumAmounts(rows) = Total(s, K) /\ \A k \in K : s[k] \in Nat
<1> PICK key : key = [r \in rows |-> r.source]
  OBVIOUS
<1>1. AmountsGrouped(s, K, rows, key)
  <2>1. ASSUME NEW k \in K PROVE s[k] = SumAmounts({r \in rows : key[r] = k})
    <3>1. {r \in rows : key[r] = k} = {r \in rows : r.source = k}
      OBVIOUS
    <3> QED BY <3>1 DEF BySource
  <2> QED BY <2>1 DEF AmountsGrouped
<1>2. \A r \in rows : r.amount \in Int /\ key[r] \in K
  BY DEF Row
<1>3. SumAmounts(rows) = Total(s, K)
  BY <1>1, <1>2, AmountGroups
<1> QED BY <1>3, RowSums

\* Rows added up by what they go to.
LEMMA RowsByTarget ==
    ASSUME NEW rows, rows \subseteq Row, IsFiniteSet(rows), NEW K, IsFiniteSet(K),
           \A r \in rows : r.target \in K, NEW t, \A k \in K : t[k] = ByTarget(rows, k)
    PROVE  SumAmounts(rows) = Total(t, K) /\ \A k \in K : t[k] \in Nat
<1> PICK key : key = [r \in rows |-> r.target]
  OBVIOUS
<1>1. AmountsGrouped(t, K, rows, key)
  <2>1. ASSUME NEW k \in K PROVE t[k] = SumAmounts({r \in rows : key[r] = k})
    <3>1. {r \in rows : key[r] = k} = {r \in rows : r.target = k}
      OBVIOUS
    <3> QED BY <3>1 DEF ByTarget
  <2> QED BY <2>1 DEF AmountsGrouped
<1>2. \A r \in rows : r.amount \in Int /\ key[r] \in K
  BY DEF Row
<1>3. SumAmounts(rows) = Total(t, K)
  BY <1>1, <1>2, AmountGroups
<1> QED BY <1>3, RowSums

(***************************************************************************)
(* What a rebuild leaves of the payments: an amount that is not negative,  *)
(* and zero when every payment is spent.                                   *)
(***************************************************************************)
LEMMA LeftOver ==
    ASSUME NEW A, PaysFit(A), NEW rows, rows \subseteq Row, IsFiniteSet(rows),
           \A r \in rows : \E p \in A : p.id = r.source,
           \A p \in A : BySource(rows, p.id) <= p.amount
    PROVE  /\ SumAmounts(A) - SumAmounts(rows) \in Nat
           /\ SumAmounts(rows) \in Int
           /\ (\A p \in A : BySource(rows, p.id) = p.amount) => SumAmounts(A) - SumAmounts(rows) = 0
<1> PICK key : key = [r \in rows |-> CHOOSE p \in A : p.id = r.source]
  OBVIOUS
<1>1. \A r \in rows : key[r] \in A /\ key[r].id = r.source
  <2> SUFFICES ASSUME NEW r \in rows PROVE key[r] \in A /\ key[r].id = r.source
    OBVIOUS
  <2>1. key[r] = CHOOSE p \in A : p.id = r.source
    OBVIOUS
  <2>2. \E p \in A : p.id = r.source
    OBVIOUS
  <2> QED BY <2>1, <2>2
<1> PICK s, a, u : /\ s = [p \in A |-> BySource(rows, p.id)] /\ a = [p \in A |-> p.amount]
                   /\ u = [p \in A |-> p.amount - BySource(rows, p.id)]
  OBVIOUS
<1>2. IsFiniteSet(A) /\ \A p \in A : p.amount \in Nat
  BY DEF PaysFit
<1>3. AmountsGrouped(s, A, rows, key)
  <2>1. ASSUME NEW p \in A PROVE s[p] = SumAmounts({r \in rows : key[r] = p})
    <3>0. \A q \in A : q.id = p.id => q = p
      BY DEF PaysFit
    <3>1. {r \in rows : key[r] = p} = {r \in rows : r.source = p.id}
      BY <1>1, <3>0
    <3>2. s[p] = BySource(rows, p.id)
      OBVIOUS
    <3> QED BY <3>1, <3>2 DEF BySource
  <2> QED BY <2>1 DEF AmountsGrouped
<1>4. SumAmounts(rows) = Total(s, A)
  <2>1. \A r \in rows : r.amount \in Int /\ key[r] \in A
    BY <1>1 DEF Row
  <2> QED BY <1>2, <1>3, <2>1, AmountGroups
<1>5. \A p \in A : s[p] \in Nat /\ a[p] \in Nat /\ u[p] \in Nat /\ a[p] = s[p] + u[p]
  <2> SUFFICES ASSUME NEW p \in A
               PROVE  s[p] \in Nat /\ a[p] \in Nat /\ u[p] \in Nat /\ a[p] = s[p] + u[p]
    OBVIOUS
  <2>1. BySource(rows, p.id) \in Nat
    BY RowSums
  <2>2. BySource(rows, p.id) <= p.amount /\ p.amount \in Nat
    BY <1>2
  <2>3. s[p] = BySource(rows, p.id) /\ a[p] = p.amount /\ u[p] = p.amount - BySource(rows, p.id)
    OBVIOUS
  <2> QED BY <2>1, <2>2, <2>3
<1>6. Total(a, A) = Total(s, A) + Total(u, A)
  <2>1. \A p \in A : s[p] \in Int /\ u[p] \in Int /\ a[p] = s[p] + u[p]
    BY <1>5
  <2> QED BY ONLY <1>2, <2>1, SumPlus
<1>7. SumAmounts(A) = Total(a, A)
  <2>1. \A p \in A : a[p] = p.amount
    OBVIOUS
  <2> QED BY <2>1, AmountsTotal, SumsAgree
<1>8. Total(s, A) \in Nat /\ Total(u, A) \in Nat
  <2>1. (\A p \in A : s[p] \in Nat) /\ (\A p \in A : u[p] \in Nat)
    BY <1>5
  <2> QED BY ONLY <1>2, <2>1, SumNat
<1>9. ASSUME \A p \in A : BySource(rows, p.id) = p.amount PROVE Total(u, A) = 0
  <2>1. \A p \in A : u[p] = 0
    BY <1>2, <1>9
  <2> QED BY ONLY <1>2, <2>1, SumZero
<1> QED BY <1>4, <1>6, <1>7, <1>8, <1>9

(***************************************************************************)
(* The due amounts of the periods add up to the claims less the rows of    *)
(* the payments: corrections only move money between periods.              *)
(***************************************************************************)
Combines(n, c, s, t, u, d) ==
    \A p \in 1 .. n : /\ c[p] \in Int /\ s[p] \in Int /\ t[p] \in Int /\ u[p] \in Int
                      /\ d[p] = c[p] + s[p] - t[p] - u[p]

\* Four sums combined period by period.
LEMMA DuesAddUp ==
    ASSUME NEW n \in Nat, NEW c, NEW s, NEW t, NEW u, NEW d, NEW C \in Int, NEW P \in Int, NEW M \in Int,
           Combines(n, c, s, t, u, d),
           Total(c, 1 .. n) = C, Total(s, 1 .. n) = M, Total(u, 1 .. n) = M, Total(t, 1 .. n) = P
    PROVE  Total(d, 1 .. n) = C - P
<1> USE DEF Combines
<1> PICK N : N = 1 .. n
  OBVIOUS
<1>1. IsFiniteSet(N)
  BY FS_Interval
<1> PICK x, y : x = [p \in N |-> c[p] + s[p]] /\ y = [p \in N |-> t[p] + u[p]]
  OBVIOUS
<1>2. /\ \A p \in N : c[p] \in Int /\ s[p] \in Int /\ x[p] = c[p] + s[p]
      /\ \A p \in N : t[p] \in Int /\ u[p] \in Int /\ y[p] = t[p] + u[p]
  OBVIOUS
<1>3. Total(x, N) = Total(c, N) + Total(s, N)
  BY ONLY <1>1, <1>2, SumPlus
<1>4. Total(y, N) = Total(t, N) + Total(u, N)
  BY ONLY <1>1, <1>2, SumPlus
<1>5. \A p \in N : d[p] \in Int /\ y[p] \in Int /\ x[p] = d[p] + y[p]
  <2> SUFFICES ASSUME NEW p \in N PROVE d[p] \in Int /\ y[p] \in Int /\ x[p] = d[p] + y[p]
    OBVIOUS
  <2>1. d[p] = c[p] + s[p] - t[p] - u[p]
    OBVIOUS
  <2>2. c[p] \in Int /\ s[p] \in Int /\ t[p] \in Int /\ u[p] \in Int /\ x[p] = c[p] + s[p] /\ y[p] = t[p] + u[p]
    BY <1>2
  <2> QED BY ONLY <2>1, <2>2
<1>6. Total(x, N) = Total(d, N) + Total(y, N)
  BY ONLY <1>1, <1>5, SumPlus
<1>7. Total(d, N) \in Int
  <2>1. \A p \in N : d[p] \in Int
    BY <1>5
  <2> QED BY ONLY <1>1, <2>1, SumRemove
<1>8. Total(c, N) = C /\ Total(s, N) = M /\ Total(u, N) = M /\ Total(t, N) = P
  OBVIOUS
<1>9. Total(d, N) = C - P
  <2> PICK X, Y, D : X = Total(x, N) /\ Y = Total(y, N) /\ D = Total(d, N)
    OBVIOUS
  <2>1. D \in Int /\ X = C + M /\ Y = P + M /\ X = D + Y
    BY <1>3, <1>4, <1>6, <1>7, <1>8
  <2>2. D = C - P
    BY ONLY <2>1, C \in Int, M \in Int, P \in Int
  <2> QED BY <2>2
<1> QED BY <1>9

(***************************************************************************)
(* Debts reconcile: for every membership the ledger balance is what its    *)
(* periods show as due less the payments not yet applied, and payments or  *)
(* corrections left over never stand beside a period still due             *)
(* (rebuildPaymentAllocations in ledger/allocation.go, run by every        *)
(* command of bookings, finance and periods that touches the ledger).      *)
(***************************************************************************)
THEOREM DebtsAlwaysReconcile == Spec => []DebtsReconcile
<1>1. ASSUME IInv, SettledInv, NEW m \in Memberships
      PROVE  /\ Balance(m) = DuesSum(m, 1 .. OpenPeriod) - Unallocated(m)
             /\ Unallocated(m) >= 0
             /\ (Unallocated(m) > 0 \/ \E p \in 1 .. OpenPeriod : DueOf(m, p) < 0)
                   => \A p \in 1 .. OpenPeriod : DueOf(m, p) <= 0
  <2> PICK E, A, R, n : /\ E = ClaimEntries(ledger, m) /\ A = ActivePayments(payments, m)
                        /\ R = allocations[m] /\ n = OpenPeriod
    OBVIOUS
  <2>1. /\ EntriesFit(E) /\ PaysFit(A) /\ R = RebuildPaymentAllocations(E, A)
        /\ \A p : DueOf(m, p) = DueIn(E, R, p)
    BY <1>1, MemberRebuilt
  <2>2. n \in Nat /\ \A e \in E : e.period \in 1 .. n
    BY <1>1 DEF IInv, TypeOK, PeriodIds, OpenPeriod, SettledInv, PostedSoFar, ClaimEntries, Receivables
  <2>3. /\ R.corrections \subseteq Row /\ IsFiniteSet(R.corrections)
        /\ R.payments \subseteq Row /\ IsFiniteSet(R.payments)
        /\ \A r \in R.corrections : /\ \E e \in E : e.period = r.source
                                    /\ \E e \in E : e.period = r.target
        /\ \A r \in R.payments : /\ \E p \in A : p.id = r.source
                                 /\ \E e \in E : e.period = r.target
        /\ \A p \in A : BySource(R.payments, p.id) <= p.amount
        /\ \/ \A p \in A : BySource(R.payments, p.id) = p.amount
           \/ \A p \in Nat : DueIn(E, R, p) <= 0
        /\ \/ \A p \in Nat : DueIn(E, R, p) >= 0
           \/ \A p \in Nat : DueIn(E, R, p) <= 0
    BY ONLY <2>1, RebuildGuarantees
  <2> PICK c, s, t, u, d : /\ c = [p \in 1 .. n |-> PeriodClaim(E, p)]
                           /\ s = [p \in 1 .. n |-> BySource(R.corrections, p)]
                           /\ t = [p \in 1 .. n |-> ByTarget(R.payments, p)]
                           /\ u = [p \in 1 .. n |-> ByTarget(R.corrections, p)]
                           /\ d = [p \in 1 .. n |-> DueIn(E, R, p)]
    OBVIOUS
  <2>4. /\ \A p \in 1 .. n : c[p] = PeriodClaim(E, p) /\ s[p] = BySource(R.corrections, p)
                             /\ t[p] = ByTarget(R.payments, p) /\ u[p] = ByTarget(R.corrections, p)
                             /\ d[p] = DueOf(m, p)
        /\ \A p \in 1 .. n : d[p] = c[p] + s[p] - t[p] - u[p]
    BY <2>1 DEF DueIn
  <2>5. IsFiniteSet(1 .. n)
    BY <2>2, FS_Interval
  <2>6. SumAmounts(E) = Total(c, 1 .. n) /\ \A p \in 1 .. n : c[p] \in Int
    BY <2>1, <2>2, <2>4, ByPeriods
  <2>a. /\ \A p \in 1 .. n : s[p] = BySource(R.corrections, p)
        /\ \A p \in 1 .. n : t[p] = ByTarget(R.payments, p)
        /\ \A p \in 1 .. n : u[p] = ByTarget(R.corrections, p)
    BY <2>4
  <2>7. SumAmounts(R.corrections) = Total(s, 1 .. n) /\ \A p \in 1 .. n : s[p] \in Nat
    <3>1. \A r \in R.corrections : r.source \in 1 .. n
      BY <2>2, <2>3
    <3> QED BY ONLY <2>3, <2>a, <2>5, <3>1, RowsBySource
  <2>8. SumAmounts(R.corrections) = Total(u, 1 .. n) /\ \A p \in 1 .. n : u[p] \in Nat
    <3>1. \A r \in R.corrections : r.target \in 1 .. n
      BY <2>2, <2>3
    <3> QED BY ONLY <2>3, <2>a, <2>5, <3>1, RowsByTarget
  <2>9. SumAmounts(R.payments) = Total(t, 1 .. n) /\ \A p \in 1 .. n : t[p] \in Nat
    <3>1. \A r \in R.payments : r.target \in 1 .. n
      BY <2>2, <2>3
    <3> QED BY ONLY <2>3, <2>a, <2>5, <3>1, RowsByTarget
  <2>10. /\ SumAmounts(A) - SumAmounts(R.payments) \in Nat /\ SumAmounts(R.payments) \in Int
         /\ (\A p \in A : BySource(R.payments, p.id) = p.amount) => SumAmounts(A) - SumAmounts(R.payments) = 0
    BY <2>1, <2>3, LeftOver
  <2>11. Unallocated(m) = SumAmounts(A) - SumAmounts(R.payments)
    BY DEF Unallocated
  <2>12. SumAmounts(E) \in Int /\ SumAmounts(R.corrections) \in Int
    BY <2>1, <2>3, AmountsType DEF EntriesFit, Row
  <2>13. DuesSum(m, 1 .. n) = SumAmounts(E) - SumAmounts(R.payments)
    <3>1. DuesSum(m, 1 .. n) = Total(d, 1 .. n)
      <4>1. \A p \in 1 .. n : d[p] = DueOf(m, p)
        BY <2>4
      <4> QED BY ONLY <4>1, DuesTotal
    <3>2. Combines(n, c, s, t, u, d)
      BY <2>4, <2>6, <2>7, <2>8, <2>9 DEF Combines
    <3>3. Total(d, 1 .. n) = SumAmounts(E) - SumAmounts(R.payments)
      <4> PICK C, P, M : C = SumAmounts(E) /\ P = SumAmounts(R.payments) /\ M = SumAmounts(R.corrections)
        OBVIOUS
      <4>1. C \in Int /\ P \in Int /\ M \in Int
        BY <2>10, <2>12
      <4>2. /\ Total(c, 1 .. n) = C /\ Total(s, 1 .. n) = M
            /\ Total(u, 1 .. n) = M /\ Total(t, 1 .. n) = P
        BY <2>6, <2>7, <2>8, <2>9
      <4>3. Total(d, 1 .. n) = C - P
        BY ONLY <2>2, <3>2, <4>1, <4>2, DuesAddUp
      <4> QED BY <4>3
    <3> QED BY <3>1, <3>3
  <2>14. Balance(m) = SumAmounts(E) - SumAmounts(A) /\ SumAmounts(A) \in Int
    <3> PICK P, B : P = PaymentEntries(m) /\ B = Receivables(ledger, m)
      OBVIOUS
    <3>1. SumAmounts(P) + SumAmounts(A) = 0 /\ SumAmounts(P) \in Int /\ SumAmounts(A) \in Int
      BY <1>1, PaymentsWeigh
    <3>2. B = E \cup P /\ E \cap P = {}
      BY DEF PaymentEntries, ClaimEntries
    <3>3. IsFiniteSet(B) /\ \A e \in B : e.amount \in Int
      <4>1. B \subseteq ledger
        BY DEF Receivables
      <4> QED BY <1>1, <4>1, FS_Subset DEF SettledInv, TablesFinite, IInv, TypeOK, Entry
    <3>4. AmountSum(E \cup P) = AmountSum(E) + AmountSum(P)
      <4>1. IsFiniteSet(E \cup P) /\ \A e \in E \cup P : e.amount \in Int
        BY <3>2, <3>3
      <4> QED BY ONLY <3>2, <4>1, AmountFacts
    <3>5. Balance(m) = SumAmounts(E) + SumAmounts(P)
      BY <3>2, <3>4, SumsAgree DEF Balance
    <3> QED BY <2>12, <3>1, <3>5
  <2>15. Balance(m) = DuesSum(m, 1 .. n) - Unallocated(m)
    BY <2>10, <2>11, <2>12, <2>13, <2>14
  <2>16. Unallocated(m) >= 0
    BY <2>10, <2>11
  <2>17. ASSUME Unallocated(m) > 0 \/ \E p \in 1 .. n : DueOf(m, p) < 0,
                NEW p \in 1 .. n
         PROVE  DueOf(m, p) <= 0
    <3>1. \A q \in Nat : DueIn(E, R, q) <= 0
      <4>1. CASE Unallocated(m) > 0
        BY <2>3, <2>10, <2>11, <4>1
      <4>2. CASE \E q \in 1 .. n : DueOf(m, q) < 0
        <5>1. PICK q \in 1 .. n : DueOf(m, q) < 0
          BY <4>2
        <5>2. q \in Nat /\ DueIn(E, R, q) < 0 /\ DueIn(E, R, q) \in Int
          <6>1. d[q] \in Int
            BY <2>4, <2>6, <2>7, <2>8, <2>9
          <6> QED BY <2>1, <2>2, <2>4, <5>1, <6>1
        <5>3. ~(DueIn(E, R, q) >= 0)
          BY ONLY <5>2
        <5> QED BY <2>3, <5>2, <5>3
      <4> QED BY <2>17, <4>1, <4>2
    <3> QED BY <2>1, <2>2, <3>1
  <2> QED BY <2>15, <2>16, <2>17
<1>2. ASSUME IInv, SettledInv PROVE DebtsReconcile
  BY <1>1, <1>2, Zenon DEF DebtsReconcile, DuesSum
<1> QED BY <1>2, SettledHolds, PTL

-----------------------------------------------------------------------------

(***************************************************************************)
(* What is due in a closed period rises only by a correction.  The money   *)
(* that flows into the periods is what the credits and the payments give:  *)
(* all of it as long as anything is due, and never more.                   *)
(***************************************************************************)
Received(rebuilt, p) == ByTarget(rebuilt.payments, p) + ByTarget(rebuilt.corrections, p)

Credit(entries, p) == IF PeriodClaim(entries, p) < 0 THEN -PeriodClaim(entries, p) ELSE 0

\* Sums of smaller summands are smaller.
LEMMA SumLess ==
    ASSUME NEW S, IsFiniteSet(S), NEW x, NEW y,
           \A q \in S : x[q] \in Int /\ y[q] \in Int /\ y[q] <= x[q]
    PROVE  /\ Total(x, S) \in Int /\ Total(y, S) \in Int
           /\ Total(y, S) <= Total(x, S)
           /\ \A q \in S : y[q] < x[q] => Total(y, S) < Total(x, S)
<1> PICK z : z = [q \in S |-> x[q] - y[q]]
  OBVIOUS
<1>1. \A q \in S : y[q] \in Int /\ z[q] \in Int /\ x[q] = y[q] + z[q]
  OBVIOUS
<1>2. \A q \in S : z[q] \in Nat
  OBVIOUS
<1>3. Total(x, S) = Total(y, S) + Total(z, S)
  BY ONLY IsFiniteSet(S), <1>1, SumPlus
<1>4. Total(z, S) \in Nat /\ \A q \in S : z[q] <= Total(z, S)
  BY ONLY IsFiniteSet(S), <1>2, SumNat
<1>5. Total(y, S) \in Int
  <2>1. \A q \in S : y[q] \in Int
    BY <1>1
  <2> QED BY ONLY IsFiniteSet(S), <2>1, SumRemove
<1>6. ASSUME NEW q \in S, y[q] < x[q] PROVE Total(y, S) < Total(x, S)
  <2> PICK a \in Int, b \in Int, c \in Int : a = x[q] /\ b = y[q] /\ c = z[q] /\ a = b + c /\ b < a
    BY <1>1, <1>6
  <2>0. c > 0
    OBVIOUS
  <2>1. z[q] > 0 /\ z[q] \in Int
    BY <2>0
  <2>2. Total(z, S) > 0
    BY <1>4, <2>1
  <2> QED BY <1>3, <1>4, <1>5, <2>2
<1>7. Total(x, S) \in Int /\ Total(y, S) <= Total(x, S)
  BY <1>3, <1>4, <1>5
<1> QED BY <1>5, <1>6, <1>7

(***************************************************************************)
(* The periods never receive more than the credits and the payments hold,  *)
(* and all of it while anything is due.                                    *)
(***************************************************************************)
LEMMA MoneyApplied ==
    ASSUME NEW n \in Nat, NEW E, EntriesFit(E), \A e \in E : e.period \in 1 .. n, NEW A, PaysFit(A),
           NEW R, R = RebuildPaymentAllocations(E, A),
           NEW x, \A p \in 1 .. n : x[p] = Received(R, p),
           NEW g, \A p \in 1 .. n : g[p] = Credit(E, p)
    PROVE  /\ Total(x, 1 .. n) \in Int /\ Total(g, 1 .. n) \in Int /\ SumAmounts(A) \in Int
           /\ Total(x, 1 .. n) <= Total(g, 1 .. n) + SumAmounts(A)
           /\ (\E p \in Nat : DueIn(E, R, p) > 0) => Total(x, 1 .. n) = Total(g, 1 .. n) + SumAmounts(A)
<1>1. /\ R.corrections \subseteq Row /\ IsFiniteSet(R.corrections)
      /\ R.payments \subseteq Row /\ IsFiniteSet(R.payments)
      /\ \A r \in R.corrections : /\ \E e \in E : e.period = r.source
                                  /\ \E e \in E : e.period = r.target
      /\ \A r \in R.payments : /\ \E p \in A : p.id = r.source
                               /\ \E e \in E : e.period = r.target
      /\ \A p \in A : BySource(R.payments, p.id) <= p.amount
      /\ \/ \A p \in A : BySource(R.payments, p.id) = p.amount
         \/ \A p \in Nat : DueIn(E, R, p) <= 0
      /\ \/ \A p \in Nat : DueIn(E, R, p) >= 0
         \/ \A p \in Nat : DueIn(E, R, p) <= 0
      /\ OneWay(E, R)
  BY RebuildGuarantees
<1> PICK N : N = 1 .. n
  OBVIOUS
<1>2. IsFiniteSet(N) /\ \A q \in N : q \in Nat
  BY FS_Interval
<1> PICK s, t, u : /\ s = [q \in N |-> BySource(R.corrections, q)]
                   /\ t = [q \in N |-> ByTarget(R.payments, q)]
                   /\ u = [q \in N |-> ByTarget(R.corrections, q)]
  OBVIOUS
<1>3. SumAmounts(R.corrections) = Total(s, N) /\ \A q \in N : s[q] \in Nat
  <2>1. (\A r \in R.corrections : r.source \in N) /\ \A q \in N : s[q] = BySource(R.corrections, q)
    BY <1>1
  <2> QED BY ONLY <1>1, <1>2, <2>1, RowsBySource
<1>4. SumAmounts(R.corrections) = Total(u, N) /\ \A q \in N : u[q] \in Nat
  <2>1. (\A r \in R.corrections : r.target \in N) /\ \A q \in N : u[q] = ByTarget(R.corrections, q)
    BY <1>1
  <2> QED BY ONLY <1>1, <1>2, <2>1, RowsByTarget
<1>5. SumAmounts(R.payments) = Total(t, N) /\ \A q \in N : t[q] \in Nat
  <2>1. (\A r \in R.payments : r.target \in N) /\ \A q \in N : t[q] = ByTarget(R.payments, q)
    BY <1>1
  <2> QED BY ONLY <1>1, <1>2, <2>1, RowsByTarget
<1>6. /\ SumAmounts(A) - SumAmounts(R.payments) \in Nat /\ SumAmounts(R.payments) \in Int
      /\ (\A p \in A : BySource(R.payments, p.id) = p.amount) => SumAmounts(A) - SumAmounts(R.payments) = 0
  BY <1>1, LeftOver
<1>7. SumAmounts(A) \in Int /\ SumAmounts(R.corrections) \in Int
  BY <1>1, AmountsType DEF PaysFit, Row
<1>8. Total(x, N) = SumAmounts(R.payments) + SumAmounts(R.corrections)
  <2>1. \A q \in N : t[q] \in Int /\ u[q] \in Int /\ x[q] = t[q] + u[q]
    BY <1>4, <1>5 DEF Received
  <2>2. Total(x, N) = Total(t, N) + Total(u, N)
    BY ONLY <1>2, <2>1, SumPlus
  <2> QED BY <1>4, <1>5, <2>2
<1>9. ASSUME NEW q \in N
      PROVE  /\ g[q] \in Int /\ s[q] \in Int /\ s[q] <= g[q]
             /\ (\A p \in Nat : DueIn(E, R, p) >= 0) => s[q] = g[q]
  <2>0. PeriodClaim(E, q) \in Int
    BY AmountsType DEF PeriodClaim, EntriesFit
  <2> PICK c \in Int : c = PeriodClaim(E, q)
    BY <2>0
  <2>1. q \in Nat /\ g[q] = Credit(E, q) /\ s[q] = BySource(R.corrections, q) /\ s[q] \in Nat
    BY <1>2, <1>3
  <2>2. CASE c >= 0
    <3>1. s[q] = 0 /\ g[q] = 0
      BY <1>1, <2>1, <2>2 DEF OneWay, Credit
    <3> QED BY <3>1
  <2>3. CASE c < 0
    <3>1. g[q] = -c
      BY <2>1, <2>3 DEF Credit
    <3>2. ByTarget(R.payments, q) = 0 /\ ByTarget(R.corrections, q) = 0 /\ DueIn(E, R, q) <= 0
      BY <1>1, <2>1, <2>3 DEF OneWay
    <3>3. DueIn(E, R, q) = c + s[q] - 0 - 0
      BY <2>1, <3>2 DEF DueIn
    <3> PICK k \in Nat : k = s[q]
      BY <2>1
    <3>4. c + k - 0 - 0 <= 0
      BY <3>2, <3>3
    <3>5. k <= -c /\ (c + k - 0 - 0 >= 0 => k = -c)
      BY ONLY <3>4
    <3> QED BY <2>1, <3>1, <3>3, <3>5
  <2> QED BY <2>2, <2>3
<1>10. /\ Total(g, N) \in Int /\ Total(s, N) <= Total(g, N)
  <2>1. \A q \in N : g[q] \in Int /\ s[q] \in Int /\ s[q] <= g[q]
    BY <1>9
  <2> QED BY ONLY <1>2, <2>1, SumLess
<1>11. ASSUME \A p \in Nat : DueIn(E, R, p) >= 0 PROVE Total(s, N) = Total(g, N)
  <2>1. \A q \in N : s[q] = g[q] /\ g[q] \in Int
    BY <1>9, <1>11
  <2> QED BY ONLY <1>2, <2>1, SumSame
<1>12. ASSUME NEW p \in Nat, DueIn(E, R, p) > 0
       PROVE  Total(x, N) = Total(g, N) + SumAmounts(A)
  <2>1. ~(\A q \in Nat : DueIn(E, R, q) <= 0)
    <3>1. DueIn(E, R, p) \in Int
      <4>1. PeriodClaim(E, p) \in Int
        BY AmountsType DEF PeriodClaim, EntriesFit
      <4>2. BySource(R.corrections, p) \in Nat /\ ByTarget(R.payments, p) \in Nat /\ ByTarget(R.corrections, p) \in Nat
        BY <1>1, RowSums
      <4> QED BY <4>1, <4>2 DEF DueIn
    <3>2. ~(DueIn(E, R, p) <= 0)
      BY <1>12, <3>1
    <3> QED BY <3>2
  <2>2. Total(s, N) = Total(g, N)
    BY <1>1, <1>11, <2>1
  <2>3. SumAmounts(A) - SumAmounts(R.payments) = 0
    BY <1>1, <1>6, <2>1
  <2> QED BY <1>3, <1>6, <1>7, <1>8, <2>2, <2>3
<1>13. Total(x, N) \in Int /\ Total(x, N) <= Total(g, N) + SumAmounts(A)
  BY <1>3, <1>6, <1>7, <1>8, <1>10
<1> QED BY <1>7, <1>10, <1>12, <1>13

(***************************************************************************)
(* Two rebuilds, of E and A and of F and B.  The periods before o have the *)
(* same charges in both, no credit shrinks and the payments do not fall:   *)
(* then no period before o is due with more than it was.                   *)
(***************************************************************************)
LEMMA NoMoreDue ==
    ASSUME NEW n \in Nat, NEW o \in 1 .. n,
           NEW E, EntriesFit(E), \A e \in E : e.period \in 1 .. n, NEW A, PaysFit(A),
           NEW R, R = RebuildPaymentAllocations(E, A),
           NEW F, EntriesFit(F), \A e \in F : e.period \in 1 .. n, NEW B, PaysFit(B),
           NEW Q, Q = RebuildPaymentAllocations(F, B),
           \A q \in 1 .. n : q < o => PeriodClaim(E, q) = PeriodClaim(F, q),
           \A q \in 1 .. n : Credit(E, q) <= Credit(F, q),
           SumAmounts(A) <= SumAmounts(B),
           NEW p \in 1 .. n, p < o, DueIn(F, Q, p) > 0
    PROVE  ~(DueIn(F, Q, p) > DueIn(E, R, p))
<1> SUFFICES ASSUME DueIn(F, Q, p) > DueIn(E, R, p) PROVE FALSE
  OBVIOUS
<1>1. /\ OneWay(E, R) /\ OldestFirst(E, R)
      /\ R.corrections \subseteq Row /\ IsFiniteSet(R.corrections)
      /\ R.payments \subseteq Row /\ IsFiniteSet(R.payments)
  BY RebuildGuarantees
<1>2. /\ OneWay(F, Q) /\ OldestFirst(F, Q)
      /\ Q.corrections \subseteq Row /\ IsFiniteSet(Q.corrections)
      /\ Q.payments \subseteq Row /\ IsFiniteSet(Q.payments)
      /\ \/ \A q \in Nat : DueIn(F, Q, q) >= 0
         \/ \A q \in Nat : DueIn(F, Q, q) <= 0
  BY RebuildGuarantees
<1> PICK N : N = 1 .. n
  OBVIOUS
<1>3. IsFiniteSet(N) /\ p \in N /\ \A q \in N : q \in Nat
  BY FS_Interval
<1> PICK x, y, g, h : /\ x = [q \in N |-> Received(R, q)] /\ y = [q \in N |-> Received(Q, q)]
                      /\ g = [q \in N |-> Credit(E, q)] /\ h = [q \in N |-> Credit(F, q)]
  OBVIOUS
\* What the parts of the two due amounts are.
<1>4. ASSUME NEW q \in N
      PROVE  /\ PeriodClaim(E, q) \in Int /\ PeriodClaim(F, q) \in Int
             /\ x[q] \in Nat /\ y[q] \in Nat
             /\ PeriodClaim(E, q) <= 0 => x[q] = 0
             /\ PeriodClaim(F, q) <= 0 => y[q] = 0
             /\ PeriodClaim(E, q) > 0 => DueIn(E, R, q) = PeriodClaim(E, q) - x[q]
             /\ PeriodClaim(F, q) > 0 => DueIn(F, Q, q) = PeriodClaim(F, q) - y[q]
             /\ PeriodClaim(F, q) <= 0 => DueIn(F, Q, q) <= 0
  <2>0. q \in Nat
    BY <1>3
  <2>1. PeriodClaim(E, q) \in Int /\ PeriodClaim(F, q) \in Int
    BY AmountsType DEF PeriodClaim, EntriesFit
  <2>2. /\ BySource(R.corrections, q) \in Nat /\ ByTarget(R.payments, q) \in Nat /\ ByTarget(R.corrections, q) \in Nat
        /\ BySource(Q.corrections, q) \in Nat /\ ByTarget(Q.payments, q) \in Nat /\ ByTarget(Q.corrections, q) \in Nat
    BY <1>1, <1>2, RowSums
  <2>3. /\ x[q] = ByTarget(R.payments, q) + ByTarget(R.corrections, q)
        /\ y[q] = ByTarget(Q.payments, q) + ByTarget(Q.corrections, q)
    BY DEF Received
  <2>4. x[q] \in Nat /\ y[q] \in Nat
    BY <2>2, <2>3
  <2>5. ASSUME PeriodClaim(E, q) <= 0 PROVE x[q] = 0
    <3>1. ByTarget(R.payments, q) = 0 /\ ByTarget(R.corrections, q) = 0
      BY <1>1, <2>0, <2>5 DEF OneWay
    <3> QED BY <2>3, <3>1
  <2>6. ASSUME PeriodClaim(F, q) <= 0 PROVE y[q] = 0 /\ DueIn(F, Q, q) <= 0
    <3>1. ByTarget(Q.payments, q) = 0 /\ ByTarget(Q.corrections, q) = 0
      BY <1>2, <2>0, <2>6 DEF OneWay
    <3>2. CASE PeriodClaim(F, q) < 0
      <4>1. DueIn(F, Q, q) <= 0
        BY <1>2, <2>0, <3>2 DEF OneWay
      <4> QED BY <2>3, <3>1, <4>1
    <3>3. CASE PeriodClaim(F, q) = 0
      <4>1. BySource(Q.corrections, q) = 0
        BY <1>2, <2>0, <3>3 DEF OneWay
      <4>2. DueIn(F, Q, q) = 0 + 0 - 0 - 0
        BY <3>1, <3>3, <4>1 DEF DueIn
      <4> QED BY <2>3, <3>1, <4>2
    <3> QED BY <2>1, <2>6, <3>2, <3>3
  <2>7. ASSUME PeriodClaim(E, q) > 0 PROVE DueIn(E, R, q) = PeriodClaim(E, q) - x[q]
    <3>1. BySource(R.corrections, q) = 0
      <4>1. PeriodClaim(E, q) >= 0
        BY <2>1, <2>7
      <4> QED BY <1>1, <2>0, <4>1 DEF OneWay
    <3> PICK c \in Int, a \in Nat, b \in Nat :
            c = PeriodClaim(E, q) /\ a = ByTarget(R.payments, q) /\ b = ByTarget(R.corrections, q)
      BY <2>1, <2>2
    <3>2. DueIn(E, R, q) = c + 0 - a - b /\ x[q] = a + b
      BY <2>3, <3>1 DEF DueIn
    <3>3. c + 0 - a - b = c - (a + b)
      OBVIOUS
    <3> QED BY <3>2, <3>3
  <2>8. ASSUME PeriodClaim(F, q) > 0 PROVE DueIn(F, Q, q) = PeriodClaim(F, q) - y[q]
    <3>1. BySource(Q.corrections, q) = 0
      <4>1. PeriodClaim(F, q) >= 0
        BY <2>1, <2>8
      <4> QED BY <1>2, <2>0, <4>1 DEF OneWay
    <3> PICK c \in Int, a \in Nat, b \in Nat :
            c = PeriodClaim(F, q) /\ a = ByTarget(Q.payments, q) /\ b = ByTarget(Q.corrections, q)
      BY <2>1, <2>2
    <3>2. DueIn(F, Q, q) = c + 0 - a - b /\ y[q] = a + b
      BY <2>3, <3>1 DEF DueIn
    <3>3. c + 0 - a - b = c - (a + b)
      OBVIOUS
    <3> QED BY <3>2, <3>3
  <2> QED BY <2>1, <2>4, <2>5, <2>6, <2>7, <2>8
\* The period itself received more in the first rebuild.
<1>5. PICK k \in Nat, v \in Nat, w \in Nat :
          /\ k = PeriodClaim(E, p) /\ k = PeriodClaim(F, p) /\ v = x[p] /\ w = y[p] /\ k > 0
          /\ DueIn(E, R, p) = k - v /\ DueIn(F, Q, p) = k - w
  <2>1. PeriodClaim(E, p) = PeriodClaim(F, p) /\ PeriodClaim(F, p) \in Int
    BY <1>3, <1>4
  <2>2. PeriodClaim(F, p) > 0
    <3> SUFFICES ASSUME PeriodClaim(F, p) <= 0 PROVE FALSE
      BY <2>1
    <3>1. DueIn(F, Q, p) <= 0
      BY <1>3, <1>4
    <3>2. DueIn(F, Q, p) \in Int
      <4>1. BySource(Q.corrections, p) \in Nat /\ ByTarget(Q.payments, p) \in Nat /\ ByTarget(Q.corrections, p) \in Nat
        BY <1>2, RowSums
      <4> QED BY <2>1, <4>1 DEF DueIn
    <3> QED BY <3>1, <3>2
  <2>3. /\ x[p] \in Nat /\ y[p] \in Nat
        /\ DueIn(E, R, p) = PeriodClaim(E, p) - x[p] /\ DueIn(F, Q, p) = PeriodClaim(F, p) - y[p]
    BY <1>3, <1>4, <2>1, <2>2
  <2>4. PeriodClaim(F, p) \in Nat
    BY <2>1, <2>2
  <2> QED BY <2>1, <2>2, <2>3, <2>4
<1>6. k - w > k - v /\ k - w > 0
  BY <1>5
<1>7. w < v /\ k - v # k /\ k - w # 0
  BY ONLY <1>6, k \in Nat, v \in Nat, w \in Nat
<1>8. \A q \in Nat : DueIn(F, Q, q) >= 0
  <2>1. ~(DueIn(F, Q, p) <= 0)
    <3>1. ~(k - w <= 0)
      BY ONLY <1>6, k \in Nat, w \in Nat
    <3> QED BY <1>5, <3>1
  <2>2. p \in Nat
    BY <1>3
  <2> QED BY <1>2, <2>1, <2>2
\* No other period received less.
<1>9. ASSUME NEW q \in N PROVE x[q] \in Int /\ y[q] \in Int /\ y[q] <= x[q]
  <2>0. q \in Nat /\ p \in Nat /\ o \in Nat
    BY <1>3
  <2> PICK a \in Nat, b \in Nat, c \in Int, d \in Int :
          a = x[q] /\ b = y[q] /\ c = PeriodClaim(E, q) /\ d = PeriodClaim(F, q)
    BY <1>4
  <2>1. CASE q < p
    <3>1. c = d
      BY <2>0, <2>1
    <3>2. CASE c <= 0
      <4>1. b = 0
        BY <1>4, <3>1, <3>2
      <4> QED BY <4>1
    <3>3. CASE c > 0
      <4>1. DueIn(E, R, q) = 0 \/ DueIn(E, R, p) = PeriodClaim(E, p)
        BY <1>1, <1>5, <2>0, <2>1, <3>3 DEF OldestFirst
      <4>2. DueIn(E, R, q) = 0
        BY <1>5, <1>7, <4>1
      <4>3. c - a = 0
        BY <1>4, <3>3, <4>2
      <4>4. d - b >= 0
        BY <1>4, <1>8, <2>0, <3>1, <3>3
      <4>5. b <= a
        BY ONLY <3>1, <4>3, <4>4, a \in Nat, b \in Nat, c \in Int, d \in Int
      <4> QED BY <4>5
    <3> QED BY <3>2, <3>3
  <2>2. CASE q = p
    BY <1>5, <1>7, <2>2
  <2>3. CASE p < q
    <3>1. b = 0
      <4>1. CASE d <= 0
        BY <1>4, <4>1
      <4>2. CASE d > 0
        <5>1. DueIn(F, Q, p) = 0 \/ DueIn(F, Q, q) = PeriodClaim(F, q)
          BY <1>2, <1>5, <2>0, <2>3, <4>2 DEF OldestFirst
        <5>2. DueIn(F, Q, q) = d
          BY <1>5, <1>7, <5>1
        <5>3. d - b = d
          BY <1>4, <4>2, <5>2
        <5> QED BY ONLY <5>3, b \in Nat, d \in Int
      <4> QED BY <4>1, <4>2
    <3> QED BY <3>1
  <2> QED BY <2>0, <2>1, <2>2, <2>3
\* But as much money is there, and all of it flows.
<1>10. Total(y, N) < Total(x, N) /\ Total(x, N) \in Int /\ Total(y, N) \in Int
  <2>1. y[p] < x[p]
    BY <1>5, <1>7
  <2> QED BY ONLY <1>3, <1>9, <2>1, SumLess
<1>11. /\ SumAmounts(A) \in Int /\ Total(g, N) \in Int
       /\ Total(x, N) <= Total(g, N) + SumAmounts(A)
  <2>1. (\A q \in 1 .. n : x[q] = Received(R, q)) /\ (\A q \in 1 .. n : g[q] = Credit(E, q))
    OBVIOUS
  <2>2. /\ SumAmounts(A) \in Int /\ Total(g, 1 .. n) \in Int
        /\ Total(x, 1 .. n) <= Total(g, 1 .. n) + SumAmounts(A)
    BY ONLY <2>1, n \in Nat, EntriesFit(E), \A e \in E : e.period \in 1 .. n, PaysFit(A),
            R = RebuildPaymentAllocations(E, A), MoneyApplied
  <2> QED BY <2>2
<1>12. /\ SumAmounts(B) \in Int /\ Total(h, N) \in Int
       /\ Total(y, N) = Total(h, N) + SumAmounts(B)
  <2>1. (\A q \in 1 .. n : y[q] = Received(Q, q)) /\ (\A q \in 1 .. n : h[q] = Credit(F, q))
    OBVIOUS
  <2>2. \E q \in Nat : DueIn(F, Q, q) > 0
    BY <1>3
  <2>3. /\ SumAmounts(B) \in Int /\ Total(h, 1 .. n) \in Int
        /\ Total(y, 1 .. n) = Total(h, 1 .. n) + SumAmounts(B)
    BY ONLY <2>1, <2>2, n \in Nat, EntriesFit(F), \A e \in F : e.period \in 1 .. n, PaysFit(B),
            Q = RebuildPaymentAllocations(F, B), MoneyApplied
  <2> QED BY <2>3
<1>13. Total(g, N) <= Total(h, N)
  <2>1. \A q \in N : h[q] \in Int /\ g[q] \in Int /\ g[q] <= h[q]
    <3> SUFFICES ASSUME NEW q \in N PROVE h[q] \in Int /\ g[q] \in Int /\ g[q] <= h[q]
      OBVIOUS
    <3>1. PeriodClaim(E, q) \in Int /\ PeriodClaim(F, q) \in Int
      BY <1>4
    <3>2. Credit(E, q) \in Int /\ Credit(F, q) \in Int
      BY <3>1 DEF Credit
    <3> QED BY <3>2
  <2> QED BY ONLY <1>3, <2>1, SumLess
<1> PICK X \in Int, Y \in Int, G \in Int, H \in Int, C \in Int, D \in Int :
        /\ X = Total(x, N) /\ Y = Total(y, N) /\ G = Total(g, N) /\ H = Total(h, N)
        /\ C = SumAmounts(A) /\ D = SumAmounts(B)
  BY <1>10, <1>11, <1>12
<1>14. Y < X /\ X <= G + C /\ Y = H + D /\ G <= H /\ C <= D
  BY <1>10, <1>11, <1>12, <1>13
<1> QED BY ONLY <1>14, X \in Int, Y \in Int, G \in Int, H \in Int, C \in Int, D \in Int

\* What the accounts of every membership are made of.
AccountsFit ==
    \A m \in Memberships :
        LET E == ClaimEntries(ledger, m)
            A == ActivePayments(payments, m)
        IN  /\ EntriesFit(E) /\ PaysFit(A) /\ \A e \in E : e.period \in 1 .. OpenPeriod
            /\ allocations[m] = RebuildPaymentAllocations(E, A)
            /\ \A p : DueOf(m, p) = DueIn(E, allocations[m], p)

\* The accounts keep that shape: the allocations are always the rebuild of them.
LEMMA AccountsHold == Spec => [](IInv /\ SettledInv /\ AccountsFit)
<1>1. ASSUME IInv, SettledInv PROVE AccountsFit
  <2> SUFFICES ASSUME NEW m \in Memberships
               PROVE  /\ EntriesFit(ClaimEntries(ledger, m)) /\ PaysFit(ActivePayments(payments, m))
                      /\ \A e \in ClaimEntries(ledger, m) : e.period \in 1 .. OpenPeriod
                      /\ allocations[m] = RebuildPaymentAllocations(ClaimEntries(ledger, m), ActivePayments(payments, m))
                      /\ \A p : DueOf(m, p) = DueIn(ClaimEntries(ledger, m), allocations[m], p)
    BY DEF AccountsFit
  <2>1. \A e \in ClaimEntries(ledger, m) : e.period \in 1 .. OpenPeriod
    BY <1>1 DEF SettledInv, PostedSoFar, ClaimEntries, Receivables
  <2> QED BY <1>1, <2>1, MemberRebuilt
<1> QED BY <1>1, SettledHolds, PTL

(***************************************************************************)
(* A step that reverses no payment of the membership, while its open       *)
(* period holds no credit, makes no closed period due with more: the two   *)
(* rebuilds around the step are those NoMoreDue compares.                  *)
(***************************************************************************)
LEMMA DueStays ==
    ASSUME IInv, SettledInv, AccountsFit, AccountsFit', Next,
           NEW m \in Memberships, NEW p \in 1 .. OpenPeriod - 1,
           DueOf(m, p)' > DueOf(m, p), DueOf(m, p)' > 0,
           ~ \E q \in payments : q \in ActivePayments(payments, m) /\ q \notin payments',
           ~(ChargesOf(m, OpenPeriod) < 0)
    PROVE  FALSE
<1> PICK o, n : o = OpenPeriod /\ n = OpenPeriod'
  OBVIOUS
<1> PICK E, A, R : E = ClaimEntries(ledger, m) /\ A = ActivePayments(payments, m) /\ R = allocations[m]
  OBVIOUS
<1> PICK F, B, Q : F = ClaimEntries(ledger', m) /\ B = ActivePayments(payments', m) /\ Q = allocations'[m]
  OBVIOUS
<1>1. o \in Nat \ {0} /\ n \in Nat /\ o <= n
  <2>1. o \in Nat \ {0}
    BY DEF IInv, TypeOK, OpenPeriod, PeriodIds
  <2>2. Close \/ UNCHANGED periods
    BY StepsPost DEF IInv, SettledInv
  <2>3. CASE Close
    BY <2>1, <2>3, CloseEffect DEF IInv
  <2>4. CASE UNCHANGED periods
    <3>1. n = o
      BY <2>4 DEF OpenPeriod
    <3> QED BY <2>1, <3>1
  <2> QED BY <2>2, <2>3, <2>4
<1>2. /\ EntriesFit(E) /\ PaysFit(A) /\ R = RebuildPaymentAllocations(E, A)
      /\ \A e \in E : e.period \in 1 .. o
      /\ \A q : DueOf(m, q) = DueIn(E, R, q)
  BY DEF AccountsFit
<1>3. /\ EntriesFit(F) /\ PaysFit(B) /\ Q = RebuildPaymentAllocations(F, B)
      /\ \A e \in F : e.period \in 1 .. n
      /\ \A q : DueOf(m, q)' = DueIn(F, Q, q)
  BY DEF AccountsFit
<1>4. \A q : q # o => PeriodClaim(E, q) = PeriodClaim(F, q)
  <2>1. \A q : q # o => ChargesOf(m, q)' = ChargesOf(m, q)
    BY ClosedChargesStay DEF IInv
  <2>2. \A q : ChargesOf(m, q) = PeriodClaim(E, q) /\ ChargesOf(m, q)' = PeriodClaim(F, q)
    BY DEF ChargesOf
  <2> QED BY <2>1, <2>2
<1>5. \A q : PeriodClaim(E, q) \in Int /\ PeriodClaim(F, q) \in Int
  BY <1>2, <1>3, AmountsType DEF PeriodClaim, EntriesFit
<1>6. \A q \in 1 .. n : Credit(E, q) <= Credit(F, q)
  <2> SUFFICES ASSUME NEW q \in 1 .. n PROVE Credit(E, q) <= Credit(F, q)
    OBVIOUS
  <2> PICK c \in Int, d \in Int : c = PeriodClaim(E, q) /\ d = PeriodClaim(F, q)
    BY <1>5
  <2>1. CASE q # o
    BY <1>4, <2>1 DEF Credit
  <2>2. CASE q = o
    <3>1. ~(c < 0)
      BY <2>2 DEF ChargesOf
    <3> QED BY <3>1 DEF Credit
  <2> QED BY <2>1, <2>2
<1>7. SumAmounts(A) <= SumAmounts(B)
  <2>1. A \subseteq B
    BY DEF ActivePayments
  <2>2. IsFiniteSet(A) /\ IsFiniteSet(B) /\ \A q \in B : q.amount \in Nat
    BY <1>2, <1>3 DEF PaysFit
  <2> PICK a : a = [q \in B |-> IF q \in A THEN q.amount ELSE 0]
    OBVIOUS
  <2> PICK b : b = [q \in B |-> q.amount]
    OBVIOUS
  <2>3. \A q \in B : b[q] \in Int /\ a[q] \in Int /\ a[q] <= b[q] /\ b[q] = q.amount
    BY <2>2
  <2>4. Total(a, B) <= Total(b, B) /\ Total(a, B) \in Int
    BY ONLY <2>2, <2>3, SumLess
  <2>5. SumAmounts(B) = Total(b, B)
    BY <2>3, AmountsTotal, SumsAgree
  <2> PICK C : C = B \ A
    OBVIOUS
  <2>6. Total(a, A \cup C) = Total(a, A) + Total(a, C)
    <3>1. IsFiniteSet(C) /\ A \cap C = {} /\ \A q \in A \cup C : a[q] \in Int
      BY <2>1, <2>2, <2>3, FS_Subset
    <3> QED BY ONLY <2>2, <3>1, SumUnion
  <2>7. Total(a, C) = 0
    <3>1. IsFiniteSet(C) /\ \A q \in C : a[q] = 0
      BY <2>2, FS_Subset
    <3> QED BY ONLY <3>1, SumZero
  <2>8. SumAmounts(A) = Total(a, A)
    <3>1. \A q \in A : a[q] = q.amount
      BY <2>1
    <3> QED BY ONLY <3>1, AmountsTotal, SumsAgree
  <2>9. Total(a, A) \in Int
    <3>1. \A q \in A : a[q] \in Int
      BY <2>1, <2>3
    <3> QED BY ONLY <2>2, <3>1, SumRemove
  <2>10. A \cup C = B
    BY <2>1
  <2>11. Total(a, B) = Total(a, A) + Total(a, C)
    BY <2>6, <2>10
  <2> QED BY <2>4, <2>5, <2>7, <2>8, <2>9, <2>11
<1>8. /\ o \in 1 .. n /\ p \in 1 .. n /\ p < o
      /\ \A e \in E : e.period \in 1 .. n
      /\ \A q \in 1 .. n : q < o => q # o
  BY <1>1, <1>2
<1>9. \A q \in 1 .. n : q < o => PeriodClaim(E, q) = PeriodClaim(F, q)
  BY <1>4, <1>8
<1>10. DueIn(F, Q, p) > DueIn(E, R, p) /\ DueIn(F, Q, p) > 0
  BY <1>2, <1>3
<1>11. ~(DueIn(F, Q, p) > DueIn(E, R, p))
  BY ONLY <1>1, <1>2, <1>3, <1>6, <1>7, <1>8, <1>9, <1>10, NoMoreDue
<1> QED BY <1>10, <1>11

(***************************************************************************)
(* What is due for a closed period rises again only when a payment of that *)
(* membership is reversed, or while the open period holds a credit, which  *)
(* a new booking may use up: no other command, and no closing of the       *)
(* period, brings an old debt back                                         *)
(* (rebuildPaymentAllocations in ledger/allocation.go).                    *)
(***************************************************************************)
THEOREM OldDebtsStaySettled == Spec => ClosedDueRisesOnlyByCorrection
<1>1. ASSUME IInv, SettledInv, AccountsFit, AccountsFit', [Next]_vars
      PROVE  [\A m \in Memberships, p \in 1 .. OpenPeriod - 1 :
                 (DueOf(m, p)' > DueOf(m, p) /\ DueOf(m, p)' > 0) =>
                     \/ \E q \in payments : q \in ActivePayments(payments, m) /\ q \notin payments'
                     \/ ChargesOf(m, OpenPeriod) < 0]_vars
  <2>1. CASE UNCHANGED vars
    BY <2>1
  <2>2. CASE Next
    <3> SUFFICES ASSUME NEW m \in Memberships, NEW p \in 1 .. OpenPeriod - 1,
                        DueOf(m, p)' > DueOf(m, p), DueOf(m, p)' > 0,
                        ~ \E q \in payments : q \in ActivePayments(payments, m) /\ q \notin payments',
                        ~(ChargesOf(m, OpenPeriod) < 0)
                 PROVE  FALSE
      OBVIOUS
    <3> QED BY <1>1, <2>2, DueStays
  <2> QED BY <1>1, <2>1, <2>2
<1> QED BY <1>1, AccountsHold, PTL DEF Spec, ClosedDueRisesOnlyByCorrection

-----------------------------------------------------------------------------
(***************************************************************************)
(* The rebuild and its reference.  The slots of a queue are laid end to    *)
(* end from a start b: the k-th ends at U[k].  When the money has flowed   *)
(* up to x, the rows are the pieces of it below x, and a claim has left    *)
(* what of it lies beyond x.                                               *)
(***************************************************************************)
Rising(n, U) ==
    /\ \A k \in 0 .. n : U[k] \in Nat
    /\ \A i, k \in 0 .. n : i <= k => U[i] <= U[k]

Laid(b, slots, U) ==
    /\ U[0] = b /\ Rising(Len(slots), U)
    /\ \A k \in 1 .. Len(slots) : U[k] = U[k - 1] + slots[k].remaining

Low(a, b)  == IF a <= b THEN a ELSE b
High(a, b) == IF a <= b THEN b ELSE a

Piece(U, V, k, j, x) == Low(Low(U[k], V[j]), x) - High(U[k - 1], V[j - 1])

Rest(V, j, x) == V[j] - High(V[j - 1], Low(V[j], x))

PieceRow(sources, claims, U, V, k, j, x) ==
    [source |-> sources[k].id, target |-> claims[j].id, amount |-> Piece(U, V, k, j, x)]

\* The rows are the pieces below x.
RowsUpto(sources, claims, U, V, rows, x) ==
    /\ \A r \in rows : \E k \in 1 .. Len(sources), j \in 1 .. Len(claims) :
           Piece(U, V, k, j, x) > 0 /\ r = PieceRow(sources, claims, U, V, k, j, x)
    /\ \A k \in 1 .. Len(sources), j \in 1 .. Len(claims) :
           Piece(U, V, k, j, x) > 0 => PieceRow(sources, claims, U, V, k, j, x) \in rows

LeftBeyond(claims, V, left, x) ==
    /\ Len(left) = Len(claims)
    /\ \A j \in 1 .. Len(claims) : left[j].id = claims[j].id /\ left[j].remaining = Rest(V, j, x)

(***************************************************************************)
(* The loop has dropped d sources, stands at x within the next one, and    *)
(* all claims behind the index end before x.  It has come to x at the end  *)
(* of a source or of a claim.                                              *)
(***************************************************************************)
SourcesBeyond(sources, U, left, d, x) ==
    /\ Len(left) = Len(sources) - d
    /\ \A k \in 1 .. Len(left) : /\ left[k].id = sources[d + k].id
                                 /\ k > 1 => left[k].remaining = sources[d + k].remaining
    /\ U[d] <= x
    /\ IF d < Len(sources) THEN left[1].remaining = U[d + 1] - x /\ x <= U[d + 1] ELSE x = U[d]

AtEdge(U, V, d, n, c, m, x) ==
    d < n /\ c <= m => x = U[d] \/ x = U[d + 1] \/ x = V[c - 1] \/ x = V[c]

Flowing(sources, claims, U, V, s, d, x) ==
    /\ SourcesBeyond(sources, U, s.sources, d, x)
    /\ LeftBeyond(claims, V, s.claims, x)
    /\ \A j \in 0 .. Len(claims) : j < s.claimIndex => V[j] <= x
    /\ AtEdge(U, V, d, Len(sources), s.claimIndex, Len(claims), x)
    /\ RowsUpto(sources, claims, U, V, s.rows, x)

\* Dropping an exhausted source.
LEMMA DropFlows ==
    ASSUME NEW sources \in Seq(Slot), NEW claims \in Seq(Slot), NEW b \in Nat,
           NEW U, NEW V, Laid(b, sources, U), Laid(0, claims, V),
           NEW s \in Loops, ~Spent(s), NEW t \in Loops, Drops(s, t),
           NEW d \in 0 .. Len(sources), NEW x \in Nat, Flowing(sources, claims, U, V, s, d, x)
    PROVE  d + 1 \in 0 .. Len(sources) /\ Flowing(sources, claims, U, V, t, d + 1, x)
<1> PICK n \in Nat : n = Len(sources)
  OBVIOUS
<1>1. s.sources \in Seq(Slot) /\ Len(s.sources) \in Nat /\ Len(s.sources) > 0
  BY LoopShape
<1>2. /\ t.sources = Tail(s.sources) /\ t.claims = s.claims /\ t.claimIndex = s.claimIndex /\ t.rows = s.rows
      /\ s.sources[1].remaining = 0
  BY DEF Drops
<1>3. /\ SourcesBeyond(sources, U, s.sources, d, x) /\ LeftBeyond(claims, V, s.claims, x)
      /\ \A j \in 0 .. Len(claims) : j < s.claimIndex => V[j] <= x
      /\ RowsUpto(sources, claims, U, V, s.rows, x)
  BY DEF Flowing
<1>4. Len(s.sources) = n - d /\ d < n /\ d \in Nat
  BY <1>1, <1>3 DEF SourcesBeyond
<1>5. Len(t.sources) = n - (d + 1) /\ \A k \in 1 .. n - (d + 1) : t.sources[k] = s.sources[k + 1]
  BY <1>1, <1>2, <1>4
<1>6. d + 1 \in 0 .. n /\ d + 1 <= n /\ d \in 0 .. n
  BY <1>4
<1>7. x = U[d + 1] /\ U[d + 1] \in Nat
  <2>1. s.sources[1].remaining = U[d + 1] - x
    BY <1>3, <1>4 DEF SourcesBeyond
  <2>2. U[d + 1] \in Nat
    BY <1>6 DEF Laid, Rising
  <2> QED BY <1>2, <2>1, <2>2
<1>8. \A k \in 1 .. n - (d + 1) : t.sources[k].id = sources[d + 1 + k].id
                                   /\ t.sources[k].remaining = sources[d + 1 + k].remaining
  <2> SUFFICES ASSUME NEW k \in 1 .. n - (d + 1)
               PROVE  /\ t.sources[k].id = sources[d + 1 + k].id
                      /\ t.sources[k].remaining = sources[d + 1 + k].remaining
    OBVIOUS
  <2>1. k + 1 \in 1 .. n - d /\ k + 1 > 1 /\ d + (k + 1) = d + 1 + k
    BY <1>4
  <2>2. /\ s.sources[k + 1].id = sources[d + (k + 1)].id
        /\ s.sources[k + 1].remaining = sources[d + (k + 1)].remaining
    BY <1>3, <1>4, <2>1 DEF SourcesBeyond
  <2> QED BY <1>5, <2>1, <2>2
<1>9. d + 1 < n => t.sources[1].remaining = U[d + 1 + 1] - x /\ x <= U[d + 1 + 1]
  <2> SUFFICES ASSUME d + 1 < n PROVE t.sources[1].remaining = U[d + 1 + 1] - x /\ x <= U[d + 1 + 1]
    OBVIOUS
  <2>1. 1 \in 1 .. n - (d + 1) /\ d + 2 \in 1 .. n /\ d + 1 + 1 = d + 2 /\ (d + 2) - 1 = d + 1
    BY <1>4
  <2>2. t.sources[1].remaining = sources[d + 2].remaining
    BY <1>8, <2>1
  <2>3. U[d + 2] = U[d + 1] + sources[d + 2].remaining /\ U[d + 2] \in Nat
    BY <2>1 DEF Laid, Rising
  <2>4. sources[d + 2].remaining \in Nat
    <3>1. sources[d + 2] \in Slot
      BY <2>1
    <3> QED BY <3>1 DEF Slot
  <2> PICK a \in Nat, u \in Nat : a = sources[d + 2].remaining /\ u = U[d + 2]
    BY <2>3, <2>4
  <2>5. u = x + a
    BY <1>7, <2>3
  <2>6. a = u - x /\ x <= u
    BY ONLY <2>5
  <2> QED BY <2>1, <2>2, <2>6
<1>10. SourcesBeyond(sources, U, t.sources, d + 1, x)
  <2>1. ~(d + 1 < n) => x = U[d + 1]
    BY <1>7
  <2> QED BY <1>5, <1>7, <1>8, <1>9, <2>1 DEF SourcesBeyond
<1>11. AtEdge(U, V, d + 1, n, t.claimIndex, Len(claims), x)
  BY <1>7 DEF AtEdge
<1> QED BY <1>2, <1>3, <1>6, <1>10, <1>11 DEF Flowing

\* Passing a claim that is settled.
LEMMA PassFlows ==
    ASSUME NEW sources \in Seq(Slot), NEW claims \in Seq(Slot), NEW b \in Nat,
           NEW U, NEW V, Laid(b, sources, U), Laid(0, claims, V),
           NEW s \in Loops, ~Spent(s), NEW t \in Loops, Passes(s, t),
           NEW d \in 0 .. Len(sources), NEW x \in Nat, Flowing(sources, claims, U, V, s, d, x)
    PROVE  Flowing(sources, claims, U, V, t, d, x)
<1> PICK m \in Nat, c \in Nat \ {0} : m = Len(claims) /\ c = s.claimIndex
  BY LoopShape
<1>1. /\ t.sources = s.sources /\ t.claims = s.claims /\ t.claimIndex = c + 1 /\ t.rows = s.rows
      /\ s.claims[c].remaining = 0
  BY DEF Passes
<1>2. /\ SourcesBeyond(sources, U, s.sources, d, x) /\ LeftBeyond(claims, V, s.claims, x)
      /\ \A j \in 0 .. m : j < c => V[j] <= x
      /\ AtEdge(U, V, d, Len(sources), c, m, x)
      /\ RowsUpto(sources, claims, U, V, s.rows, x)
  BY DEF Flowing
<1>3. c <= m /\ c \in 1 .. m /\ c - 1 \in 0 .. m
  <2>1. c <= Len(s.claims)
    BY LoopShape
  <2> QED BY <1>2, <2>1 DEF LeftBeyond
<1> PICK u \in Nat, v \in Nat : u = V[c - 1] /\ v = V[c] /\ u <= v /\ u <= x
  <2>1. V[c - 1] \in Nat /\ V[c] \in Nat
    BY <1>3 DEF Laid, Rising
  <2>2. c - 1 <= c /\ c - 1 < c
    OBVIOUS
  <2> QED BY <1>2, <1>3, <2>1, <2>2 DEF Laid, Rising
<1>4. v <= x
  <2>1. Rest(V, c, x) = 0
    BY <1>1, <1>2, <1>3 DEF LeftBeyond
  <2>2. v - High(u, Low(v, x)) = 0
    BY <2>1 DEF Rest
  <2> QED BY <2>2 DEF High, Low
<1>5. \A j \in 0 .. m : j < c + 1 => V[j] <= x
  <2> SUFFICES ASSUME NEW j \in 0 .. m, j < c + 1 PROVE V[j] <= x
    OBVIOUS
  <2>1. j < c \/ j = c
    OBVIOUS
  <2> QED BY <1>2, <1>4, <2>1
<1>6. AtEdge(U, V, d, Len(sources), c + 1, m, x)
  <2> SUFFICES ASSUME d < Len(sources), c + 1 <= m
               PROVE  x = U[d] \/ x = U[d + 1] \/ x = V[c] \/ x = V[c + 1]
    <3>1. (c + 1) - 1 = c
      OBVIOUS
    <3> QED BY <3>1 DEF AtEdge
  <2>1. x = U[d] \/ x = U[d + 1] \/ x = V[c - 1] \/ x = V[c]
    BY <1>2, <1>3 DEF AtEdge
  <2>2. ASSUME x = V[c - 1] PROVE x = V[c]
    BY <1>4, <2>2
  <2> QED BY <2>1, <2>2
<1> QED BY <1>1, <1>2, <1>5, <1>6 DEF Flowing

\* The loop moves a from the source that ends at U[d + 1] to the claim that ends at V[c].
Moves(n, m, U, V, d, c, x, a, y) ==
    /\ n \in Nat /\ m \in Nat /\ Rising(n, U) /\ Rising(m, V)
    /\ d \in Nat /\ d < n /\ c \in 1 .. m /\ x \in Nat /\ a \in Nat /\ a > 0 /\ y = x + a
    /\ U[d] <= x /\ y <= U[d + 1] /\ V[c - 1] <= x /\ y <= V[c]
    /\ x = U[d] \/ x = V[c - 1]

PieceMoves(U, V, d, c, x, a, y, k, j) ==
    /\ k = d + 1 /\ j = c => Piece(U, V, k, j, y) = a /\ ~(Piece(U, V, k, j, x) > 0)
    /\ ~(k = d + 1 /\ j = c) =>
           /\ Piece(U, V, k, j, x) > 0 <=> Piece(U, V, k, j, y) > 0
           /\ Piece(U, V, k, j, x) > 0 => Piece(U, V, k, j, y) = Piece(U, V, k, j, x)

(***************************************************************************)
(* That adds one piece and changes no other.                               *)
(***************************************************************************)
LEMMA OnePieceMore ==
    ASSUME NEW n, NEW m, NEW U, NEW V, NEW d, NEW c, NEW x, NEW a, NEW y,
           Moves(n, m, U, V, d, c, x, a, y), NEW k \in 1 .. n, NEW j \in 1 .. m
    PROVE  PieceMoves(U, V, d, c, x, a, y, k, j)
<1> USE DEF Rising, Moves
<1>1. d \in 0 .. n /\ d + 1 \in 0 .. n /\ c \in 0 .. m /\ c - 1 \in 0 .. m
      /\ k \in 0 .. n /\ k - 1 \in 0 .. n /\ j \in 0 .. m /\ j - 1 \in 0 .. m
  OBVIOUS
<1> PICK p \in Nat, q \in Nat, u \in Nat, v \in Nat : p = U[k - 1] /\ q = V[j - 1] /\ u = U[k] /\ v = V[j]
  BY <1>1
<1> PICK e \in Nat, f \in Nat, g \in Nat, h \in Nat : e = U[d] /\ f = U[d + 1] /\ g = V[c - 1] /\ h = V[c]
  BY <1>1
<1>2. /\ k <= d => u <= e
      /\ k = d + 1 => p = e /\ u = f
      /\ k > d + 1 => f <= p
      /\ p <= u
  <2>1. k <= d => U[k] <= U[d]
    BY <1>1
  <2>2. k > d + 1 => U[d + 1] <= U[k - 1]
    <3>1. k > d + 1 => d + 1 <= k - 1
      OBVIOUS
    <3> QED BY <1>1, <3>1
  <2>3. U[k - 1] <= U[k]
    <3>1. k - 1 <= k
      OBVIOUS
    <3> QED BY <1>1, <3>1
  <2>4. k = d + 1 => k - 1 = d
    OBVIOUS
  <2> QED BY <2>1, <2>2, <2>3, <2>4
<1>3. /\ j < c => v <= g
      /\ j = c => q = g /\ v = h
      /\ j > c => h <= q
      /\ q <= v
  <2>1. j < c => V[j] <= V[c - 1]
    <3>1. j < c => j <= c - 1
      OBVIOUS
    <3> QED BY <1>1, <3>1
  <2>2. j > c => V[c] <= V[j - 1]
    <3>1. j > c => c <= j - 1
      OBVIOUS
    <3> QED BY <1>1, <3>1
  <2>3. V[j - 1] <= V[j]
    <3>1. j - 1 <= j
      OBVIOUS
    <3> QED BY <1>1, <3>1
  <2> QED BY <2>1, <2>2, <2>3
<1>4. e <= x /\ x + a <= f /\ g <= x /\ x + a <= h /\ (x = e \/ x = g) /\ a > 0
  OBVIOUS
<1>5. /\ Piece(U, V, k, j, x) = Low(Low(u, v), x) - High(p, q)
      /\ Piece(U, V, k, j, y) = Low(Low(u, v), x + a) - High(p, q)
  BY DEF Piece
<1>6. k <= d \/ k = d + 1 \/ k > d + 1
  OBVIOUS
<1>7. j < c \/ j = c \/ j > c
  OBVIOUS
<1>8. CASE k = d + 1 /\ j = c
  <2>1. p = e /\ u = f /\ q = g /\ v = h
    BY <1>2, <1>3, <1>8
  <2>2. /\ Low(Low(u, v), x + a) - High(p, q) = a
        /\ ~(Low(Low(u, v), x) - High(p, q) > 0)
    BY ONLY <1>4, <2>1, p \in Nat, q \in Nat, u \in Nat, v \in Nat, x \in Nat, a \in Nat DEF Low, High
  <2> QED BY <1>5, <1>8, <2>2 DEF PieceMoves
<1>9. CASE ~(k = d + 1 /\ j = c)
  <2>1. u <= x \/ x + a <= p \/ v <= x \/ x + a <= q
    BY <1>2, <1>3, <1>4, <1>6, <1>7, <1>9
  <2>2. /\ Low(Low(u, v), x) - High(p, q) > 0 <=> Low(Low(u, v), x + a) - High(p, q) > 0
        /\ Low(Low(u, v), x) - High(p, q) > 0 =>
               Low(Low(u, v), x + a) - High(p, q) = Low(Low(u, v), x) - High(p, q)
    BY ONLY <2>1, p \in Nat, q \in Nat, u \in Nat, v \in Nat, x \in Nat, a \in Nat DEF Low, High
  <2> QED BY <1>5, <1>9, <2>2 DEF PieceMoves
<1> QED BY <1>8, <1>9

\* Of a claim, a less is left of the one that ends at V[c], and as much as before of any other.
LEMMA LessIsLeft ==
    ASSUME NEW n, NEW m, NEW U, NEW V, NEW d, NEW c, NEW x, NEW a, NEW y,
           Moves(n, m, U, V, d, c, x, a, y), NEW j \in 1 .. m
    PROVE  Rest(V, j, y) = IF j = c THEN Rest(V, j, x) - a ELSE Rest(V, j, x)
<1> USE DEF Rising, Moves
<1>1. c \in 0 .. m /\ c - 1 \in 0 .. m /\ j \in 0 .. m /\ j - 1 \in 0 .. m
  OBVIOUS
<1> PICK q \in Nat, v \in Nat, g \in Nat, h \in Nat : q = V[j - 1] /\ v = V[j] /\ g = V[c - 1] /\ h = V[c]
  BY <1>1
<1>2. /\ j < c => v <= g
      /\ j = c => q = g /\ v = h
      /\ j > c => h <= q
      /\ q <= v
  <2>1. j < c => V[j] <= V[c - 1]
    <3>1. j < c => j <= c - 1
      OBVIOUS
    <3> QED BY <1>1, <3>1
  <2>2. j > c => V[c] <= V[j - 1]
    <3>1. j > c => c <= j - 1
      OBVIOUS
    <3> QED BY <1>1, <3>1
  <2>3. V[j - 1] <= V[j]
    <3>1. j - 1 <= j
      OBVIOUS
    <3> QED BY <1>1, <3>1
  <2> QED BY <2>1, <2>2, <2>3
<1>3. g <= x /\ x + a <= h /\ a > 0
  OBVIOUS
<1>4. Rest(V, j, x) = v - High(q, Low(v, x)) /\ Rest(V, j, y) = v - High(q, Low(v, x + a))
  BY DEF Rest
<1>5. CASE j = c
  <2>1. q = g /\ v = h
    BY <1>2, <1>5
  <2>2. v - High(q, Low(v, x + a)) = v - High(q, Low(v, x)) - a
    BY ONLY <1>3, <2>1, q \in Nat, v \in Nat, x \in Nat, a \in Nat DEF Low, High
  <2> QED BY <1>4, <1>5, <2>2
<1>6. CASE j # c
  <2>1. v <= x \/ x + a <= q
    BY <1>2, <1>3, <1>6
  <2>2. v - High(q, Low(v, x + a)) = v - High(q, Low(v, x))
    BY ONLY <1>2, <2>1, q \in Nat, v \in Nat, x \in Nat, a \in Nat DEF Low, High
  <2> QED BY <1>4, <1>6, <2>2
<1> QED BY <1>5, <1>6

\* Booking a row.
LEMMA ApplyFlows ==
    ASSUME NEW sources \in Seq(Slot), NEW claims \in Seq(Slot), NEW b \in Nat,
           NEW U, NEW V, Laid(b, sources, U), Laid(0, claims, V),
           NEW s \in Loops, ~Spent(s), NEW t \in Loops, NEW a \in Nat, Applies(s, t, a),
           NEW d \in 0 .. Len(sources), NEW x \in Nat, Flowing(sources, claims, U, V, s, d, x)
    PROVE  x + a \in Nat /\ Flowing(sources, claims, U, V, t, d, x + a)
<1> PICK n \in Nat, m \in Nat, c \in Nat \ {0} : n = Len(sources) /\ m = Len(claims) /\ c = s.claimIndex
  BY LoopShape
<1>1. /\ SourcesBeyond(sources, U, s.sources, d, x) /\ LeftBeyond(claims, V, s.claims, x)
      /\ \A j \in 0 .. m : j < c => V[j] <= x
      /\ AtEdge(U, V, d, n, c, m, x)
      /\ RowsUpto(sources, claims, U, V, s.rows, x)
  BY DEF Flowing
<1>2. /\ a > 0 /\ s.sources[1].remaining \in Nat \ {0} /\ s.claims[c].remaining \in Nat \ {0}
      /\ a = s.sources[1].remaining \/ a = s.claims[c].remaining
      /\ t.claimIndex = c
      /\ Lowered(s.sources, t.sources, 1, a)
      /\ Lowered(s.claims, t.claims, c, a)
      /\ t.rows = s.rows \cup {[source |-> s.sources[1].id, target |-> s.claims[c].id, amount |-> a]}
  BY DEF Applies
<1>3. Len(s.sources) = n - d /\ d < n /\ d \in Nat /\ c \in 1 .. m /\ Len(s.claims) = m
  <2>1. Len(s.sources) > 0 /\ Len(s.sources) \in Nat /\ c <= Len(s.claims)
    BY LoopShape
  <2> QED BY <1>1, <2>1 DEF SourcesBeyond, LeftBeyond
<1>4. d + 1 \in 0 .. n /\ d + 1 \in 1 .. n /\ c - 1 \in 0 .. m /\ c \in 0 .. m /\ c - 1 < c /\ c - 1 <= c
      /\ 1 \in 1 .. n - d
  BY <1>3
<1>5. /\ \A k \in 0 .. n : U[k] \in Nat
      /\ \A i, k \in 0 .. n : i <= k => U[i] <= U[k]
      /\ \A j \in 0 .. m : V[j] \in Nat
      /\ \A i, j \in 0 .. m : i <= j => V[i] <= V[j]
  BY DEF Laid, Rising
<1> PICK f \in Nat, g \in Nat, h \in Nat : f = U[d + 1] /\ g = V[c - 1] /\ h = V[c]
  BY <1>4, <1>5
<1>6. g <= x /\ g <= h
  BY <1>1, <1>4, <1>5
<1>7. s.sources[1].remaining = f - x /\ x < f
  <2>1. s.sources[1].remaining = f - x
    BY <1>1, <1>3 DEF SourcesBeyond
  <2>2. f - x # 0 /\ f - x >= 0
    BY <1>2, <2>1
  <2>3. x < f
    BY ONLY <2>2, f \in Nat, x \in Nat
  <2> QED BY <2>1, <2>3
<1>8. s.claims[c].remaining = h - x /\ x < h
  <2>1. s.claims[c].remaining = h - High(g, Low(h, x))
    BY <1>1, <1>3 DEF LeftBeyond, Rest
  <2>2. h - High(g, Low(h, x)) # 0
    BY <1>2, <2>1
  <2>3. x < h /\ h - High(g, Low(h, x)) = h - x
    BY ONLY <1>6, <2>2, h \in Nat, x \in Nat, g \in Nat DEF High, Low
  <2> QED BY <2>1, <2>3
<1>9. x + a <= f /\ x + a <= h /\ (x + a = f \/ x + a = h)
  <2>1. a = f - x \/ a = h - x
    BY <1>2, <1>7, <1>8
  <2>2. a <= f - x /\ a <= h - x
    <3>1. /\ t.sources[1].remaining = s.sources[1].remaining - a /\ t.claims[c].remaining = s.claims[c].remaining - a
          /\ Len(t.sources) = n - d /\ Len(t.claims) = m
      BY <1>2, <1>3, <1>4 DEF Lowered
    <3>2. t.sources[1].remaining \in Nat /\ t.claims[c].remaining \in Nat
      BY <1>3, <1>4, <3>1, LoopShape
    <3>3. f - x - a >= 0 /\ h - x - a >= 0
      BY <1>7, <1>8, <3>1, <3>2
    <3> QED BY ONLY <3>3, f \in Nat, h \in Nat, x \in Nat, a \in Nat
  <2> QED BY ONLY <2>1, <2>2, f \in Nat, h \in Nat, x \in Nat, a \in Nat
<1>10. U[d] <= x /\ (x = U[d] \/ x = V[c - 1])
  <2>1. x = U[d] \/ x = f \/ x = g \/ x = h
    BY <1>1, <1>3 DEF AtEdge
  <2> QED BY <1>1, <1>7, <1>8, <2>1 DEF SourcesBeyond
<1> PICK y \in Nat : y = x + a
  OBVIOUS
<1>m. Moves(n, m, U, V, d, c, x, a, y)
  BY <1>2, <1>3, <1>6, <1>9, <1>10 DEF Laid, Moves
<1>11. SourcesBeyond(sources, U, t.sources, d, y)
  <2>1. Len(t.sources) = n - d
    BY <1>2, <1>3 DEF Lowered
  <2>2. \A k \in 1 .. n - d : /\ t.sources[k].id = sources[d + k].id
                              /\ k > 1 => t.sources[k].remaining = sources[d + k].remaining
    <3> SUFFICES ASSUME NEW k \in 1 .. n - d
                 PROVE  /\ t.sources[k].id = sources[d + k].id
                        /\ k > 1 => t.sources[k].remaining = sources[d + k].remaining
      OBVIOUS
    <3>1. /\ t.sources[k].id = s.sources[k].id
          /\ k > 1 => t.sources[k].remaining = s.sources[k].remaining
      <4>1. k > 1 => k # 1
        OBVIOUS
      <4> QED BY <1>2, <1>3, <4>1 DEF Lowered
    <3>2. /\ s.sources[k].id = sources[d + k].id
          /\ k > 1 => s.sources[k].remaining = sources[d + k].remaining
      BY <1>1, <1>3 DEF SourcesBeyond
    <3> QED BY <3>1, <3>2
  <2>3. t.sources[1].remaining = f - (y)
    <3>1. t.sources[1].remaining = f - x - a
      BY <1>2, <1>3, <1>4, <1>7 DEF Lowered
    <3>2. f - x - a = f - (y)
      OBVIOUS
    <3> QED BY <3>1, <3>2
  <2>4. U[d] <= y
    BY <1>5, <1>10
  <2> QED BY <1>3, <1>9, <2>1, <2>2, <2>3, <2>4 DEF SourcesBeyond
<1>12. LeftBeyond(claims, V, t.claims, y)
  <2>1. Len(t.claims) = m
    BY <1>2, <1>3 DEF Lowered
  <2>2. ASSUME NEW j \in 1 .. m
        PROVE t.claims[j].id = claims[j].id /\ t.claims[j].remaining = Rest(V, j, y)
    <3>1. /\ t.claims[j].id = s.claims[j].id
          /\ t.claims[j].remaining = IF j = c THEN s.claims[j].remaining - a ELSE s.claims[j].remaining
      BY <1>2, <1>3 DEF Lowered
    <3>2. s.claims[j].id = claims[j].id /\ s.claims[j].remaining = Rest(V, j, x)
      BY <1>1 DEF LeftBeyond
    <3>3. Rest(V, j, y) = IF j = c THEN Rest(V, j, x) - a ELSE Rest(V, j, x)
      BY <1>m, LessIsLeft
    <3> QED BY <3>1, <3>2, <3>3
  <2> QED BY <2>1, <2>2 DEF LeftBeyond
<1>13. \A j \in 0 .. m : j < c => V[j] <= y
  <2> SUFFICES ASSUME NEW j \in 0 .. m, j < c PROVE V[j] <= y
    OBVIOUS
  <2>1. V[j] <= x /\ V[j] \in Nat
    BY <1>1, <1>5
  <2> QED BY <2>1
<1>14. AtEdge(U, V, d, n, c, m, y)
  BY <1>9 DEF AtEdge
<1>15. RowsUpto(sources, claims, U, V, t.rows, y)
  <2>1. ASSUME NEW k \in 1 .. n, NEW j \in 1 .. m
        PROVE  /\ k = d + 1 /\ j = c => Piece(U, V, k, j, y) = a /\ ~(Piece(U, V, k, j, x) > 0)
               /\ ~(k = d + 1 /\ j = c) =>
                      /\ Piece(U, V, k, j, x) > 0 <=> Piece(U, V, k, j, y) > 0
                      /\ Piece(U, V, k, j, x) > 0 => Piece(U, V, k, j, y) = Piece(U, V, k, j, x)
    <3>1. PieceMoves(U, V, d, c, x, a, y, k, j)
      BY <1>m, OnePieceMore
    <3> QED BY <3>1 DEF PieceMoves
  <2> PICK new : new = [source |-> s.sources[1].id, target |-> s.claims[c].id, amount |-> a]
    OBVIOUS
  <2>2. new = PieceRow(sources, claims, U, V, d + 1, c, y)
    <3>1. s.sources[1].id = sources[d + 1].id /\ s.claims[c].id = claims[c].id
      BY <1>1, <1>3, <1>4 DEF SourcesBeyond, LeftBeyond
    <3>2. Piece(U, V, d + 1, c, y) = a
      BY <1>3, <1>4, <2>1
    <3> QED BY <3>1, <3>2 DEF PieceRow
  <2>3. Piece(U, V, d + 1, c, y) > 0
    BY <1>2, <1>3, <1>4, <2>1
  <2>4. t.rows = s.rows \cup {new}
    BY <1>2
  <2>5. ASSUME NEW r \in t.rows
        PROVE \E k \in 1 .. n, j \in 1 .. m :
                  Piece(U, V, k, j, y) > 0 /\ r = PieceRow(sources, claims, U, V, k, j, y)
    <3>1. CASE r = new
      BY <1>3, <1>4, <2>2, <2>3, <3>1
    <3>2. CASE r \in s.rows
      <4>1. PICK k \in 1 .. n, j \in 1 .. m :
                Piece(U, V, k, j, x) > 0 /\ r = PieceRow(sources, claims, U, V, k, j, x)
        BY <1>1, <3>2 DEF RowsUpto
      <4>2. ~(k = d + 1 /\ j = c)
        BY <2>1, <4>1
      <4>3. Piece(U, V, k, j, y) > 0 /\ Piece(U, V, k, j, y) = Piece(U, V, k, j, x)
        BY <2>1, <4>1, <4>2
      <4> QED BY <4>1, <4>3 DEF PieceRow
    <3> QED BY <2>4, <3>1, <3>2
  <2>6. ASSUME NEW k \in 1 .. n, NEW j \in 1 .. m, Piece(U, V, k, j, y) > 0
        PROVE PieceRow(sources, claims, U, V, k, j, y) \in t.rows
    <3>1. CASE k = d + 1 /\ j = c
      BY <2>2, <2>4, <3>1
    <3>2. CASE ~(k = d + 1 /\ j = c)
      <4>1. Piece(U, V, k, j, x) > 0 /\ Piece(U, V, k, j, y) = Piece(U, V, k, j, x)
        BY <2>1, <2>6, <3>2
      <4>2. PieceRow(sources, claims, U, V, k, j, x) \in s.rows
        BY <1>1, <4>1 DEF RowsUpto
      <4> QED BY <2>4, <4>1, <4>2 DEF PieceRow
    <3> QED BY <3>1, <3>2
  <2> QED BY <2>5, <2>6 DEF RowsUpto
<1> QED BY <1>2, <1>11, <1>12, <1>13, <1>14, <1>15 DEF Flowing

\* Nothing flows beyond the end of the sources, or beyond the end of the claims.
LEMMA FlowEnds ==
    ASSUME NEW sources \in Seq(Slot), NEW claims \in Seq(Slot), NEW b \in Nat,
           NEW U, NEW V, Laid(b, sources, U), Laid(0, claims, V),
           NEW s \in Loops, Spent(s),
           NEW d \in 0 .. Len(sources), NEW x \in Nat, Flowing(sources, claims, U, V, s, d, x)
    PROVE  /\ RowsUpto(sources, claims, U, V, s.rows, U[Len(sources)])
           /\ LeftBeyond(claims, V, s.claims, U[Len(sources)])
<1> PICK n \in Nat, m \in Nat, z \in Nat : n = Len(sources) /\ m = Len(claims) /\ z = U[n]
  <2>1. Len(sources) \in Nat /\ Len(claims) \in Nat
    OBVIOUS
  <2>2. U[Len(sources)] \in Nat
    BY <2>1 DEF Laid, Rising
  <2> QED BY <2>1, <2>2
<1>1. /\ SourcesBeyond(sources, U, s.sources, d, x) /\ LeftBeyond(claims, V, s.claims, x)
      /\ \A j \in 0 .. m : j < s.claimIndex => V[j] <= x
      /\ RowsUpto(sources, claims, U, V, s.rows, x)
  BY DEF Flowing
<1>2. x <= z
  <2>1. CASE d < n
    <3>1. x <= U[d + 1] /\ U[d + 1] <= U[n] /\ U[d + 1] \in Nat
      <4>1. d + 1 \in 0 .. n /\ n \in 0 .. n /\ d + 1 <= n
        BY <2>1
      <4> QED BY <1>1, <2>1, <4>1 DEF SourcesBeyond, Laid, Rising
    <3> QED BY <3>1
  <2>2. CASE ~(d < n)
    <3>1. d = n
      BY <2>2
    <3> QED BY <1>1, <3>1 DEF SourcesBeyond
  <2> QED BY <2>1, <2>2
<1>3. x = z \/ \A j \in 1 .. m : V[j] <= x
  <2>1. CASE s.sources = <<>>
    <3>1. Len(s.sources) = 0 /\ Len(s.sources) = n - d
      BY <1>1, <2>1 DEF SourcesBeyond
    <3>2. d = n
      BY <3>1
    <3> QED BY <1>1, <3>2 DEF SourcesBeyond
  <2>2. CASE s.claimIndex > Len(s.claims)
    <3>1. Len(s.claims) = m /\ s.claimIndex \in Nat
      BY <1>1, LoopShape DEF LeftBeyond
    <3>2. \A j \in 1 .. m : j \in 0 .. m /\ j < s.claimIndex
      BY <2>2, <3>1
    <3> QED BY <1>1, <3>2
  <2> QED BY <2>1, <2>2 DEF Spent
<1>4. ASSUME NEW j \in 1 .. m PROVE V[j] \in Nat /\ V[j - 1] \in Nat /\ V[j - 1] <= V[j]
  <2>1. j \in 0 .. m /\ j - 1 \in 0 .. m /\ j - 1 <= j
    OBVIOUS
  <2> QED BY <2>1 DEF Laid, Rising
<1>5. ASSUME NEW k \in 1 .. n PROVE U[k] \in Nat /\ U[k - 1] \in Nat
  <2>1. k \in 0 .. n /\ k - 1 \in 0 .. n
    OBVIOUS
  <2> QED BY <2>1 DEF Laid, Rising
<1>6. ASSUME NEW k \in 1 .. n, NEW j \in 1 .. m PROVE Piece(U, V, k, j, x) = Piece(U, V, k, j, z)
  <2> PICK u \in Nat, v \in Nat : u = U[k] /\ v = V[j]
    BY <1>4, <1>5
  <2>1. Low(Low(u, v), x) = Low(Low(u, v), z)
    <3>1. x = z \/ v <= x
      BY <1>3
    <3> QED BY ONLY <1>2, <3>1, u \in Nat, v \in Nat, x \in Nat, z \in Nat DEF Low
  <2> QED BY <2>1 DEF Piece
<1>7. ASSUME NEW j \in 1 .. m PROVE Rest(V, j, x) = Rest(V, j, z)
  <2> PICK v \in Nat : v = V[j]
    BY <1>4
  <2>1. Low(v, x) = Low(v, z)
    <3>1. x = z \/ v <= x
      BY <1>3
    <3> QED BY ONLY <1>2, <3>1, v \in Nat, x \in Nat, z \in Nat DEF Low
  <2> QED BY <2>1 DEF Rest
<1>8. ASSUME NEW k \in 1 .. n, NEW j \in 1 .. m
      PROVE PieceRow(sources, claims, U, V, k, j, x) = PieceRow(sources, claims, U, V, k, j, z)
  BY <1>6 DEF PieceRow
<1>9. RowsUpto(sources, claims, U, V, s.rows, z)
  <2>1. ASSUME NEW r \in s.rows
        PROVE \E k \in 1 .. n, j \in 1 .. m :
                  Piece(U, V, k, j, z) > 0 /\ r = PieceRow(sources, claims, U, V, k, j, z)
    <3>1. PICK k \in 1 .. n, j \in 1 .. m :
              Piece(U, V, k, j, x) > 0 /\ r = PieceRow(sources, claims, U, V, k, j, x)
      BY <1>1 DEF RowsUpto
    <3> QED BY <1>6, <1>8, <3>1
  <2>2. ASSUME NEW k \in 1 .. n, NEW j \in 1 .. m, Piece(U, V, k, j, z) > 0
        PROVE PieceRow(sources, claims, U, V, k, j, z) \in s.rows
    <3>1. PieceRow(sources, claims, U, V, k, j, x) \in s.rows
      BY <1>1, <1>6, <2>2 DEF RowsUpto
    <3> QED BY <1>8, <3>1
  <2> QED BY <2>1, <2>2 DEF RowsUpto
<1>10. LeftBeyond(claims, V, s.claims, z)
  BY <1>1, <1>7 DEF LeftBeyond
<1> QED BY <1>9, <1>10

\* What Drain makes of claims of which the money up to b has taken its part.
LEMMA DrainFlows ==
    ASSUME NEW sources \in Seq(Slot), NEW claims \in Seq(Slot), NEW b \in Nat,
           NEW U, NEW V, Laid(b, sources, U), Laid(0, claims, V),
           NEW left \in Seq(Slot), LeftBeyond(claims, V, left, b),
           NEW end, end = Drain(sources, left)
    PROVE  /\ end.claims \in Seq(Slot)
           /\ RowsUpto(sources, claims, U, V, end.rows, U[Len(sources)])
           /\ LeftBeyond(claims, V, end.claims, U[Len(sources)])
<1> DEFINE F(s) == \E d \in 0 .. Len(sources), x \in Nat : Flowing(sources, claims, U, V, s, d, x)
           I == {s \in Loops : F(s)}
           s0 == [sources |-> sources, claims |-> left, claimIndex |-> 1, rows |-> {}]
<1> PICK n \in Nat, m \in Nat : n = Len(sources) /\ m = Len(claims)
  OBVIOUS
<1>1. s0 \in Loops
  BY DEF Loops
<1>2. Flowing(sources, claims, U, V, s0, 0, b)
  <2>1. U[0] = b /\ V[0] = 0
    BY DEF Laid
  <2>2. SourcesBeyond(sources, U, sources, 0, b)
    <3>1. Len(sources) = n - 0 /\ \A k \in 1 .. n : 0 + k = k
      OBVIOUS
    <3>2. 0 < n => sources[1].remaining = U[0 + 1] - b /\ b <= U[0 + 1]
      <4> SUFFICES ASSUME 0 < n PROVE sources[1].remaining = U[1] - b /\ b <= U[1]
        OBVIOUS
      <4>1. 1 \in 1 .. n /\ 1 \in 0 .. n /\ 1 - 1 = 0
        OBVIOUS
      <4>2. U[1] = U[0] + sources[1].remaining /\ U[1] \in Nat
        BY <4>1 DEF Laid, Rising
      <4>3. sources[1].remaining \in Nat
        <5>1. sources[1] \in Slot
          BY <4>1
        <5> QED BY <5>1 DEF Slot
      <4> PICK a \in Nat, u \in Nat : a = sources[1].remaining /\ u = U[1]
        BY <4>2, <4>3
      <4>4. u = b + a
        BY <2>1, <4>2
      <4>5. a = u - b /\ b <= u
        BY ONLY <4>4, a \in Nat, u \in Nat, b \in Nat
      <4> QED BY <4>5
    <3> QED BY <2>1, <3>1, <3>2 DEF SourcesBeyond
  <2>3. \A j \in 0 .. m : j < 1 => V[j] <= b
    BY <2>1
  <2>4. AtEdge(U, V, 0, n, 1, m, b)
    BY <2>1 DEF AtEdge
  <2>5. RowsUpto(sources, claims, U, V, {}, b)
    <3>1. ASSUME NEW k \in 1 .. n, NEW j \in 1 .. m PROVE ~(Piece(U, V, k, j, b) > 0)
      <4>1. /\ k \in 0 .. n /\ k - 1 \in 0 .. n /\ 0 \in 0 .. n /\ 0 <= k - 1
            /\ j \in 0 .. m /\ j - 1 \in 0 .. m
        OBVIOUS
      <4>2. U[0] <= U[k - 1] /\ U[k - 1] \in Nat /\ U[k] \in Nat /\ V[j] \in Nat /\ V[j - 1] \in Nat
        BY <4>1 DEF Laid, Rising
      <4> PICK p \in Nat, q \in Nat, u \in Nat, v \in Nat : p = U[k - 1] /\ q = V[j - 1] /\ u = U[k] /\ v = V[j]
        BY <4>2
      <4>3. b <= p
        BY <2>1, <4>2
      <4>4. ~(Low(Low(u, v), b) - High(p, q) > 0)
        BY ONLY <4>3, p \in Nat, q \in Nat, u \in Nat, v \in Nat, b \in Nat DEF Low, High
      <4> QED BY <4>4 DEF Piece
    <3> QED BY <3>1 DEF RowsUpto
  <2> QED BY <2>2, <2>3, <2>4, <2>5 DEF Flowing
<1>3. s0 \in I
  <2>1. 0 \in 0 .. Len(sources)
    OBVIOUS
  <2> HIDE DEF s0
  <2> QED BY <1>1, <1>2, <2>1
<1>4. ASSUME NEW s \in I, ~Spent(s) PROVE AllocationRound(s) \in I
  <2>1. s \in Loops
    OBVIOUS
  <2> PICK d \in 0 .. Len(sources), x \in Nat : Flowing(sources, claims, U, V, s, d, x)
    OBVIOUS
  <2> PICK t : t = AllocationRound(s)
    OBVIOUS
  <2>2. t \in Loops /\ (Drops(s, t) \/ Passes(s, t) \/ \E a \in Nat : Applies(s, t, a))
    BY <1>4, <2>1, RoundEffect
  <2>3. CASE Drops(s, t)
    <3>1. d + 1 \in 0 .. Len(sources) /\ Flowing(sources, claims, U, V, t, d + 1, x)
      BY <1>4, <2>1, <2>2, <2>3, DropFlows
    <3> QED BY <2>2, <3>1
  <2>4. CASE Passes(s, t)
    <3>1. Flowing(sources, claims, U, V, t, d, x)
      BY <1>4, <2>1, <2>2, <2>4, PassFlows
    <3> QED BY <2>2, <3>1
  <2>5. CASE \E a \in Nat : Applies(s, t, a)
    <3>1. PICK a \in Nat : Applies(s, t, a)
      BY <2>5
    <3>2. x + a \in Nat /\ Flowing(sources, claims, U, V, t, d, x + a)
      BY <1>4, <2>1, <2>2, <3>1, ApplyFlows
    <3> QED BY <2>2, <3>2
  <2> QED BY <2>2, <2>3, <2>4, <2>5
<1>5. end \in I /\ Spent(end)
  <2>1. end = Run[s0]
    BY DEF Drain
  <2>2. I \subseteq Loops
    OBVIOUS
  <2> HIDE DEF I, s0
  <2> QED BY <1>3, <1>4, <2>1, <2>2, RunKeeps
<1>6. end \in Loops /\ F(end)
  BY <1>5
<1>7. PICK d \in 0 .. Len(sources), x \in Nat : Flowing(sources, claims, U, V, end, d, x)
  BY <1>6
<1>8. end.claims \in Seq(Slot)
  BY <1>6, LoopShape
<1> HIDE DEF I, F, s0
<1> QED BY <1>5, <1>6, <1>7, <1>8, FlowEnds

\* Ends of slots rise.
LEMMA EndsRise ==
    ASSUME NEW n \in Nat, NEW U, \A k \in 0 .. n : U[k] \in Nat,
           \A k \in 1 .. n : U[k - 1] <= U[k]
    PROVE  Rising(n, U)
<1> DEFINE G == {k \in Nat : k <= n => \A i \in 0 .. k : U[i] <= U[k]}
<1>1. 0 \in G
  <2>1. \A i \in 0 .. 0 : i = 0
    OBVIOUS
  <2>2. U[0] \in Nat
    OBVIOUS
  <2> QED BY <2>1, <2>2
<1>2. ASSUME NEW k \in Nat, k \in G PROVE k + 1 \in G
  <2> SUFFICES ASSUME k + 1 <= n, NEW i \in 0 .. k + 1 PROVE U[i] <= U[k + 1]
    OBVIOUS
  <2>1. k \in 0 .. n /\ k + 1 \in 0 .. n /\ k + 1 \in 1 .. n /\ i \in 0 .. n /\ k <= n /\ (k + 1) - 1 = k
    OBVIOUS
  <2>2. U[k] <= U[k + 1] /\ U[k] \in Nat /\ U[k + 1] \in Nat /\ U[i] \in Nat
    BY <2>1
  <2>3. CASE i = k + 1
    BY <2>2, <2>3
  <2>4. CASE i # k + 1
    <3>1. i \in 0 .. k
      BY <2>4
    <3>2. U[i] <= U[k]
      BY <1>2, <2>1, <3>1
    <3> QED BY <2>2, <3>2
  <2> QED BY <2>3, <2>4
<1>3. Nat \subseteq G
  <2> HIDE DEF G
  <2> QED BY <1>1, <1>2, NumberInduction
<1>4. ASSUME NEW i \in 0 .. n, NEW k \in 0 .. n, i <= k PROVE U[i] <= U[k]
  <2>1. k \in G
    BY <1>3
  <2>2. k <= n /\ i \in 0 .. k
    BY <1>4
  <2> QED BY <2>1, <2>2
<1> QED BY <1>4 DEF Rising

\* Upto lays the slots of a queue end to end.
LEMMA UptoLays ==
    ASSUME NEW slots \in Seq(Slot), NEW U, U = [i \in 0 .. Len(slots) |-> Upto(slots, i)]
    PROVE  Laid(0, slots, U)
<1> PICK n \in Nat : n = Len(slots)
  OBVIOUS
<1> PICK w : w = [i \in DOMAIN slots |-> slots[i].remaining]
  OBVIOUS
<1>1. \A i \in 1 .. n : w[i] = slots[i].remaining /\ w[i] \in Nat
  <2> SUFFICES ASSUME NEW i \in 1 .. n PROVE w[i] = slots[i].remaining /\ w[i] \in Nat
    OBVIOUS
  <2>1. slots[i] \in Slot
    OBVIOUS
  <2> QED BY <2>1 DEF Slot
<1>2. \A i \in 0 .. n : U[i] = Total(w, 1 .. i)
  BY DEF Upto, Total
<1>3. U[0] = 0
  <2>1. 1 .. 0 = {} /\ 0 \in 0 .. n
    OBVIOUS
  <2> QED BY <1>2, <2>1, SumEmpty
<1>4. ASSUME NEW k \in 0 .. n PROVE U[k] \in Nat
  <2> PICK N : N = 1 .. k
    OBVIOUS
  <2>a. \A x \in N : x \in 1 .. n
    OBVIOUS
  <2>f. IsFiniteSet(N)
    <3>1. k \in Int /\ 1 \in Int
      OBVIOUS
    <3> QED BY <3>1, FS_Interval
  <2>1. IsFiniteSet(N) /\ \A x \in N : w[x] \in Nat
    BY <1>1, <2>a, <2>f
  <2>2. Total(w, N) \in Nat
    BY ONLY <2>1, SumNat
  <2> QED BY <1>2, <2>2
<1>5. ASSUME NEW k \in 1 .. n PROVE U[k] = U[k - 1] + slots[k].remaining
  <2> PICK N : N = 1 .. k - 1
    OBVIOUS
  <2>a. (\A x \in N : x \in 1 .. n) /\ k \notin N
    OBVIOUS
  <2>f. IsFiniteSet(N)
    <3>1. k - 1 \in Int /\ 1 \in Int
      OBVIOUS
    <3> QED BY <3>1, FS_Interval
  <2>g. \A x \in Nat : x \in Int
    OBVIOUS
  <2>1. IsFiniteSet(N) /\ (\A x \in N : w[x] \in Int) /\ k \notin N /\ w[k] \in Int
    BY <1>1, <2>a, <2>f, <2>g
  <2>2. Total(w, N \cup {k}) = Total(w, N) + w[k]
    BY ONLY <2>1, SumAdd
  <2>3. N \cup {k} = 1 .. k /\ k \in 0 .. n /\ k - 1 \in 0 .. n
    OBVIOUS
  <2> QED BY <1>1, <1>2, <2>2, <2>3
<1>6. ASSUME NEW k \in 1 .. n PROVE U[k - 1] <= U[k]
  <2>1. U[k] = U[k - 1] + w[k] /\ w[k] \in Nat
    BY <1>1, <1>5
  <2>2. U[k - 1] \in Nat
    <3>1. k - 1 \in 0 .. n
      OBVIOUS
    <3> QED BY <1>4, <3>1
  <2> QED BY <2>1, <2>2
<1>7. Rising(n, U)
  BY <1>4, <1>6, EndsRise
<1> QED BY <1>3, <1>5, <1>7 DEF Laid

\* The lesser and the greater of two numbers.
LEMMA OfTwo ==
    ASSUME NEW a \in Nat, NEW b \in Nat
    PROVE  Min({a, b}) = Low(a, b) /\ Max({a, b}) = High(a, b)
<1>1. Min({a, b}) \in {a, b} /\ \A z \in {a, b} : Min({a, b}) <= z
  BY LeastNumber
<1>2. Max({a, b}) \in {a, b} /\ \A z \in {a, b} : Max({a, b}) >= z
  <2>1. \E x \in {a, b} : \A y \in {a, b} : x >= y
    <3>1. CASE a <= b
      BY <3>1
    <3>2. CASE b <= a
      BY <3>2
    <3> QED BY <3>1, <3>2
  <2> QED BY <2>1 DEF Max
<1> PICK p, q : p = Min({a, b}) /\ q = Max({a, b})
  OBVIOUS
<1>3. (p = a \/ p = b) /\ p <= a /\ p <= b /\ (q = a \/ q = b) /\ q >= a /\ q >= b
  BY <1>1, <1>2
<1>4. p = Low(a, b) /\ q = High(a, b)
  BY <1>3 DEF Low, High
<1> QED BY <1>4

\* The queue whose k-th slot ends at U[k].
Ends(slots, U) == U = [k \in 0 .. Len(slots) |-> Upto(slots, k)]

(***************************************************************************)
(* The money holds the slots from o on, and the rows are the pieces of     *)
(* those slots: then they are the overlaps of that part of the money.      *)
(***************************************************************************)
PartOf(money, slots, o, W, U) ==
    /\ o \in Nat /\ o + Len(slots) <= Len(money)
    /\ \A k \in 1 .. Len(slots) : money[o + k] = slots[k]
    /\ \A k \in 0 .. Len(slots) : U[k] = W[o + k]

Flowed(money, claims, slots, o, W, V, U, rows, P) ==
    /\ money \in Seq(Slot) /\ claims \in Seq(Slot) /\ slots \in Seq(Slot)
    /\ Ends(money, W) /\ Ends(claims, V) /\ PartOf(money, slots, o, W, U)
    /\ RowsUpto(slots, claims, U, V, rows, U[Len(slots)])
    /\ P = o + 1 .. o + Len(slots)

LEMMA PiecesAreOverlaps ==
    ASSUME NEW money, NEW claims, NEW slots, NEW o, NEW W, NEW V, NEW U, NEW rows, NEW P,
           Flowed(money, claims, slots, o, W, V, U, rows, P)
    PROVE  rows = ReferenceRows(money, claims, P)
<1>a. /\ money \in Seq(Slot) /\ claims \in Seq(Slot) /\ slots \in Seq(Slot)
      /\ Ends(money, W) /\ Ends(claims, V) /\ PartOf(money, slots, o, W, U)
      /\ RowsUpto(slots, claims, U, V, rows, U[Len(slots)])
      /\ P = o + 1 .. o + Len(slots)
  BY DEF Flowed
<1> USE <1>a
<1> PICK n \in Nat, m \in Nat, l \in Nat : n = Len(slots) /\ m = Len(claims) /\ l = Len(money)
  <2>1. Len(slots) \in Nat /\ Len(claims) \in Nat /\ Len(money) \in Nat
    OBVIOUS
  <2> QED BY <2>1
<1> PICK z : z = U[n]
  OBVIOUS
<1>0. /\ W = [i \in 0 .. Len(money) |-> Upto(money, i)]
      /\ V = [j \in 0 .. Len(claims) |-> Upto(claims, j)]
  BY DEF Ends
<1>1. Laid(0, money, W) /\ Laid(0, claims, V)
  BY <1>0, UptoLays
<1>2. o \in Nat /\ o + n <= l /\ z = W[o + n] /\ z \in Nat
  <2>1. o \in Nat /\ o + n <= l /\ n \in 0 .. n
    BY DEF PartOf
  <2>2. o + n \in 0 .. l
    BY <2>1
  <2> QED BY <1>1, <2>1, <2>2 DEF PartOf, Laid, Rising
<1>3. ASSUME NEW k \in 1 .. n, NEW j \in 1 .. m
      PROVE  /\ Overlap(money, claims, o + k, j) = Piece(U, V, k, j, z)
             /\ money[o + k] = slots[k]
  <2>1. /\ o + k \in 0 .. l /\ (o + k) - 1 \in 0 .. l /\ o + n \in 0 .. l /\ o + k <= o + n
        /\ k \in 0 .. n /\ k - 1 \in 0 .. n /\ o + (k - 1) = (o + k) - 1
        /\ j \in 0 .. m /\ j - 1 \in 0 .. m
    BY <1>2
  <2>2. /\ U[k] = W[o + k] /\ U[k - 1] = W[(o + k) - 1]
        /\ W[o + k] \in Nat /\ W[(o + k) - 1] \in Nat /\ V[j] \in Nat /\ V[j - 1] \in Nat
        /\ W[o + k] <= z
    BY <1>1, <1>2, <2>1 DEF PartOf, Laid, Rising
  <2> PICK p \in Nat, q \in Nat, u \in Nat, v \in Nat : p = U[k - 1] /\ q = V[j - 1] /\ u = U[k] /\ v = V[j]
    BY <2>2
  <2>3. /\ Upto(money, o + k) = u /\ Upto(money, (o + k) - 1) = p
        /\ Upto(claims, j) = v /\ Upto(claims, j - 1) = q
    BY <1>0, <2>1, <2>2
  <2>4. Overlap(money, claims, o + k, j) = Low(u, v) - High(p, q)
    BY <2>3, OfTwo DEF Overlap
  <2>5. Piece(U, V, k, j, z) = Low(Low(u, v), z) - High(p, q)
    BY DEF Piece
  <2>6. Low(Low(u, v), z) = Low(u, v)
    <3>1. u <= z
      BY <2>2
    <3> QED BY ONLY <1>2, <3>1, u \in Nat, v \in Nat DEF Low
  <2> QED BY <2>4, <2>5, <2>6 DEF PartOf
<1>4. P = {o + k : k \in 1 .. n}
  <2>1. ASSUME NEW i \in P PROVE \E k \in 1 .. n : i = o + k
    <3>1. i - o \in 1 .. n /\ i = o + (i - o)
      BY <1>2
    <3> QED BY <3>1
  <2>2. \A k \in 1 .. n : o + k \in P
    BY <1>2
  <2> QED BY <2>1, <2>2
<1>5. DOMAIN claims = 1 .. m
  OBVIOUS
<1>6. ASSUME NEW r \in rows PROVE r \in ReferenceRows(money, claims, P)
  <2>1. PICK k \in 1 .. n, j \in 1 .. m : Piece(U, V, k, j, z) > 0 /\ r = PieceRow(slots, claims, U, V, k, j, z)
    BY DEF RowsUpto
  <2> PICK x : x = <<o + k, j>>
    OBVIOUS
  <2>2. x \in P \X DOMAIN claims /\ x[1] = o + k /\ x[2] = j
    BY <1>4, <1>5
  <2>3. /\ Overlap(money, claims, x[1], x[2]) > 0
        /\ r = [source |-> money[x[1]].id, target |-> claims[x[2]].id,
                amount |-> Overlap(money, claims, x[1], x[2])]
    BY <1>3, <2>1, <2>2 DEF PieceRow
  <2> QED BY <2>2, <2>3 DEF ReferenceRows
<1>7. ASSUME NEW r \in ReferenceRows(money, claims, P) PROVE r \in rows
  <2>1. PICK x \in P \X DOMAIN claims :
            /\ Overlap(money, claims, x[1], x[2]) > 0
            /\ r = [source |-> money[x[1]].id, target |-> claims[x[2]].id,
                    amount |-> Overlap(money, claims, x[1], x[2])]
    BY DEF ReferenceRows
  <2>2. PICK k \in 1 .. n, j \in 1 .. m : x[1] = o + k /\ x[2] = j
    BY <1>4, <1>5
  <2>3. Piece(U, V, k, j, z) > 0 /\ r = PieceRow(slots, claims, U, V, k, j, z)
    BY <1>3, <2>1, <2>2 DEF PieceRow
  <2> QED BY <2>3 DEF RowsUpto
<1> QED BY <1>6, <1>7

\* Part of a queue is laid end to end as it is within the whole.
LEMMA PartLaid ==
    ASSUME NEW money \in Seq(Slot), NEW W, Laid(0, money, W),
           NEW slots \in Seq(Slot), NEW o, NEW U, PartOf(money, slots, o, W, U)
    PROVE  Laid(W[o], slots, U) /\ W[o] \in Nat
<1> PICK n \in Nat, l \in Nat : n = Len(slots) /\ l = Len(money)
  <2>1. Len(slots) \in Nat /\ Len(money) \in Nat
    OBVIOUS
  <2> QED BY <2>1
<1>1. /\ o \in Nat /\ o + n <= l
      /\ \A k \in 1 .. n : money[o + k] = slots[k]
      /\ \A k \in 0 .. n : U[k] = W[o + k]
  BY DEF PartOf
<1>2. Rising(l, W) /\ \A k \in 1 .. l : W[k] = W[k - 1] + money[k].remaining
  BY DEF Laid
<1>3. \A k \in 0 .. n : o + k \in 0 .. l
  BY <1>1
<1>4. Rising(n, U)
  <2>1. \A i, k \in 0 .. n : i <= k => o + i <= o + k
    BY <1>1
  <2> QED BY <1>1, <1>2, <1>3, <2>1 DEF Rising
<1>5. U[0] = W[o] /\ W[o] \in Nat
  <2>1. 0 \in 0 .. n /\ o + 0 = o
    BY <1>1
  <2> QED BY <1>1, <1>4, <2>1 DEF Rising
<1>6. ASSUME NEW k \in 1 .. n PROVE U[k] = U[k - 1] + slots[k].remaining
  <2>1. o + k \in 1 .. l /\ (o + k) - 1 = o + (k - 1) /\ k \in 0 .. n /\ k - 1 \in 0 .. n
    BY <1>1
  <2>2. W[o + k] = W[(o + k) - 1] + money[o + k].remaining
    BY <1>2, <2>1
  <2> QED BY <1>1, <2>1, <2>2
<1> QED BY <1>4, <1>5, <1>6 DEF Laid

\* Before any money flows, all of every claim is left.
LEMMA AllIsLeft ==
    ASSUME NEW claims \in Seq(Slot), NEW V, Laid(0, claims, V)
    PROVE  LeftBeyond(claims, V, claims, 0)
<1> SUFFICES ASSUME NEW j \in 1 .. Len(claims) PROVE claims[j].remaining = Rest(V, j, 0)
  BY DEF LeftBeyond
<1> PICK m \in Nat : m = Len(claims)
  OBVIOUS
<1>1. j \in 0 .. m /\ j - 1 \in 0 .. m /\ j - 1 <= j
  OBVIOUS
<1>2. V[j] = V[j - 1] + claims[j].remaining /\ V[j] \in Nat /\ V[j - 1] \in Nat
  BY <1>1 DEF Laid, Rising
<1>3. claims[j].remaining \in Nat
  <2>1. claims[j] \in Slot
    OBVIOUS
  <2> QED BY <2>1 DEF Slot
<1> PICK a \in Nat, p \in Nat, q \in Nat : a = claims[j].remaining /\ p = V[j - 1] /\ q = V[j]
  BY <1>2, <1>3
<1>4. q = p + a
  BY <1>2
<1>5. a = q - High(p, Low(q, 0))
  BY ONLY <1>4, a \in Nat, p \in Nat, q \in Nat DEF High, Low
<1> QED BY <1>5 DEF Rest

(***************************************************************************)
(* Whatever the claim entries and the payments, RebuildPaymentAllocations  *)
(* returns exactly the overlaps of the money with the claims: every row,   *)
(* its amount, and no other.                                               *)
(***************************************************************************)
THEOREM RebuildIsReference ==
    ASSUME NEW entries, EntriesFit(entries), NEW pays, PaysFit(pays)
    PROVE  RebuildPaymentAllocations(entries, pays) = ReferenceAllocations(entries, pays)
<1> PICK before, claims, queue :
        before = Adjustments(entries) /\ claims = Claims(entries) /\ queue = PaymentQueue(pays)
  OBVIOUS
<1>1. before \in Seq(Slot) /\ claims \in Seq(Slot)
  <2>1. PICK sign \in Int : sign = -1
    OBVIOUS
  <2>2. before = SignedClaims(entries, sign) /\ claims = SignedClaims(entries, 1)
    BY <2>1 DEF Adjustments, Claims
  <2>3. ClaimQueue(entries, sign, before)
    BY <2>2, ClaimsAre
  <2>4. ClaimQueue(entries, 1, claims)
    BY <2>2, ClaimsAre
  <2> QED BY <2>3, <2>4 DEF ClaimQueue
<1>2. queue \in Seq(Slot)
  BY QueueIs DEF PayQueue
<1> PICK na \in Nat, nq \in Nat : na = Len(before) /\ nq = Len(queue)
  <2>1. Len(before) \in Nat /\ Len(queue) \in Nat
    BY <1>1, <1>2
  <2> QED BY <2>1
<1> PICK money : money = before \o queue
  OBVIOUS
<1>3. money \in Seq(Slot) /\ Len(money) = na + nq
  BY <1>1, <1>2
<1>4. /\ \A k \in 1 .. na : money[0 + k] = before[k]
      /\ \A k \in 1 .. nq : money[na + k] = queue[k]
  BY <1>1, <1>2
<1> PICK W, V : Ends(money, W) /\ Ends(claims, V)
  BY DEF Ends
<1>5. Laid(0, money, W) /\ Laid(0, claims, V)
  BY <1>1, <1>3, UptoLays DEF Ends
<1> PICK U, T : /\ U = [k \in 0 .. na |-> W[0 + k]]
                /\ T = [k \in 0 .. nq |-> W[na + k]]
  OBVIOUS
<1>6. PartOf(money, before, 0, W, U)
  <2>1. 0 + na <= na + nq /\ 0 \in Nat
    OBVIOUS
  <2>2. \A k \in 0 .. na : U[k] = W[0 + k]
    OBVIOUS
  <2> QED BY <1>3, <1>4, <2>1, <2>2 DEF PartOf
<1>7. PartOf(money, queue, na, W, T)
  <2>1. na + nq <= na + nq
    OBVIOUS
  <2>2. \A k \in 0 .. nq : T[k] = W[na + k]
    OBVIOUS
  <2> QED BY <1>3, <1>4, <2>1, <2>2 DEF PartOf
<1>8. W[0] = 0
  BY <1>5 DEF Laid
<1>9. Laid(0, before, U)
  <2>1. Laid(W[0], before, U)
    BY <1>1, <1>3, <1>5, <1>6, PartLaid
  <2> QED BY <1>8, <2>1
<1>10. Laid(W[na], queue, T) /\ W[na] \in Nat
  BY <1>2, <1>3, <1>5, <1>7, PartLaid
<1>11. U[na] = W[na] /\ T[nq] = W[na + nq]
  <2>1. na \in 0 .. na /\ nq \in 0 .. nq /\ 0 + na = na
    OBVIOUS
  <2> QED BY <1>6, <1>7, <2>1 DEF PartOf
<1> PICK corrected, paid : /\ corrected = Drain(before, claims)
                           /\ paid = Drain(queue, corrected.claims)
  OBVIOUS
<1>12. LeftBeyond(claims, V, claims, 0)
  BY <1>1, <1>5, AllIsLeft
<1>13. /\ corrected.claims \in Seq(Slot)
       /\ RowsUpto(before, claims, U, V, corrected.rows, U[Len(before)])
       /\ LeftBeyond(claims, V, corrected.claims, U[Len(before)])
  <2>1. 0 \in Nat
    OBVIOUS
  <2> QED BY <1>1, <1>5, <1>9, <1>12, <2>1, DrainFlows
<1>14. LeftBeyond(claims, V, corrected.claims, W[na])
  BY <1>11, <1>13
<1>15. RowsUpto(queue, claims, T, V, paid.rows, T[Len(queue)])
  <2> PICK b \in Nat : b = W[na]
    BY <1>10
  <2> PICK left : left = corrected.claims
    OBVIOUS
  <2>1. Laid(b, queue, T) /\ LeftBeyond(claims, V, left, b) /\ left \in Seq(Slot) /\ paid = Drain(queue, left)
    BY <1>10, <1>13, <1>14
  <2>2. Laid(0, claims, V)
    BY <1>5
  <2> QED BY <1>1, <1>2, <2>1, <2>2, DrainFlows
<1>16. corrected.rows = ReferenceRows(money, claims, 1 .. na)
  <2>1. 1 .. na = 0 + 1 .. 0 + Len(before)
    OBVIOUS
  <2>2. Flowed(money, claims, before, 0, W, V, U, corrected.rows, 1 .. na)
    BY <1>1, <1>3, <1>6, <1>13, <2>1 DEF Flowed
  <2> QED BY <2>2, PiecesAreOverlaps
<1>17. paid.rows = ReferenceRows(money, claims, na + 1 .. Len(money))
  <2>1. na + 1 .. Len(money) = na + 1 .. na + Len(queue)
    BY <1>3
  <2>2. Flowed(money, claims, queue, na, W, V, T, paid.rows, na + 1 .. Len(money))
    BY <1>1, <1>2, <1>3, <1>7, <1>15, <2>1 DEF Flowed
  <2> QED BY <2>2, PiecesAreOverlaps
<1>19. RebuildPaymentAllocations(entries, pays) = [corrections |-> corrected.rows, payments |-> paid.rows]
  BY DEF RebuildPaymentAllocations
<1>20. ReferenceAllocations(entries, pays) =
           [corrections |-> ReferenceRows(money, claims, 1 .. na),
            payments    |-> ReferenceRows(money, claims, na + 1 .. Len(money))]
  BY DEF ReferenceAllocations, Money
<1> QED BY <1>16, <1>17, <1>19, <1>20

\* The inputs the runs grow are inputs the ledger can hold.
InputsInv ==
    /\ sums \in [Periods -> Int]
    /\ PaysFit(income)

\* The entries of finitely many periods are entries the rebuild is stated for.
LEMMA EntriesGrow ==
    ASSUME sums \in [Periods -> Int]
    PROVE  EntriesFit(Entries)
<1> DEFINE f == [p \in Periods |-> [period |-> p, amount |-> sums[p]]]
<1>1. Entries = {f[p] : p \in Periods}
  BY DEF Entries
<1>2. IsFiniteSet({f[p] : p \in Periods})
  <2> HIDE DEF f
  <2> QED BY FiniteImage, AllocationCheckAssumption
<1>3. ASSUME NEW e \in Entries PROVE e.period \in Nat /\ e.amount \in Int
  BY AllocationCheckAssumption DEF Entries
<1> QED BY <1>1, <1>2, <1>3 DEF EntriesFit

(***************************************************************************)
(* In every state the inputs can grow to, for every number of periods and  *)
(* payments, the rebuild of ledger/allocation.go is its reference.         *)
(***************************************************************************)
THEOREM RebuildsMatch == AllocationSpec => []RebuildMatchesReference
<1>1. AllocationInit => InputsInv
  <2> SUFFICES ASSUME AllocationInit PROVE InputsInv
    OBVIOUS
  <2>1. IsFiniteSet(income)
    BY FS_EmptySet DEF AllocationInit
  <2> QED BY <2>1 DEF AllocationInit, InputsInv, PaysFit
<1>2. InputsInv /\ [AllocationNext]_allocationVars => InputsInv'
  <2> SUFFICES ASSUME InputsInv, [AllocationNext]_allocationVars PROVE InputsInv'
    OBVIOUS
  <2>1. ASSUME NEW p \in Periods, NEW c \in Charges, Charge(p, c) PROVE InputsInv'
    BY <2>1, AllocationCheckAssumption DEF InputsInv, Charge, PaysFit
  <2>2. ASSUME NEW id \in 1 .. MaxPayments, NEW a \in Deposits, NEW t \in Receipts, Deposit(id, a, t)
        PROVE  InputsInv'
    <3> PICK q : q = [id |-> id, amount |-> a, received |-> t]
      OBVIOUS
    <3>1. income' = income \cup {q} /\ sums' = sums /\ \A x \in income : x.id # id
      BY <2>2 DEF Deposit
    <3>2. IsFiniteSet(income')
      BY <3>1, FS_AddElement DEF InputsInv, PaysFit
    <3>3. q.id \in Nat /\ q.amount \in Nat /\ q.received \in Nat /\ q.id = id
      BY AllocationCheckAssumption
    <3>4. PaysFit(income')
      BY <3>1, <3>2, <3>3 DEF InputsInv, PaysFit
    <3> QED BY <3>1, <3>4 DEF InputsInv, PaysFit
  <2>3. CASE UNCHANGED allocationVars
    BY <2>3 DEF allocationVars, InputsInv, PaysFit
  <2> QED BY <2>1, <2>2, <2>3 DEF AllocationNext
<1>3. InputsInv => RebuildMatchesReference
  BY EntriesGrow, RebuildIsReference DEF InputsInv, RebuildMatchesReference
<1> QED BY <1>1, <1>2, <1>3, PTL DEF AllocationSpec
=============================================================================
