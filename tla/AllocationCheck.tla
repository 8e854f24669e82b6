-------------------------- MODULE AllocationCheck --------------------------
(***************************************************************************)
(* Inputs for the allocation algorithm, grown one change at a time, and    *)
(* the declarative definition it is checked against.                       *)
(***************************************************************************)
EXTENDS Allocation

CONSTANTS
    Periods,    \* the periods, numbered in order
    Charges,    \* sums a period may come to: positive, zero or negative
    Receipts,   \* instants at which payments are received
    Deposits,   \* amounts of payments
    MaxPayments \* bound on the number of payments

ASSUME AllocationCheckAssumption ==
    /\ Periods \subseteq Nat /\ IsFiniteSet(Periods) /\ Charges \subseteq Int
    /\ Receipts \subseteq Nat /\ Deposits \subseteq Nat \ {0}
    /\ MaxPayments \in Nat

VARIABLES
    sums,       \* the sum of the member's claim entries per period
    income      \* the member's payments that are not reversed

allocationVars == <<sums, income>>

Entries == {[period |-> p, amount |-> sums[p]] : p \in Periods}

AllocationInit == sums = [p \in Periods |-> 0] /\ income = {}

Charge(p, c) ==
    /\ sums[p] = 0
    /\ sums' = [sums EXCEPT ![p] = c]
    /\ UNCHANGED income

Deposit(id, a, t) ==
    /\ \A q \in income : q.id # id
    /\ income' = income \union {[id |-> id, amount |-> a, received |-> t]}
    /\ UNCHANGED sums

AllocationNext ==
    \/ \E p \in Periods, c \in Charges : Charge(p, c)
    \/ \E id \in 1 .. MaxPayments, a \in Deposits, t \in Receipts : Deposit(id, a, t)

AllocationSpec == AllocationInit /\ [][AllocationNext]_allocationVars

(***************************************************************************)
(* Reference: lay the money end to end (corrections of older periods       *)
(* first, then payments as received) along the claims laid end to end;     *)
(* a row is where a piece of money overlaps a claim.                       *)
(***************************************************************************)
Money(entries, pays) == Adjustments(entries) \o PaymentQueue(pays)

\* Where the n-th slot ends.
Upto(slots, n) ==
    LET length == [i \in DOMAIN slots |-> slots[i].remaining]
    IN  MapThenSumSet(LAMBDA i : length[i], 1 .. n)

Overlap(money, claims, i, j) ==
    Min({Upto(money, i), Upto(claims, j)}) - Max({Upto(money, i - 1), Upto(claims, j - 1)})

ReferenceRows(money, claims, sources) ==
    {[source |-> money[x[1]].id, target |-> claims[x[2]].id,
      amount |-> Overlap(money, claims, x[1], x[2])] :
        x \in {x \in sources \X DOMAIN claims : Overlap(money, claims, x[1], x[2]) > 0}}

ReferenceAllocations(entries, pays) ==
    LET money       == Money(entries, pays)
        corrections == Len(Adjustments(entries))
    IN  [corrections |-> ReferenceRows(money, Claims(entries), 1 .. corrections),
         payments    |-> ReferenceRows(money, Claims(entries), corrections + 1 .. Len(money))]

(***************************************************************************)
(* RebuildPaymentAllocations computes exactly the overlaps: every row, its *)
(* amount, no row twice (the tables' primary keys), whatever the mixture   *)
(* of claims, corrections and payments.                                    *)
(***************************************************************************)
RebuildMatchesReference ==
    RebuildPaymentAllocations(Entries, income) = ReferenceAllocations(Entries, income)
=============================================================================
