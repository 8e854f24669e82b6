----------------------------- MODULE Allocation -----------------------------
(***************************************************************************)
(* Package ledger: how one member's payments and corrections are applied   *)
(* to the claims of the accounting periods.                                *)
(*                                                                         *)
(*   - a claim entry is a MEMBER_RECEIVABLE ledger entry of the member     *)
(*     that does not belong to a payment: a record with at least the       *)
(*     fields period and amount;                                           *)
(*   - a payment is a record with at least the fields id, amount and       *)
(*     received;                                                           *)
(*   - an allocation row is a record [source, target, amount]: a row of    *)
(*     payment_allocations (source: payment id) or of                      *)
(*     period_adjustment_allocations (source: period), target: period.     *)
(***************************************************************************)
EXTENDS Integers, Sequences, FiniteSets, FiniteSetsExt, SequencesExt

(***************************************************************************)
(* Instants are counted in tenths of a second.  platform.Timestamp stores  *)
(* them as RFC 3339 text whose fraction is dropped when it is zero, and    *)
(* SQLite orders the text: within one second ".5Z" sorts before "Z".       *)
(***************************************************************************)
TenthsPerSecond == 10

FractionRank(t) ==
    IF t % TenthsPerSecond = 0 THEN TenthsPerSecond ELSE t % TenthsPerSecond

TimestampBefore(s, t) ==
    \/ s \div TenthsPerSecond < t \div TenthsPerSecond
    \/ /\ s \div TenthsPerSecond = t \div TenthsPerSecond
       /\ FractionRank(s) < FractionRank(t)

\* ORDER BY received_at, id
PaymentBefore(a, b) ==
    \/ TimestampBefore(a.received, b.received)
    \/ a.received = b.received /\ a.id < b.id

SumAmounts(records) == MapThenSumSet(LAMBDA r : r.amount, records)

PeriodClaim(entries, p) == SumAmounts({e \in entries : e.period = p})

\* The members of a finite set in the order of a query.
Ordered(S, Before(_, _)) ==
    CHOOSE f \in [1 .. Cardinality(S) -> S] :
        \A i, j \in 1 .. Cardinality(S) : i < j => Before(f[i], f[j])

\* ORDER BY starts_at: periods are numbered as they start.
Earlier(p, q) == p < q
Later(p, q)   == p > q

(***************************************************************************)
(* The claims of one sign in period order, as amounts.  Periods without an *)
(* entry sum to zero in the query and are dropped by the sign tests.       *)
(***************************************************************************)
PeriodsOfSign(entries, sign) ==
    {p \in {e.period : e \in entries} : sign * PeriodClaim(entries, p) > 0}

\* Mutant of SignedClaims: newest period first.
SignedClaimsNewestFirst(entries, sign) ==
    LET periods == Ordered(PeriodsOfSign(entries, sign), Later)
    IN  [i \in DOMAIN periods |->
            [id |-> periods[i], remaining |-> sign * PeriodClaim(entries, periods[i])]]

SignedClaims(entries, sign) ==
    LET periods == Ordered(PeriodsOfSign(entries, sign), Earlier)
    IN  [i \in DOMAIN periods |->
            [id |-> periods[i], remaining |-> sign * PeriodClaim(entries, periods[i])]]

Claims(entries) == SignedClaims(entries, 1)

Adjustments(entries) == SignedClaims(entries, -1)

PaymentQueue(pays) ==
    LET ordered == Ordered(pays, PaymentBefore)
    IN  [i \in DOMAIN ordered |->
            [id |-> ordered[i].id, remaining |-> ordered[i].amount]]

(***************************************************************************)
(* One round of the loop both passes share, on a state with the fields     *)
(* sources, claims, claimIndex and rows.  The first source fills the claim *)
(* under claimIndex, which only moves forward over exhausted claims.       *)
(***************************************************************************)
ApplySource(s) ==
    LET source  == Head(s.sources)
        claim   == s.claims[s.claimIndex]
        applied == Min({source.remaining, claim.remaining})
    IN  [s EXCEPT !.sources[1].remaining = @ - applied,
                  !.claims[s.claimIndex].remaining = @ - applied,
                  !.rows = @ \union {[source |-> source.id, target |-> claim.id,
                                      amount |-> applied]}]

\* Mutant of AllocationRound: the index moves past a claim that is only partly covered.
RoundAlwaysAdvancing(s) ==
    IF Head(s.sources).remaining = 0 THEN [s EXCEPT !.sources = Tail(@)]
    ELSE IF s.claims[s.claimIndex].remaining = 0 THEN [s EXCEPT !.claimIndex = @ + 1]
    ELSE [ApplySource(s) EXCEPT !.claimIndex = @ + 1]

AllocationRound(s) ==
    IF Head(s.sources).remaining = 0 THEN [s EXCEPT !.sources = Tail(@)]
    ELSE IF s.claims[s.claimIndex].remaining = 0 THEN [s EXCEPT !.claimIndex = @ + 1]
    ELSE ApplySource(s)

\* The states of the loop.
Slot == [id : Nat, remaining : Nat]
Row  == [source : Nat, target : Nat, amount : Nat]
Loops ==
    [sources : Seq(Slot), claims : Seq(Slot), claimIndex : Nat \ {0}, rows : SUBSET Row]

Spent(s) == s.sources = <<>> \/ s.claimIndex > Len(s.claims)

Run[s \in Loops] == IF Spent(s) THEN s ELSE Run[AllocationRound(s)]

Drain(sources, claims) ==
    Run[[sources |-> sources, claims |-> claims, claimIndex |-> 1, rows |-> {}]]

(***************************************************************************)
(* RebuildPaymentAllocations: corrections first, then the payments over    *)
(* what the corrections left of the claims.                                *)
(***************************************************************************)
\* Mutant of RebuildPaymentAllocations: the payments see the claims before corrections.
RebuildFromFullClaims(entries, pays) ==
    [corrections |-> Drain(Adjustments(entries), Claims(entries)).rows,
     payments    |-> Drain(PaymentQueue(pays), Claims(entries)).rows]

RebuildPaymentAllocations(entries, pays) ==
    LET corrected == Drain(Adjustments(entries), Claims(entries))
        paid      == Drain(PaymentQueue(pays), corrected.claims)
    IN  [corrections |-> corrected.rows, payments |-> paid.rows]

=============================================================================
