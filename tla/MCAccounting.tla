---------------------------- MODULE MCAccounting ----------------------------
(***************************************************************************)
(* Three scopes: one membership over three periods with payments of        *)
(* several sizes and dates, a group whose bookings have several targets,   *)
(* and a membership that pays its debt in two halves and is deleted, whose *)
(* documents are voided or reversed afterwards.                            *)
(***************************************************************************)
EXTENDS Accounting

CONSTANTS m1, m2, g1

VARIABLE scope

MCMembers == {m1, m2}
MCGuests == {g1}

Alone ==
    /\ \A m \in Memberships : memberStatus[m] = (IF m \in Guests THEN "ABSENT" ELSE "ACTIVE")
    /\ \A i \in DOMAIN bookings : bookings[i].target = m1
    /\ \A p \in payments : p.member = m1
    /\ \A e \in ledger : e.account # "EXTERNAL_ACCOUNT"

Together ==
    /\ Len(periods) <= 2
    /\ \A p \in payments : p.id = 1 /\ p.amount = 1 /\ p.received = 10

Leaving ==
    /\ Len(periods) <= 2
    /\ \A m \in Memberships : m # m1 => memberStatus[m] = (IF m \in Guests THEN "ABSENT" ELSE "ACTIVE")
    /\ \A i \in DOMAIN bookings : bookings[i].target = m1
    /\ \A p \in payments : p.member = m1 /\ p.amount = 1 /\ p.received = 10
    /\ \A e \in ledger : e.account # "EXTERNAL_ACCOUNT"

Within ==
    /\ scope = "alone" => Alone
    /\ scope = "together" => Together
    /\ scope = "leaving" => Leaving

MCInit == Init /\ scope \in {"alone", "together", "leaving"}
MCNext == Next /\ UNCHANGED scope /\ Within'
MCSpec == MCInit /\ [][MCNext]_<<vars, scope>>
=============================================================================
