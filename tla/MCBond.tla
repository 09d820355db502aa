------------------------------- MODULE MCBond -------------------------------
(***************************************************************************)
(* Small instances of Bond for TLC: the accounts, their balances, and the  *)
(* argument tuples create_event is called with.                            *)
(***************************************************************************)
EXTENDS BondProperties, TLC

CONSTANTS org, pool, alice, bob, carol

\* Bond amounts are 3 throughout: odd, so that an even split leaves a remainder.
MCTerms(amount, capacity, cancelBy, opens, closes, bps) ==
    [bond_amount |-> amount, capacity |-> capacity, text_fits |-> TRUE,
     start_time |-> opens, checkin_start |-> opens, checkin_deadline |-> closes,
     cancellation_deadline |-> cancelBy, organizer_bps |-> bps, community_bps |-> 10000 - bps]

\* A policy create_event refuses: participants could cancel after check-in opened.
Refused == MCTerms(3, 2, 2, 1, 2, 5000)

\* Fewer seats than participants; check-in opens at the cancellation deadline.
ScarceSeats == {MCTerms(3, 2, 1, 1, 2, 5000), Refused}

\* Two policies that give different shares and capacities; the product of the
\* second passes a MaxI128 of 18000.
TwoPolicies == {MCTerms(3, 1, 0, 1, 1, 5000), MCTerms(2, 2, 0, 0, 1, 10000)}

\* Boundary values of the schedule, in and out of order, and of the other checks.
AnySchedule ==
    [bond_amount : {3}, capacity : {1}, text_fits : {TRUE},
     start_time : 0..2, checkin_start : 0..2, checkin_deadline : 0..2,
     cancellation_deadline : 0..2, organizer_bps : {3333}, community_bps : {6667}]
AnySplit ==
    [bond_amount : {0, 3}, capacity : {0, 1}, text_fits : BOOLEAN,
     start_time : {1}, checkin_start : {1}, checkin_deadline : {1},
     cancellation_deadline : {1}, organizer_bps : {0, 3333, 10000},
     community_bps : {0, 6667, 10000}]
AnyTerms == AnySchedule \cup AnySplit \cup ScarceSeats

Guests(amount) == [a \in Address |-> IF a \in {alice, bob, carol} THEN amount ELSE 0]
Funded == Guests(3)
FundedTwice == Guests(6)

GuestSymmetry == Permutations({alice, bob, carol} \cap Address)
=============================================================================
