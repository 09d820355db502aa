--------------------------- MODULE BondProperties ---------------------------
(***************************************************************************)
(* What the showup-bond contract is for, stated over the state of Bond.    *)
(***************************************************************************)
EXTENDS Bond, Functions

Refundable(e, p) == IsLocked(e, p) /\ EventIs(e, "Cancelled")
Splittable(e, p) == IsLocked(e, p) /\ EventIs(e, "Active") /\ SplitFits(e, p)
PastDeadline(e) == now > events[e].terms.checkin_deadline

-----------------------------------------------------------------------------
(* Safety *)

TakesSeat(e, p) == HasReservation(e, p) /\ reservations[e][p].status # "Cancelled"
Seated(e) == {p \in Address : TakesSeat(e, p)}

\* reserved_count is kept by two entry points and read by one, while a
\* reservation ends in four ways: the counter is always the number of
\* participants whose seat was not given up, and never passes the capacity.
SeatsMatchReservations ==
    \A e \in EventId : events[e] # None =>
        /\ events[e].reserved_count = Cardinality(Seated(e))
        /\ events[e].reserved_count <= events[e].terms.capacity

\* A reservation's outcome is justified by the clock and by the event: nobody
\* is recorded as attending before check-in opens or as a no-show while check-in
\* is still possible, refunds belong to cancelled events, and every bond was
\* locked, for the published amount, while check-in was still ahead.
OutcomeJustified ==
    \A e \in EventId, p \in Address : HasReservation(e, p) =>
        LET r == reservations[e][p]
            t == events[e].terms
        IN  /\ events[e] # None
            /\ r.amount = t.bond_amount
            /\ r.reserved_at <= now
            /\ r.reserved_at < t.checkin_deadline
            /\ r.status = "Attended" => now >= t.checkin_start
            /\ r.status = "NoShowSettled" => now > t.checkin_deadline
            /\ r.status = "Refunded" => events[e].status = "Cancelled"

\* While an account has signed nothing, nobody can take its money, reserve in
\* its name, or publish an event in its name.
SilentAccountsUntouched ==
    \A a \in Address \ Signers :
        /\ balance[a] >= InitialBalance[a]
        /\ \A e \in EventId :
             /\ ~HasReservation(e, a)
             /\ events[e] # None => events[e].organizer # a

\* Where a bond goes is never a race: once settlement is open, the participant
\* can neither cancel nor be checked in, and a refund excludes all the rest.
DestinationNotRaced ==
    \A e \in EventId, p \in Address :
        LET attended == CheckInAllowed(e, p)
            left     == CancellationAllowed(e, p)
            settled  == SettlementAllowed(e, p)
            refunded == RefundAllowed(e, p)
        IN  /\ settled  => ~attended /\ ~left
            /\ refunded => ~attended /\ ~left /\ ~settled

\* A locked bond of a cancelled event can be claimed at any time, whatever was
\* paid to others before, as soon as its participant can receive the asset.
RefundNeverBlocked ==
    \A e \in EventId, p \in Address :
        Refundable(e, p) /\ trustline[p] => RefundAllowed(e, p)

\* Past the deadline a locked bond of an active event can be settled at any
\* time, as long as both destinations can receive and the product fits i128.
SettlementNeverBlocked ==
    \A e \in EventId, p \in Address :
        Splittable(e, p) /\ PastDeadline(e) /\ trustline[events[e].organizer]
                         /\ trustline[Pool]
            => SettlementAllowed(e, p)

-----------------------------------------------------------------------------
(* What a step may never do *)

\* A reservation is for good: it keeps its amount and its time, and leaves
\* Locked once, for one of the four outcomes that nothing undoes.  A
\* participant who cancelled never gets a second reservation.
ReservationsOnlyEnd ==
    \A e \in EventId, p \in Address : HasReservation(e, p) =>
        \/ reservations'[e][p] = reservations[e][p]
        \/ /\ IsLocked(e, p)
           /\ \E outcome \in ReservationStatus \ {"Locked"} :
                reservations'[e][p] = [reservations[e][p] EXCEPT !.status = outcome]

ReservationsFinal == [][ReservationsOnlyEnd]_vars

\* After cancel_event only claim_cancelled_event_refund moves a bond, and the
\* event itself is frozen: no seat is taken or given up, no policy changes.
CancelledOnlyRefunded ==
    \A e \in EventId : EventIs(e, "Cancelled") =>
        /\ events'[e] = events[e]
        /\ \A p \in Address : reservations'[e][p] # reservations[e][p] =>
             /\ IsLocked(e, p)
             /\ reservations'[e][p].status = "Refunded"
             /\ balance' = Moved(balance, Contract, p, reservations[e][p].amount)

CancelledEventOnlyRefunds == [][CancelledOnlyRefunded]_vars

-----------------------------------------------------------------------------
(* The contract implements the escrow *)

Beneficiary == [e \in EventId |-> IF events[e] = None THEN None ELSE events[e].organizer]
VoidEvents == {e \in EventId : EventIs(e, "Cancelled")}
HeldAmount == [e \in EventId |-> [p \in Address |->
    IF IsLocked(e, p) THEN reservations[e][p].amount ELSE 0]]
ClosedSlots == {s \in EventId \X Address :
    HasReservation(s[1], s[2]) /\ ~IsLocked(s[1], s[2])}

E == INSTANCE Escrow WITH
    Round <- EventId, Account <- Address, Vault <- Contract, Nobody <- None,
    wealth <- balance, beneficiary <- Beneficiary, void <- VoidEvents,
    held <- HeldAmount, closed <- ClosedSlots

\* Each bond is deposited once and leaves custody once and whole, to its
\* participant or split between the organizer fixed at creation and the pool;
\* no other call takes money out of the contract.
ImplementsEscrow == E!Spec

\* The contract's balance covers all the bonds it still holds.
Solvent == E!Solvent

-----------------------------------------------------------------------------
(* Liveness *)

DestinationsReceive(e, p) ==
    /\ trustline[p]
    /\ trustline[Pool]
    /\ events[e] # None => trustline[events[e].organizer]

\* A locked bond leaves custody, even if its participant, the organizer and the
\* verifier never act again, when all who could be paid remain able to receive.
BondReleased ==
    \A e \in EventId, p \in Address :
        <>[]DestinationsReceive(e, p) => (Splittable(e, p) ~> ~IsLocked(e, p))

\* Once the event is cancelled the refund depends on the participant's account
\* alone: neither the organizer nor the pool can hold it back.
RefundReleased ==
    \A e \in EventId, p \in Address :
        <>[](trustline[p]) => (Refundable(e, p) ~> ~IsLocked(e, p))

\* docs/architecture/SYSTEM.md:599-600, "What permissionless buys is that
\* settlement does not depend on the organizer choosing to act": if it were so,
\* a bond would leave custody whatever the organizer does with its trustline.
SettlementIndependentOfOrganizer ==
    \A e \in EventId, p \in Address :
        <>[](trustline[p] /\ trustline[Pool])
            => (Splittable(e, p) ~> ~IsLocked(e, p))
=============================================================================
