----------------------------- MODULE Eligibility -----------------------------
(***************************************************************************)
(* What the pages predict of the contract (apps/web/lib/domain):           *)
(* eligibility.ts and reservation-buckets.ts, over an event and a          *)
(* reservation that were read and a ledger time, with no look at the       *)
(* contract.  A reservation that does not exist is None.                   *)
(***************************************************************************)
EXTENDS Bond

Locked(reservation) == reservation # None /\ reservation.status = "Locked"

\* Faulty variant: < read as <=.
CanReserveAtDeadline(event, reservation, time) ==
    /\ event.status = "Active" /\ time <= event.terms.checkin_deadline
    /\ event.reserved_count < event.terms.capacity /\ reservation = None

CanReserve(event, reservation, time) ==
    /\ event.status = "Active" /\ time < event.terms.checkin_deadline
    /\ event.reserved_count < event.terms.capacity /\ reservation = None

CanCancelReservation(event, reservation, time) ==
    Locked(reservation) /\ event.status = "Active" /\ time <= event.terms.cancellation_deadline

CanCheckIn(event, reservation, time) ==
    /\ Locked(reservation) /\ event.status = "Active"
    /\ time >= event.terms.checkin_start /\ time <= event.terms.checkin_deadline

CanSettleNoShow(event, reservation, time) ==
    Locked(reservation) /\ event.status = "Active" /\ time > event.terms.checkin_deadline

CanClaimCancelledRefund(event, reservation) ==
    Locked(reservation) /\ event.status = "Cancelled"

\* The two legs of a settlement, as the pages preview them.
SplitByBps(amount, bps) ==
    LET organizer == (amount * bps) \div 10000
    IN  [organizer |-> organizer, community |-> amount - organizer]

\* The group of the reservations page in which a reservation is listed.
ReservationBucket(event, reservation, time) ==
    CASE reservation.status = "Attended" -> "attended"
      [] reservation.status \in {"Cancelled", "Refunded"} -> "cancelled"
      [] reservation.status = "NoShowSettled" -> "no_show"
      [] OTHER -> IF event.status = "Cancelled" THEN "cancelled"
                  ELSE IF time > event.terms.checkin_deadline THEN "no_show" ELSE "upcoming"

\* The line in which the reservation page and the list say what to expect.
DisplayStatus(event, reservation, time) ==
    CASE reservation.status # "Locked" -> reservation.status
      [] Locked(reservation) /\ event.status = "Cancelled" -> "refund available"
      [] OTHER -> IF ReservationBucket(event, reservation, time) = "no_show" THEN "awaiting settlement"
                  ELSE IF time < event.terms.checkin_start THEN "check-in has not opened"
                  ELSE "check-in is open"
=============================================================================
