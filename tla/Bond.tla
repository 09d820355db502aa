-------------------------------- MODULE Bond --------------------------------
(***************************************************************************)
(* The showup-bond contract (contracts/showup-bond/src): an organizer      *)
(* creates an event, participants lock a bond to reserve a seat, and each  *)
(* bond leaves custody once: by cancellation, by check-in, by a refund     *)
(* after the event is cancelled, or by the no-show split.                  *)
(*                                                                         *)
(* One action per entry point.  An invocation is atomic: an error return,  *)
(* a missing signature or a failing token transfer leaves the ledger as it *)
(* was, so the guard of an action is the conjunction of the checks that    *)
(* lead to Ok(()), the token transfer's included.                          *)
(***************************************************************************)
EXTENDS Token, FiniteSets, Nothing

CONSTANTS
    Pool,        \* Config.community_pool, pinned by the constructor
    Terms,       \* the argument tuples create_event is called with
    MaxEvents,   \* bound: events created
    MaxTime,     \* bound: the ledger clock
    MaxI128      \* the largest i128

VARIABLES
    now,           \* env.ledger().timestamp()
    eventCount,    \* DataKey::EventCount
    events,        \* DataKey::Event(id)
    reservations   \* DataKey::Reservation(id, participant)

bondVars == <<eventCount, events, reservations>>
vars == <<now, eventCount, events, reservations, balance, trustline>>

-----------------------------------------------------------------------------
EventId == 1..MaxEvents
Time == 0..MaxTime
EventStatus == {"Active", "Cancelled"}
ReservationStatus == {"Locked", "Attended", "Cancelled", "Refunded", "NoShowSettled"}

\* A storage key with no entry holds None.

\* create_event's arguments; text_fits stands for the bounds on title and venue.
TermsType ==
    [bond_amount : Int, capacity : Nat, text_fits : BOOLEAN,
     start_time : Nat, checkin_start : Nat, checkin_deadline : Nat,
     cancellation_deadline : Nat, organizer_bps : Nat, community_bps : Nat]

Event ==
    [organizer : Address, verifier : Address, terms : Terms,
     reserved_count : Nat, status : EventStatus]

Reservation == [amount : Nat \ {0}, reserved_at : Time, status : ReservationStatus]

ASSUME BondAssumption ==
    /\ Pool \in Address
    /\ IsFiniteSet(Address)
    /\ Terms \subseteq TermsType
    /\ MaxEvents \in Nat \ {0}
    /\ MaxTime \in Nat
    /\ MaxI128 \in Nat
    /\ None \notin Event \cup Reservation \cup Address

TypeOK ==
    /\ TokenTypeOK
    /\ now \in Time
    /\ eventCount \in 0..MaxEvents
    /\ events \in [EventId -> Event \cup {None}]
    /\ reservations \in [EventId -> [Address -> Reservation \cup {None}]]

\* __constructor
Init ==
    /\ TokenInit
    /\ now = 0
    /\ eventCount = 0
    /\ events = [e \in EventId |-> None]
    /\ reservations = [e \in EventId |-> [p \in Address |-> None]]

-----------------------------------------------------------------------------
EventIs(e, status) == events[e] # None /\ events[e].status = status
HasReservation(e, p) == reservations[e][p] # None
IsLocked(e, p) == HasReservation(e, p) /\ reservations[e][p].status = "Locked"

-----------------------------------------------------------------------------
(* Faulty variants of definitions below: plausible slips in the contract.   *)
(* No specification uses them; each must break a property when it takes the *)
(* place of the definition it is named after.                               *)

\* ValidAmounts, without the check on the bond.
ValidAmountsAnyBond(t) ==
    t.capacity > 0 /\ t.text_fits /\ t.organizer_bps + t.community_bps = 10000

\* ValidSchedule, without the check that ties cancellation to check-in.
ValidScheduleLateCancellation(t) ==
    t.checkin_start <= t.checkin_deadline /\ t.start_time \in t.checkin_start .. t.checkin_deadline

\* ReservationOpen, with > for >= in the early return.
ReservationOpenAtDeadline(e) ==
    EventIs(e, "Active") /\ now <= events[e].terms.checkin_deadline

\* RefundOpen, as if the deadline mattered to a cancelled event.
RefundOpenBeforeDeadline(e) ==
    EventIs(e, "Cancelled") /\ now <= events[e].terms.checkin_deadline

\* SettlementOpen, without the status check.
SettlementOpenAnyStatus(e) == events[e] # None /\ now > events[e].terms.checkin_deadline

\* SettlementOpen, for a single ledger.
SettlementOpenOnce(e) == EventIs(e, "Active") /\ now = events[e].terms.checkin_deadline + 1

\* SeatFree, with > for >= in the early return.
SeatFreePastCapacity(e) == events[e].reserved_count <= events[e].terms.capacity

\* FirstReservation, letting a finished reservation be replaced.
FirstReservationUnlessFinished(e, p) == ~IsLocked(e, p)

\* OrganizerAmount, scaled as if bps were tenths of a percent.
OrganizerAmountMisscaled(e, p) ==
    (reservations[e][p].amount * events[e].terms.organizer_bps) \div 1000

\* CommunityAmount, rounded on its own instead of taking the remainder.
CommunityAmountRounded(e, p) ==
    (reservations[e][p].amount * events[e].terms.community_bps) \div 10000

\* Close, without set_reservation.
CloseForgotten(e, p, status) == UNCHANGED reservations

\* PayBack, with the transfer made twice.
PayBackTwice(e, p) == balance' = Moved(balance, Contract, p, 2 * reservations[e][p].amount)

-----------------------------------------------------------------------------
BpsTotal == 10000

ValidSchedule(t) ==
    /\ t.cancellation_deadline <= t.checkin_start
    /\ t.checkin_start <= t.checkin_deadline
    /\ t.start_time >= t.checkin_start
    /\ t.start_time <= t.checkin_deadline

ValidAmounts(t) ==
    /\ t.bond_amount > 0
    /\ t.capacity > 0
    /\ t.text_fits
    /\ t.organizer_bps + t.community_bps = BpsTotal

\* When an event accepts each call: its status and its published schedule.
ReservationOpen(e) == EventIs(e, "Active") /\ now < events[e].terms.checkin_deadline
CancellationOpen(e) == EventIs(e, "Active") /\ now <= events[e].terms.cancellation_deadline
CheckInOpen(e) == EventIs(e, "Active") /\ now \in events[e].terms.checkin_start ..
                                                   events[e].terms.checkin_deadline
RefundOpen(e) == EventIs(e, "Cancelled")
SettlementOpen(e) == EventIs(e, "Active") /\ now > events[e].terms.checkin_deadline

SeatFree(e) == events[e].reserved_count < events[e].terms.capacity

\* A reservation in any state, a cancelled one too, bars a new one.
FirstReservation(e, p) == ~HasReservation(e, p)

\* The organizer's share of a no-show bond; the checked product must fit i128.
SplitFits(e, p) ==
    reservations[e][p].amount * events[e].terms.organizer_bps <= MaxI128
OrganizerAmount(e, p) ==
    (reservations[e][p].amount * events[e].terms.organizer_bps) \div BpsTotal
CommunityAmount(e, p) == reservations[e][p].amount - OrganizerAmount(e, p)

\* Store the status a locked reservation ends in.
Close(e, p, status) == reservations' = [reservations EXCEPT ![e][p].status = status]

\* Pay the whole bond back to the participant.
CanPayBack(e, p) == CanTransfer(balance, Contract, p, reservations[e][p].amount)
PayBack(e, p) == balance' = Moved(balance, Contract, p, reservations[e][p].amount)

\* The balances between the two transfers of a settlement.
OrganizerPaid(e, p) == Moved(balance, Contract, events[e].organizer, OrganizerAmount(e, p))

-----------------------------------------------------------------------------
(* When each call returns Ok(()).                                           *)

ReservationAllowed(e, p) ==
    /\ Authorized(p)
    /\ ReservationOpen(e)
    /\ SeatFree(e)
    /\ FirstReservation(e, p)
    /\ CanTransfer(balance, p, Contract, events[e].terms.bond_amount)

CancellationAllowed(e, p) ==
    /\ Authorized(p)
    /\ IsLocked(e, p)
    /\ CancellationOpen(e)
    /\ events[e].reserved_count > 0
    /\ CanPayBack(e, p)

CheckInAllowed(e, p) ==
    /\ IsLocked(e, p)
    /\ CheckInOpen(e)
    /\ Authorized(events[e].verifier)
    /\ CanPayBack(e, p)

EventCancellable(e) == EventIs(e, "Active") /\ Authorized(events[e].organizer)

RefundAllowed(e, p) == IsLocked(e, p) /\ RefundOpen(e) /\ CanPayBack(e, p)

SettlementAllowed(e, p) ==
    /\ IsLocked(e, p)
    /\ SettlementOpen(e)
    /\ SplitFits(e, p)
    /\ CanTransfer(balance, Contract, events[e].organizer, OrganizerAmount(e, p))
    /\ CanTransfer(OrganizerPaid(e, p), Contract, Pool, CommunityAmount(e, p))

-----------------------------------------------------------------------------
CreateEvent(organizer, t) ==
    /\ Authorized(organizer)
    /\ ValidAmounts(t)
    /\ ValidSchedule(t)
    /\ eventCount < MaxEvents
    /\ eventCount' = eventCount + 1
    /\ events' = [events EXCEPT ![eventCount + 1] =
         [organizer |-> organizer, verifier |-> organizer, terms |-> t,
          reserved_count |-> 0, status |-> "Active"]]
    /\ UNCHANGED <<now, reservations, tokenVars>>

Reserve(e, p) ==
    /\ ReservationAllowed(e, p)
    /\ events' = [events EXCEPT ![e].reserved_count = @ + 1]
    /\ reservations' = [reservations EXCEPT ![e][p] =
         [amount |-> events[e].terms.bond_amount, reserved_at |-> now,
          status |-> "Locked"]]
    /\ balance' = Moved(balance, p, Contract, events[e].terms.bond_amount)
    /\ UNCHANGED <<now, eventCount, trustline>>

CancelReservation(e, p) ==
    /\ CancellationAllowed(e, p)
    /\ events' = [events EXCEPT ![e].reserved_count = @ - 1]
    /\ Close(e, p, "Cancelled")
    /\ PayBack(e, p)
    /\ UNCHANGED <<now, eventCount, trustline>>

CheckIn(e, p) ==
    /\ CheckInAllowed(e, p)
    /\ Close(e, p, "Attended")
    /\ PayBack(e, p)
    /\ UNCHANGED <<now, eventCount, events, trustline>>

CancelEvent(e) ==
    /\ EventCancellable(e)
    /\ events' = [events EXCEPT ![e].status = "Cancelled"]
    /\ UNCHANGED <<now, eventCount, reservations, tokenVars>>

ClaimCancelledEventRefund(e, p) ==
    /\ RefundAllowed(e, p)
    /\ Close(e, p, "Refunded")
    /\ PayBack(e, p)
    /\ UNCHANGED <<now, eventCount, events, trustline>>

SettleNoShow(e, p) ==
    /\ SettlementAllowed(e, p)
    /\ Close(e, p, "NoShowSettled")
    /\ balance' = Moved(OrganizerPaid(e, p), Contract, Pool, CommunityAmount(e, p))
    /\ UNCHANGED <<now, eventCount, events, trustline>>

-----------------------------------------------------------------------------
\* A ledger closes: timestamps only grow, and invocations may share one.
Tick ==
    /\ now < MaxTime
    /\ now' = now + 1
    /\ UNCHANGED <<bondVars, tokenVars>>

\* The token is used by others between two invocations of the contract.
TokenStep == TokenNext /\ UNCHANGED <<now, bondVars>>

Participate(e, p) ==
    \/ Reserve(e, p)
    \/ CancelReservation(e, p)
    \/ CheckIn(e, p)
    \/ ClaimCancelledEventRefund(e, p)
    \/ SettleNoShow(e, p)

Next ==
    \/ \E organizer \in Address, t \in Terms : CreateEvent(organizer, t)
    \/ \E e \in EventId : CancelEvent(e)
    \/ \E e \in EventId, p \in Address : Participate(e, p)
    \/ Tick
    \/ TokenStep

Spec == Init /\ [][Next]_vars

\* Ledgers keep closing, and somebody keeps submitting the two permissionless
\* calls; nobody is required to sign anything.
Fairness ==
    /\ WF_vars(Tick)
    /\ \A e \in EventId, p \in Address :
         /\ WF_vars(ClaimCancelledEventRefund(e, p))
         /\ WF_vars(SettleNoShow(e, p))

FairSpec == Spec /\ Fairness
=============================================================================
