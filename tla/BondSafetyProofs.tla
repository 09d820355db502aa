-------------------------- MODULE BondSafetyProofs --------------------------
(***************************************************************************)
(* The safety invariants and the action properties of the showup-bond      *)
(* contract.  Two lemmas say all a step can do to an event and to a        *)
(* reservation; the invariants follow from them.                           *)
(***************************************************************************)
EXTENDS BondProofs

\* Events are numbered from 1 without gaps, and only published ones have
\* reservations.
EventsNumbered ==
    \A e \in EventId : events[e] # None <=> e <= eventCount

BondInv ==
    /\ TypeInv
    /\ EventsNumbered
    /\ OutcomeJustified
    /\ SeatsMatchReservations

-----------------------------------------------------------------------------
(* What a step does to one event and to one reservation *)

\* A published event keeps its organizer and its policy, and a cancelled one
\* never changes again.
EventKept(e) ==
    /\ events'[e] # None
    /\ events'[e].organizer = events[e].organizer
    /\ events'[e].terms = events[e].terms
    /\ EventIs(e, "Cancelled") => events'[e] = events[e]

LEMMA EventStep ==
    ASSUME TypeInv, EventsNumbered, [Next]_vars, NEW e \in EventId, events[e] # None
    PROVE  EventKept(e)
<1>0. TypeOK /\ events[e] \in Event /\ None \notin Event
  BY StoredTypes, BondAssumption DEF TypeInv
<1>1. ASSUME UNCHANGED events PROVE EventKept(e)
  BY <1>1 DEF EventKept
<1>2. ASSUME NEW organizer \in Address, NEW t \in Terms, CreateEvent(organizer, t)
      PROVE  EventKept(e)
  <2>1. e # eventCount + 1
    BY <1>0 DEF EventsNumbered, TypeOK, EventId
  <2>2. events'[e] = events[e]
    BY <1>2, <1>0, <2>1 DEF CreateEvent, TypeOK
  <2> QED BY <2>2 DEF EventKept
<1>3. ASSUME NEW f \in EventId, EventIs(f, "Active"), NEW n \in Nat,
             events' = [events EXCEPT ![f].reserved_count = n]
      PROVE  EventKept(e)
  <2>1. CASE f = e
    <3>1. events'[e] = [events[e] EXCEPT !.reserved_count = n]
      BY <1>3, <1>0, <2>1 DEF TypeOK
    <3>2. events'[e] \in Event /\ events'[e] # None
      BY <3>1, <1>0 DEF Event
    <3>3. events'[e].organizer = events[e].organizer /\ events'[e].terms = events[e].terms
      BY <3>1, <1>0 DEF Event
    <3> QED BY <1>3, <2>1, <3>2, <3>3 DEF EventKept, EventIs
  <2>2. CASE f # e
    BY <1>3, <1>0, <2>2 DEF TypeOK, EventKept
  <2> QED BY <2>1, <2>2
<1>4. ASSUME NEW f \in EventId, CancelEvent(f)
      PROVE  EventKept(e)
  <2>1. CASE f = e
    <3>1. events'[e] = [events[e] EXCEPT !.status = "Cancelled"]
      BY <1>4, <1>0, <2>1 DEF CancelEvent, TypeOK
    <3>2. events'[e] \in Event /\ events'[e] # None
      BY <3>1, <1>0 DEF Event, EventStatus
    <3>3. events'[e].organizer = events[e].organizer /\ events'[e].terms = events[e].terms
      BY <3>1, <1>0 DEF Event
    <3> QED BY <1>4, <2>1, <3>2, <3>3 DEF EventKept, EventIs, CancelEvent, EventCancellable
  <2>2. CASE f # e
    BY <1>4, <1>0, <2>2 DEF CancelEvent, TypeOK, EventKept
  <2> QED BY <2>1, <2>2
<1>5. ASSUME NEW f \in EventId, NEW p \in Address, Reserve(f, p)
      PROVE  EventKept(e)
  <2>1. EventIs(f, "Active")
    BY <1>5 DEF Reserve, ReservationAllowed, ReservationOpen
  <2>2. events[f].reserved_count + 1 \in Nat
    BY <2>1, <1>0, StoredTypes DEF Event, EventIs
  <2> QED BY <1>5, <2>1, <2>2, <1>3 DEF Reserve
<1>6. ASSUME NEW f \in EventId, NEW p \in Address, CancelReservation(f, p)
      PROVE  EventKept(e)
  <2>1. EventIs(f, "Active")
    BY <1>6 DEF CancelReservation, CancellationAllowed, CancellationOpen
  <2>2. events[f].reserved_count \in Nat
    BY <2>1, <1>0, StoredTypes DEF Event, EventIs
  <2>3. events[f].reserved_count - 1 \in Nat
    BY <1>6, <2>2 DEF CancelReservation, CancellationAllowed
  <2> QED BY <1>6, <2>1, <2>3, <1>3 DEF CancelReservation
<1>7. ASSUME NEW f \in EventId, NEW p \in Address,
             CheckIn(f, p) \/ ClaimCancelledEventRefund(f, p) \/ SettleNoShow(f, p)
      PROVE  EventKept(e)
  BY <1>1, <1>7 DEF CheckIn, ClaimCancelledEventRefund, SettleNoShow
<1>8. ASSUME Tick \/ TokenStep \/ UNCHANGED vars
      PROVE  EventKept(e)
  BY <1>1, <1>8 DEF Tick, TokenStep, bondVars, vars
<1> QED BY <1>2, <1>4, <1>5, <1>6, <1>7, <1>8 DEF Next, Participate

\* How a reservation changes: it appears Locked, or it leaves Locked by the
\* entry point its outcome is named after.
Locks(e, p) ==
    /\ Reserve(e, p)
    /\ ~HasReservation(e, p)
    /\ reservations'[e][p] = [amount |-> events[e].terms.bond_amount,
                              reserved_at |-> now, status |-> "Locked"]

Ends(e, p, outcome) ==
    /\ IsLocked(e, p)
    /\ reservations'[e][p] = [reservations[e][p] EXCEPT !.status = outcome]
    /\ \/ outcome = "Cancelled" /\ CancelReservation(e, p)
       \/ outcome = "Attended" /\ CheckIn(e, p)
       \/ outcome = "Refunded" /\ ClaimCancelledEventRefund(e, p)
       \/ outcome = "NoShowSettled" /\ SettleNoShow(e, p)

\* Every other reservation stays as it is.
OthersKept(e, p) ==
    \A f \in EventId, q \in Address :
        f # e \/ q # p => reservations'[f][q] = reservations[f][q]

LEMMA CloseOne ==
    ASSUME TypeOK, NEW e \in EventId, NEW p \in Address, IsLocked(e, p),
           NEW outcome, Close(e, p, outcome)
    PROVE  /\ reservations'[e][p] = [reservations[e][p] EXCEPT !.status = outcome]
           /\ OthersKept(e, p)
  BY DEF TypeOK, Close, OthersKept

LEMMA ReserveOne ==
    ASSUME TypeOK, NEW e \in EventId, NEW p \in Address, Reserve(e, p)
    PROVE  /\ reservations'[e][p] = [amount |-> events[e].terms.bond_amount,
                                     reserved_at |-> now, status |-> "Locked"]
           /\ OthersKept(e, p)
  BY DEF TypeOK, Reserve, OthersKept

LEMMA ReservationStep ==
    ASSUME TypeOK, [Next]_vars, NEW e \in EventId, NEW p \in Address
    PROVE  \/ reservations'[e][p] = reservations[e][p]
           \/ Locks(e, p)
           \/ \E outcome \in ReservationStatus \ {"Locked"} : Ends(e, p, outcome)
<1> DEFINE Goal == \/ reservations'[e][p] = reservations[e][p]
                   \/ Locks(e, p)
                   \/ \E outcome \in ReservationStatus \ {"Locked"} : Ends(e, p, outcome)
<1>1. ASSUME UNCHANGED reservations PROVE Goal
  BY <1>1
<1>2. ASSUME NEW f \in EventId, NEW q \in Address, Reserve(f, q)
      PROVE  Goal
  <2>1. CASE f = e /\ q = p
    BY <1>2, <2>1, ReserveOne DEF Locks, Reserve, ReservationAllowed, FirstReservation
  <2>2. CASE ~ (f = e /\ q = p)
    <3>1. OthersKept(f, q)
      BY <1>2, ReserveOne
    <3>2. reservations'[e][p] = reservations[e][p]
      BY <2>2, <3>1 DEF OthersKept
    <3> QED BY <3>2
  <2> QED BY <2>1, <2>2
<1>3. ASSUME NEW f \in EventId, NEW q \in Address, IsLocked(f, q),
             NEW outcome \in ReservationStatus \ {"Locked"}, Close(f, q, outcome),
             ~ (f = e /\ q = p)
      PROVE  Goal
  <2>1. OthersKept(f, q)
    BY <1>3, CloseOne
  <2>2. reservations'[e][p] = reservations[e][p]
    BY <1>3, <2>1 DEF OthersKept
  <2> QED BY <2>2
<1>4. ASSUME NEW f \in EventId, NEW q \in Address, CancelReservation(f, q)
      PROVE  Goal
  <2>1. IsLocked(f, q) /\ Close(f, q, "Cancelled")
    BY <1>4 DEF CancelReservation, CancellationAllowed
  <2>2. CASE f = e /\ q = p
    <3>1. Ends(e, p, "Cancelled")
      BY <1>4, <2>1, <2>2, CloseOne DEF Ends
    <3> QED BY <3>1 DEF ReservationStatus
  <2> QED BY <2>1, <2>2, <1>3 DEF ReservationStatus
<1>5. ASSUME NEW f \in EventId, NEW q \in Address, CheckIn(f, q)
      PROVE  Goal
  <2>1. IsLocked(f, q) /\ Close(f, q, "Attended")
    BY <1>5 DEF CheckIn, CheckInAllowed
  <2>2. CASE f = e /\ q = p
    <3>1. Ends(e, p, "Attended")
      BY <1>5, <2>1, <2>2, CloseOne DEF Ends
    <3> QED BY <3>1 DEF ReservationStatus
  <2> QED BY <2>1, <2>2, <1>3 DEF ReservationStatus
<1>6. ASSUME NEW f \in EventId, NEW q \in Address, ClaimCancelledEventRefund(f, q)
      PROVE  Goal
  <2>1. IsLocked(f, q) /\ Close(f, q, "Refunded")
    BY <1>6 DEF ClaimCancelledEventRefund, RefundAllowed
  <2>2. CASE f = e /\ q = p
    <3>1. Ends(e, p, "Refunded")
      BY <1>6, <2>1, <2>2, CloseOne DEF Ends
    <3> QED BY <3>1 DEF ReservationStatus
  <2> QED BY <2>1, <2>2, <1>3 DEF ReservationStatus
<1>7. ASSUME NEW f \in EventId, NEW q \in Address, SettleNoShow(f, q)
      PROVE  Goal
  <2>1. IsLocked(f, q) /\ Close(f, q, "NoShowSettled")
    BY <1>7 DEF SettleNoShow, SettlementAllowed
  <2>2. CASE f = e /\ q = p
    <3>1. Ends(e, p, "NoShowSettled")
      BY <1>7, <2>1, <2>2, CloseOne DEF Ends
    <3> QED BY <3>1 DEF ReservationStatus
  <2> QED BY <2>1, <2>2, <1>3 DEF ReservationStatus
<1>8. ASSUME \/ \E organizer \in Address, t \in Terms : CreateEvent(organizer, t)
             \/ \E f \in EventId : CancelEvent(f)
             \/ Tick \/ TokenStep \/ UNCHANGED vars
      PROVE  Goal
  BY <1>1, <1>8 DEF CreateEvent, CancelEvent, Tick, TokenStep, bondVars, vars
<1> HIDE DEF Goal
<1>9. Goal
  BY <1>2, <1>4, <1>5, <1>6, <1>7, <1>8 DEF Next, Participate
<1> QED BY <1>9 DEF Goal

-----------------------------------------------------------------------------
(* The inductive invariant *)

LEMMA BondInvInit == Init => BondInv
<1> SUFFICES ASSUME Init PROVE BondInv
  OBVIOUS
<1>1. TypeInv
  BY TypeInvInit
<1>2. EventsNumbered
  BY DEF Init, EventsNumbered, EventId
<1>3. OutcomeJustified
  BY DEF Init, OutcomeJustified, HasReservation
<1>4. SeatsMatchReservations
  BY DEF Init, SeatsMatchReservations
<1> QED BY <1>1, <1>2, <1>3, <1>4 DEF BondInv

LEMMA EventsNumberedStep ==
    ASSUME TypeInv, EventsNumbered, [Next]_vars
    PROVE  EventsNumbered'
<1>0. TypeOK /\ TypeOK' /\ None \notin Event
  BY TypeInvStep, BondAssumption DEF TypeInv
<1>1. ASSUME NEW organizer \in Address, NEW t \in Terms, CreateEvent(organizer, t)
      PROVE  EventsNumbered'
  <2>1. eventCount + 1 \in EventId /\ eventCount' = eventCount + 1
    BY <1>0, <1>1 DEF TypeOK, CreateEvent, EventId
  <2>2. events'[eventCount + 1] # None
    <3> DEFINE published == [organizer |-> organizer, verifier |-> organizer, terms |-> t,
                             reserved_count |-> 0, status |-> "Active"]
    <3>1. published \in Event
      BY DEF Event, EventStatus
    <3>2. events' = [events EXCEPT ![eventCount + 1] = published]
      BY <1>1 DEF CreateEvent
    <3> HIDE DEF published
    <3> QED BY <1>0, <2>1, <3>1, <3>2 DEF TypeOK
  <2>3. \A e \in EventId : e # eventCount + 1 => events'[e] = events[e]
    BY <1>0, <1>1 DEF CreateEvent, TypeOK
  <2>4. \A e \in EventId : e \in Int /\ eventCount \in Int
    BY <1>0 DEF EventId, TypeOK
  <2> QED BY <2>1, <2>2, <2>3, <2>4 DEF EventsNumbered
<1>2. ASSUME eventCount' = eventCount,
             \A e \in EventId : events[e] = None => events'[e] = None
      PROVE  EventsNumbered'
  BY <1>2, EventStep DEF EventsNumbered, EventKept
<1>3. ASSUME NEW f \in EventId, events[f] # None, eventCount' = eventCount,
             \A e \in EventId : e # f => events'[e] = events[e]
      PROVE  EventsNumbered'
  BY <1>2, <1>3
<1>4. ASSUME NEW f \in EventId, CancelEvent(f) PROVE EventsNumbered'
  BY <1>0, <1>3, <1>4 DEF CancelEvent, EventCancellable, EventIs, TypeOK
<1>5. ASSUME NEW f \in EventId, NEW p \in Address, Reserve(f, p) \/ CancelReservation(f, p)
      PROVE  EventsNumbered'
  BY <1>0, <1>3, <1>5
     DEF Reserve, ReservationAllowed, CancelReservation, CancellationAllowed,
         ReservationOpen, CancellationOpen, EventIs, TypeOK
<1>6. ASSUME UNCHANGED <<eventCount, events>> PROVE EventsNumbered'
  BY <1>2, <1>6
<1>7. ASSUME NEW f \in EventId, NEW p \in Address,
             CheckIn(f, p) \/ ClaimCancelledEventRefund(f, p) \/ SettleNoShow(f, p)
      PROVE  EventsNumbered'
  BY <1>6, <1>7 DEF CheckIn, ClaimCancelledEventRefund, SettleNoShow
<1>8. ASSUME Tick \/ TokenStep \/ UNCHANGED vars
      PROVE  EventsNumbered'
  BY <1>6, <1>8 DEF Tick, TokenStep, bondVars, vars
<1> QED BY <1>1, <1>4, <1>5, <1>7, <1>8 DEF Next, Participate

\* The ledger clock never goes back.
LEMMA ClockStep ==
    ASSUME TypeOK, [Next]_vars
    PROVE  now \in Nat /\ now' \in Nat /\ now <= now'
<1>1. now \in Nat
  BY BondAssumption DEF TypeOK, Time
<1>2. now' = now \/ now' = now + 1
  BY DEF Next, Participate, CreateEvent, CancelEvent, Reserve, CancelReservation, CheckIn,
         ClaimCancelledEventRefund, SettleNoShow, Tick, TokenStep, vars
<1> QED BY <1>1, <1>2

LEMMA OutcomeJustifiedStep ==
    ASSUME TypeInv, EventsNumbered, OutcomeJustified, [Next]_vars
    PROVE  OutcomeJustified'
<1> DEFINE Justified(e, p) ==
        LET r == reservations[e][p]
            t == events[e].terms
        IN  /\ events[e] # None
            /\ r.amount = t.bond_amount
            /\ r.reserved_at <= now
            /\ r.reserved_at < t.checkin_deadline
            /\ r.status = "Attended" => now >= t.checkin_start
            /\ r.status = "NoShowSettled" => now > t.checkin_deadline
            /\ r.status = "Refunded" => events[e].status = "Cancelled"
<1> SUFFICES ASSUME NEW e \in EventId, NEW p \in Address, HasReservation(e, p)'
             PROVE  Justified(e, p)'
  BY DEF OutcomeJustified
<1>0. TypeOK /\ TypeOK'
  BY TypeInvStep DEF TypeInv
<1>1. now \in Nat /\ now' \in Nat /\ now <= now'
  BY <1>0, ClockStep
<1>2. ASSUME HasReservation(e, p)
      PROVE  /\ Justified(e, p)
             /\ EventKept(e)
             /\ reservations[e][p].reserved_at \in Nat
             /\ events[e].terms.checkin_start \in Nat
             /\ events[e].terms.checkin_deadline \in Nat
  <2>1. Justified(e, p)
    BY <1>2 DEF OutcomeJustified
  <2>2. events[e].terms \in TermsType /\ EventKept(e)
    BY <1>0, <2>1, EventStep, StoredTypes
  <2>3. reservations[e][p] \in Reservation
    BY <1>0, <1>2, StoredTypes
  <2> QED BY <2>1, <2>2, <2>3 DEF TermsType, Reservation, Time
<1>3. CASE reservations'[e][p] = reservations[e][p]
  <2>1. HasReservation(e, p)
    BY <1>3 DEF HasReservation
  <2>2. events'[e] # None /\ events'[e].terms = events[e].terms
    BY <1>2, <2>1 DEF EventKept
  <2>3. events[e].status = "Cancelled" => events'[e].status = "Cancelled"
    BY <1>2, <2>1 DEF EventKept, EventIs
  <2> QED BY <1>1, <1>2, <1>3, <2>1, <2>2, <2>3
<1>4. CASE Locks(e, p)
  <2>1. /\ events[e] # None
        /\ now < events[e].terms.checkin_deadline
        /\ now' = now
    BY <1>4 DEF Locks, Reserve, ReservationAllowed, ReservationOpen, EventIs
  <2>2. events'[e] # None /\ events'[e].terms = events[e].terms
    BY <2>1, EventStep DEF EventKept
  <2> QED BY <1>1, <1>4, <2>1, <2>2 DEF Locks
<1>5. ASSUME NEW outcome \in ReservationStatus \ {"Locked"}, Ends(e, p, outcome)
      PROVE  Justified(e, p)'
  <2>1. HasReservation(e, p)
    BY <1>5 DEF Ends, IsLocked
  <2>2. /\ reservations'[e][p].amount = reservations[e][p].amount
        /\ reservations'[e][p].reserved_at = reservations[e][p].reserved_at
        /\ reservations'[e][p].status = outcome
    <3>1. reservations[e][p] \in Reservation
      BY <1>0, <2>1, StoredTypes
    <3> QED BY <1>5, <3>1 DEF Ends, Reservation
  <2>3. events'[e] # None /\ events'[e].terms = events[e].terms
    BY <1>2, <2>1 DEF EventKept
  <2>4. outcome = "Attended" => now' >= events[e].terms.checkin_start
    BY <1>1, <1>2, <1>5, <2>1 DEF Ends, CheckIn, CheckInAllowed, CheckInOpen
  <2>5. outcome = "NoShowSettled" => now' > events[e].terms.checkin_deadline
    BY <1>1, <1>2, <1>5, <2>1 DEF Ends, SettleNoShow, SettlementAllowed, SettlementOpen
  <2>6. outcome = "Refunded" => events'[e].status = "Cancelled"
    BY <1>5 DEF Ends, ClaimCancelledEventRefund, RefundAllowed, RefundOpen, EventIs
  <2> QED BY <1>1, <1>2, <2>1, <2>2, <2>3, <2>4, <2>5, <2>6
<1> QED BY <1>0, <1>3, <1>4, <1>5, ReservationStep

-----------------------------------------------------------------------------
(* Seats *)

SeatsMatch(e) ==
    events[e] # None =>
        /\ events[e].reserved_count = Cardinality(Seated(e))
        /\ events[e].reserved_count <= events[e].terms.capacity

\* A step that touches neither the event nor the status of its reservations
\* keeps its seats.
LEMMA SeatsKept ==
    ASSUME NEW e \in EventId, SeatsMatch(e),
           events'[e] = events[e] \/ events'[e] = [events[e] EXCEPT !.status = "Cancelled"],
           events[e] # None => events[e] \in Event,
           \A p \in Address : TakesSeat(e, p)' <=> TakesSeat(e, p),
           events'[e] # None => events[e] # None
    PROVE  SeatsMatch(e)'
<1>1. Seated(e)' = Seated(e)
  BY DEF Seated
<1>2. events'[e] # None =>
        /\ events'[e].reserved_count = events[e].reserved_count
        /\ events'[e].terms = events[e].terms
  BY DEF Event
<1> QED BY <1>1, <1>2 DEF SeatsMatch

\* A reservation that ends otherwise than Cancelled keeps its seat.
LEMMA EndKeepsSeat ==
    ASSUME TypeOK, NEW e \in EventId, NEW p \in Address, IsLocked(e, p),
           NEW outcome \in ReservationStatus \ {"Cancelled"}, Close(e, p, outcome),
           UNCHANGED events, NEW f \in EventId, SeatsMatch(f)
    PROVE  SeatsMatch(f)'
<1>1. /\ reservations'[e][p] = [reservations[e][p] EXCEPT !.status = outcome]
      /\ OthersKept(e, p)
  BY CloseOne
<1>2. reservations[e][p] \in Reservation /\ HasReservation(e, p)
  BY StoredTypes DEF IsLocked
<1>3. reservations'[e][p] \in Reservation /\ reservations'[e][p].status = outcome
  BY <1>1, <1>2 DEF Reservation
<1>4. TakesSeat(e, p) /\ TakesSeat(e, p)'
  BY <1>2, <1>3, BondAssumption DEF TakesSeat, HasReservation, IsLocked
<1>5. \A q \in Address : TakesSeat(f, q)' <=> TakesSeat(f, q)
  BY <1>1, <1>4 DEF OthersKept, TakesSeat, HasReservation
<1>6. events[f] # None => events[f] \in Event
  BY StoredTypes
<1> QED BY <1>5, <1>6, SeatsKept

LEMMA SeatedFinite ==
    ASSUME NEW e PROVE IsFiniteSet(Seated(e))
  BY BondAssumption, FS_Subset DEF Seated

\* The record reserve stores is a reservation, so its key is no longer empty.
LEMMA ReservedType ==
    ASSUME TypeInv, NEW e \in EventId, NEW p \in Address, Reserve(e, p)
    PROVE  [amount |-> events[e].terms.bond_amount, reserved_at |-> now,
            status |-> "Locked"] \in Reservation
<1>1. events[e] # None /\ events[e].terms \in TermsType
  BY StoredTypes DEF Reserve, ReservationAllowed, ReservationOpen, EventIs, TypeInv
<1>2. events[e].terms.bond_amount \in Int
  BY <1>1 DEF TermsType
<1>3. events[e].terms.bond_amount > 0
  BY <1>1 DEF TypeInv, PublishedTermsValid, ValidAmounts
<1>4. now \in Time
  BY DEF TypeInv, TypeOK
<1> QED BY <1>2, <1>3, <1>4 DEF Reservation, ReservationStatus

LEMMA SeatsStep ==
    ASSUME BondInv, [Next]_vars
    PROVE  SeatsMatchReservations'
<1> SUFFICES ASSUME NEW g \in EventId PROVE SeatsMatch(g)'
  BY DEF SeatsMatchReservations, SeatsMatch
<1>0. /\ TypeInv /\ TypeOK /\ EventsNumbered /\ OutcomeJustified
      /\ SeatsMatch(g) /\ (events[g] # None => events[g] \in Event)
  BY StoredTypes DEF BondInv, TypeInv, SeatsMatchReservations, SeatsMatch
<1>1. ASSUME UNCHANGED <<events, reservations>> PROVE SeatsMatch(g)'
  BY <1>0, <1>1, SeatsKept DEF TakesSeat, HasReservation
<1>2. ASSUME NEW organizer \in Address, NEW t \in Terms, CreateEvent(organizer, t)
      PROVE  SeatsMatch(g)'
  <2>1. CASE g = eventCount + 1
    <3>1. events[g] = None
      BY <1>0, <2>1 DEF EventsNumbered, TypeOK
    <3>2. Seated(g)' = {}
      BY <1>0, <1>2, <3>1 DEF Seated, TakesSeat, OutcomeJustified, HasReservation,
                              CreateEvent
    <3>3. events'[g].reserved_count = 0 /\ events'[g].terms = t
      BY <1>0, <1>2, <2>1 DEF CreateEvent, TypeOK
    <3>4. 0 <= t.capacity
      BY BondAssumption DEF TermsType
    <3> QED BY <3>2, <3>3, <3>4, FS_EmptySet DEF SeatsMatch
  <2>2. CASE g # eventCount + 1
    <3>1. events'[g] = events[g]
      BY <1>0, <1>2, <2>2 DEF CreateEvent, TypeOK
    <3>2. \A p \in Address : TakesSeat(g, p)' <=> TakesSeat(g, p)
      BY <1>2 DEF CreateEvent, TakesSeat, HasReservation
    <3> QED BY <1>0, <3>1, <3>2, SeatsKept
  <2> QED BY <2>1, <2>2
<1>3. ASSUME NEW f \in EventId, CancelEvent(f) PROVE SeatsMatch(g)'
  <2>1. \A p \in Address : TakesSeat(g, p)' <=> TakesSeat(g, p)
    BY <1>3 DEF CancelEvent, TakesSeat, HasReservation
  <2>2. events'[g] = events[g] \/ events'[g] = [events[g] EXCEPT !.status = "Cancelled"]
    BY <1>0, <1>3 DEF CancelEvent, TypeOK
  <2>3. events'[g] # None => events[g] # None
    BY <1>0, <1>3 DEF CancelEvent, EventCancellable, TypeOK, EventIs
  <2> QED BY <1>0, <2>1, <2>2, <2>3, SeatsKept
<1>4. ASSUME NEW f \in EventId, NEW p \in Address, Reserve(f, p) PROVE SeatsMatch(g)'
  <2>1. /\ reservations'[f][p] = [amount |-> events[f].terms.bond_amount,
                                  reserved_at |-> now, status |-> "Locked"]
        /\ OthersKept(f, p)
    BY <1>0, <1>4, ReserveOne
  <2>2. CASE g = f
    <3>1. /\ events[g] \in Event /\ events[g] # None
          /\ events'[g] = [events[g] EXCEPT !.reserved_count = @ + 1]
          /\ events[g].reserved_count < events[g].terms.capacity
      BY <1>0, <1>4, <2>2 DEF Reserve, ReservationAllowed, ReservationOpen, EventIs,
                              SeatFree, TypeOK
    <3>2. ~TakesSeat(g, p) /\ TakesSeat(g, p)'
      <4>1. HasReservation(g, p)'
        <5>1. reservations'[g][p] \in Reservation
          BY <2>1, <2>2, <1>4, <1>0, ReservedType
        <5> QED BY <5>1, BondAssumption DEF HasReservation
      <4> QED BY <4>1, <1>4, <2>1, <2>2 DEF Reserve, ReservationAllowed, FirstReservation,
                                            TakesSeat
    <3>3. \A q \in Address : q # p => (TakesSeat(g, q)' <=> TakesSeat(g, q))
      BY <2>1, <2>2 DEF OthersKept, TakesSeat, HasReservation
    <3>4. Seated(g)' = Seated(g) \cup {p} /\ p \notin Seated(g)
      BY <3>2, <3>3 DEF Seated
    <3>5. Cardinality(Seated(g)') = Cardinality(Seated(g)) + 1
      BY <3>4, SeatedFinite, FS_AddElement
    <3>6. events'[g].reserved_count = events[g].reserved_count + 1
          /\ events'[g].terms = events[g].terms
      BY <3>1 DEF Event
    <3>7. events[g].reserved_count \in Nat /\ events[g].terms.capacity \in Nat
      BY <3>1, <1>0, StoredTypes DEF Event, TermsType
    <3> QED BY <1>0, <3>1, <3>5, <3>6, <3>7 DEF SeatsMatch
  <2>3. CASE g # f
    <3>1. events'[g] = events[g]
      BY <1>0, <1>4, <2>3 DEF Reserve, TypeOK
    <3>2. \A q \in Address : TakesSeat(g, q)' <=> TakesSeat(g, q)
      BY <2>1, <2>3 DEF OthersKept, TakesSeat, HasReservation
    <3> QED BY <1>0, <3>1, <3>2, SeatsKept
  <2> QED BY <2>2, <2>3
<1>5. ASSUME NEW f \in EventId, NEW p \in Address, CancelReservation(f, p)
      PROVE  SeatsMatch(g)'
  <2>1. IsLocked(f, p) /\ Close(f, p, "Cancelled")
    BY <1>5 DEF CancelReservation, CancellationAllowed
  <2>2. /\ reservations'[f][p] = [reservations[f][p] EXCEPT !.status = "Cancelled"]
        /\ OthersKept(f, p)
    BY <1>0, <2>1, CloseOne
  <2>3. CASE g = f
    <3>1. /\ events[g] \in Event /\ events[g] # None
          /\ events'[g] = [events[g] EXCEPT !.reserved_count = @ - 1]
      BY <1>0, <1>5, <2>3 DEF CancelReservation, CancellationAllowed, CancellationOpen,
                              EventIs, TypeOK
    <3>2. TakesSeat(g, p) /\ ~TakesSeat(g, p)'
      <4>1. reservations[g][p] \in Reservation
        BY <1>0, <2>1, <2>3, StoredTypes DEF IsLocked
      <4>2. reservations'[g][p].status = "Cancelled"
        BY <2>2, <2>3, <4>1 DEF Reservation
      <4> QED BY <2>1, <2>3, <4>2 DEF IsLocked, TakesSeat
    <3>3. \A q \in Address : q # p => (TakesSeat(g, q)' <=> TakesSeat(g, q))
      BY <2>2, <2>3 DEF OthersKept, TakesSeat, HasReservation
    <3>4. Seated(g)' = Seated(g) \ {p} /\ p \in Seated(g)
      BY <3>2, <3>3 DEF Seated
    <3>5. Cardinality(Seated(g)') = Cardinality(Seated(g)) - 1
      BY <3>4, SeatedFinite, FS_RemoveElement
    <3>6. events'[g].reserved_count = events[g].reserved_count - 1
          /\ events'[g].terms = events[g].terms
      BY <3>1 DEF Event
    <3>7. events[g].reserved_count \in Nat /\ events[g].terms.capacity \in Nat
      BY <3>1, <1>0, StoredTypes DEF Event, TermsType
    <3> QED BY <1>0, <3>1, <3>5, <3>6, <3>7 DEF SeatsMatch
  <2>4. CASE g # f
    <3>1. events'[g] = events[g]
      BY <1>0, <1>5, <2>4 DEF CancelReservation, TypeOK
    <3>2. \A q \in Address : TakesSeat(g, q)' <=> TakesSeat(g, q)
      BY <2>2, <2>4 DEF OthersKept, TakesSeat, HasReservation
    <3> QED BY <1>0, <3>1, <3>2, SeatsKept
  <2> QED BY <2>3, <2>4
<1>6. ASSUME NEW f \in EventId, NEW p \in Address, CheckIn(f, p)
      PROVE  SeatsMatch(g)'
  BY <1>0, <1>6, EndKeepsSeat DEF CheckIn, CheckInAllowed, ReservationStatus
<1>7. ASSUME NEW f \in EventId, NEW p \in Address, ClaimCancelledEventRefund(f, p)
      PROVE  SeatsMatch(g)'
  BY <1>0, <1>7, EndKeepsSeat DEF ClaimCancelledEventRefund, RefundAllowed,
                                  ReservationStatus
<1>8. ASSUME NEW f \in EventId, NEW p \in Address, SettleNoShow(f, p)
      PROVE  SeatsMatch(g)'
  BY <1>0, <1>8, EndKeepsSeat DEF SettleNoShow, SettlementAllowed, ReservationStatus
<1>9. ASSUME Tick \/ TokenStep \/ UNCHANGED vars
      PROVE  SeatsMatch(g)'
  BY <1>1, <1>9 DEF Tick, TokenStep, bondVars, vars
<1> QED BY <1>2, <1>3, <1>4, <1>5, <1>6, <1>7, <1>8, <1>9 DEF Next, Participate

LEMMA BondInvStep == BondInv /\ [Next]_vars => BondInv'
  BY TypeInvStep, EventsNumberedStep, OutcomeJustifiedStep, SeatsStep DEF BondInv

LEMMA BondInvHolds == Spec => []BondInv
  BY BondInvInit, BondInvStep, PTL DEF Spec

-----------------------------------------------------------------------------
(* Theorems *)

\* reserved_count counts the participants who hold a seat, and capacity is
\* never exceeded, whatever the order of reservations and cancellations.
THEOREM SeatsCorrect == Spec => []SeatsMatchReservations
<1>1. BondInv => SeatsMatchReservations
  BY DEF BondInv
<1> QED BY <1>1, BondInvHolds, PTL

\* Every outcome on record is one the clock and the event justify.
THEOREM OutcomesCorrect == Spec => []OutcomeJustified
<1>1. BondInv => OutcomeJustified
  BY DEF BondInv
<1> QED BY <1>1, BondInvHolds, PTL

\* A reservation leaves Locked once, and nothing undoes, repeats or replaces it.
THEOREM ReservationsStayFinal == Spec => ReservationsFinal
<1>1. ASSUME BondInv, [Next]_vars,
             NEW e \in EventId, NEW p \in Address, HasReservation(e, p)
      PROVE  \/ reservations'[e][p] = reservations[e][p]
             \/ /\ IsLocked(e, p)
                /\ \E outcome \in ReservationStatus \ {"Locked"} :
                     reservations'[e][p] = [reservations[e][p] EXCEPT !.status = outcome]
  <2>1. TypeOK
    BY <1>1 DEF BondInv, TypeInv
  <2>2. \/ reservations'[e][p] = reservations[e][p]
        \/ \E outcome \in ReservationStatus \ {"Locked"} : Ends(e, p, outcome)
    BY <1>1, <2>1, ReservationStep DEF Locks
  <2> QED BY <2>2 DEF Ends
<1>2. BondInv /\ [Next]_vars => [ReservationsOnlyEnd]_vars
  BY <1>1 DEF ReservationsOnlyEnd
<1> QED BY <1>2, BondInvHolds, PTL DEF Spec, ReservationsFinal

\* Once an event is cancelled it is frozen, and only the refund moves its bonds.
THEOREM CancelledEventsOnlyRefund == Spec => CancelledEventOnlyRefunds
<1>1. ASSUME BondInv, [Next]_vars, NEW e \in EventId, EventIs(e, "Cancelled")
      PROVE  /\ events'[e] = events[e]
             /\ \A p \in Address : reservations'[e][p] # reservations[e][p] =>
                  /\ IsLocked(e, p)
                  /\ reservations'[e][p].status = "Refunded"
                  /\ balance' = Moved(balance, Contract, p, reservations[e][p].amount)
  <2>1. TypeInv /\ TypeOK /\ EventsNumbered /\ events[e] # None
    BY <1>1 DEF BondInv, TypeInv, EventIs
  <2>2. events'[e] = events[e]
    BY <1>1, <2>1, EventStep DEF EventKept
  <2>3. ASSUME NEW p \in Address, reservations'[e][p] # reservations[e][p]
        PROVE  /\ IsLocked(e, p)
               /\ reservations'[e][p].status = "Refunded"
               /\ balance' = Moved(balance, Contract, p, reservations[e][p].amount)
    <3>1. ~EventIs(e, "Active")
      BY <1>1 DEF EventIs
    <3>2. ~Locks(e, p)
      BY <3>1 DEF Locks, Reserve, ReservationAllowed, ReservationOpen
    <3>3. PICK outcome \in ReservationStatus \ {"Locked"} : Ends(e, p, outcome)
      BY <1>1, <2>1, <2>3, <3>2, ReservationStep
    <3>4. outcome = "Refunded" /\ ClaimCancelledEventRefund(e, p)
      BY <3>1, <3>3 DEF Ends, CancelReservation, CancellationAllowed, CancellationOpen,
                        CheckIn, CheckInAllowed, CheckInOpen,
                        SettleNoShow, SettlementAllowed, SettlementOpen
    <3>5. reservations[e][p] \in Reservation
      BY <2>1, <3>3, StoredTypes DEF Ends, IsLocked
    <3> QED BY <3>3, <3>4, <3>5 DEF Ends, ClaimCancelledEventRefund, PayBack, Reservation
  <2> QED BY <2>2, <2>3
<1>2. BondInv /\ [Next]_vars => [CancelledOnlyRefunded]_vars
  BY <1>1 DEF CancelledOnlyRefunded
<1> QED BY <1>2, BondInvHolds, PTL DEF Spec, CancelledEventOnlyRefunds

-----------------------------------------------------------------------------
(* Accounts that sign nothing *)

Untouched(a) ==
    /\ balance[a] >= InitialBalance[a]
    /\ \A e \in EventId :
         /\ ~HasReservation(e, a)
         /\ events[e] # None => events[e].organizer # a

\* A covered transfer takes only from its source.
LEMMA MovedOnlyFrom ==
    ASSUME NEW bal \in [Holder -> Nat], NEW from \in Holder, NEW to \in Holder,
           NEW amount \in Nat, NEW a \in Holder, a # from
    PROVE  Moved(bal, from, to, amount)[a] >= bal[a]
<1>1. CASE a = to
  BY <1>1 DEF Moved
<1>2. CASE a # to
  BY <1>2 DEF Moved
<1> QED BY <1>1, <1>2

\* Only create_event publishes an event.
LEMMA PublishedByCreate ==
    ASSUME TypeOK, [Next]_vars, NEW e \in EventId, events[e] = None, events'[e] # None
    PROVE  \E organizer \in Address, t \in Terms : CreateEvent(organizer, t)
<1>1. ASSUME NEW f \in EventId, CancelEvent(f) PROVE FALSE
  BY <1>1 DEF CancelEvent, EventCancellable, EventIs, TypeOK
<1>2. ASSUME NEW f \in EventId, NEW p \in Address, Reserve(f, p) \/ CancelReservation(f, p)
      PROVE  FALSE
  BY <1>2 DEF Reserve, ReservationAllowed, ReservationOpen, CancelReservation,
              CancellationAllowed, CancellationOpen, EventIs, TypeOK
<1>3. events' # events
  OBVIOUS
<1> QED
  BY <1>1, <1>2, <1>3
     DEF Next, Participate, CheckIn, ClaimCancelledEventRefund, SettleNoShow, Tick,
         TokenStep,
         bondVars, vars

LEMMA BalanceKept ==
    ASSUME TypeInv, [Next]_vars, NEW a \in Address, a \notin Signers
    PROVE  balance'[a] >= balance[a]
<1>0. /\ TypeOK /\ balance \in [Holder -> Nat] /\ a \in Holder /\ Contract \in Holder
      /\ a # Contract /\ balance[a] \in Nat /\ \A p \in Address : p \in Holder
  BY TokenAssumption DEF TypeInv, TypeOK, TokenTypeOK, Holder
<1>1. ASSUME balance' = balance PROVE balance'[a] >= balance[a]
  BY <1>0, <1>1
<1>2. ASSUME NEW e \in EventId, NEW p \in Address, Reserve(e, p)
      PROVE  balance'[a] >= balance[a]
  <2>1. a # p
    BY <1>2 DEF Reserve, ReservationAllowed, Authorized
  <2>2. events[e].terms.bond_amount \in Nat
    BY <1>2, ReservedType DEF Reservation
  <2> QED BY <1>0, <1>2, <2>1, <2>2, MovedOnlyFrom DEF Reserve
<1>3. ASSUME NEW e \in EventId, NEW p \in Address, IsLocked(e, p), PayBack(e, p)
      PROVE  balance'[a] >= balance[a]
  <2>1. reservations[e][p].amount \in Nat
    BY <1>0, <1>3, StoredTypes DEF IsLocked, Reservation
  <2> QED BY <1>0, <1>3, <2>1, MovedOnlyFrom DEF PayBack
<1>4. ASSUME NEW e \in EventId, NEW p \in Address, SettleNoShow(e, p)
      PROVE  balance'[a] >= balance[a]
  <2> DEFINE organizer == events[e].organizer
             paid == Moved(balance, Contract, organizer, OrganizerAmount(e, p))
  <2>1. HasReservation(e, p) /\ events[e] # None
    BY <1>4 DEF SettleNoShow, SettlementAllowed, IsLocked, SettlementOpen, EventIs
  <2>2. OrganizerAmount(e, p) \in Nat /\ CommunityAmount(e, p) \in Nat
    BY <2>1, SplitExact
  <2>3. Pool \in Holder /\ organizer \in Holder
    BY <2>1, <1>0, BondAssumption, StoredTypes
  <2>4. balance[Contract] >= OrganizerAmount(e, p)
        /\ balance' = Moved(paid, Contract, Pool, CommunityAmount(e, p))
    BY <1>4 DEF SettleNoShow, SettlementAllowed, OrganizerPaid, CanTransfer
  <2>5. paid \in [Holder -> Nat] /\ paid[a] >= balance[a]
    BY <1>0, <2>2, <2>3, <2>4, MovedType, MovedOnlyFrom
  <2> HIDE DEF paid
  <2>6. balance'[a] >= paid[a] /\ paid[a] \in Nat
    BY <1>0, <2>2, <2>3, <2>4, <2>5, MovedOnlyFrom
  <2>7. balance'[a] \in Nat
    BY <1>0, TypeInvStep DEF TypeInv, TypeOK, TokenTypeOK
  <2> QED BY <1>0, <2>5, <2>6, <2>7
<1>5. CASE TokenStep
  <2>1. ASSUME NEW from \in Address, NEW to \in Holder, TransferAround(from, to)
        PROVE  balance'[a] >= balance[a]
    <3>1. a # from
      BY <2>1 DEF TransferAround, Authorized
    <3>2. PICK amount \in TransferAmounts : balance' = Moved(balance, from, to, amount)
      BY <2>1 DEF TransferAround
    <3>3. amount \in Nat
      BY TokenAssumption
    <3> QED BY <1>0, <3>1, <3>2, <3>3, MovedOnlyFrom
  <2> QED BY <1>1, <1>5, <2>1 DEF TokenStep, TokenNext, ChangeTrust
<1>6. ASSUME NEW e \in EventId, NEW p \in Address, Participate(e, p)
      PROVE  balance'[a] >= balance[a]
  BY <1>2, <1>3, <1>4, <1>6
     DEF Participate, CancelReservation, CancellationAllowed, CheckIn, CheckInAllowed,
         ClaimCancelledEventRefund, RefundAllowed
<1>7. ASSUME \/ \E organizer \in Address, t \in Terms : CreateEvent(organizer, t)
             \/ \E e \in EventId : CancelEvent(e)
             \/ Tick \/ UNCHANGED vars
      PROVE  balance'[a] >= balance[a]
  BY <1>1, <1>7 DEF CreateEvent, CancelEvent, Tick, tokenVars, vars
<1> QED BY <1>5, <1>6, <1>7 DEF Next

\* No sequence of calls by others takes anything from an account that never
\* signs, nor reserves or publishes anything in its name.
THEOREM SilentAccountsSafe == Spec => []SilentAccountsUntouched
<1>1. Init => SilentAccountsUntouched
  <2> SUFFICES ASSUME Init, NEW a \in Address \ Signers PROVE Untouched(a)
    BY DEF SilentAccountsUntouched, Untouched
  <2>1. balance[a] = InitialBalance[a] /\ InitialBalance[a] \in Nat
    BY TokenAssumption DEF Init, TokenInit, Holder
  <2>2. \A e \in EventId : ~HasReservation(e, a) /\ events[e] = None
    BY DEF Init, HasReservation
  <2> QED BY <2>1, <2>2 DEF Untouched
<1>2. BondInv /\ SilentAccountsUntouched /\ [Next]_vars => SilentAccountsUntouched'
  <2> SUFFICES ASSUME BondInv, SilentAccountsUntouched, [Next]_vars,
                      NEW a \in Address \ Signers
               PROVE  Untouched(a)'
    BY DEF SilentAccountsUntouched, Untouched
  <2>0. TypeInv /\ TypeOK /\ TypeOK' /\ EventsNumbered /\ Untouched(a)
    BY TypeInvStep DEF BondInv, TypeInv, SilentAccountsUntouched, Untouched
  <2>1. balance'[a] >= InitialBalance[a]
    <3>1. /\ balance[a] \in Nat /\ balance'[a] \in Nat /\ InitialBalance[a] \in Nat
          /\ balance[a] >= InitialBalance[a]
      BY <2>0, TokenAssumption DEF TypeOK, TokenTypeOK, Holder, Untouched
    <3>2. balance'[a] >= balance[a]
      BY <2>0, BalanceKept
    <3> QED BY <3>1, <3>2
  <2>2. ASSUME NEW e \in EventId PROVE ~HasReservation(e, a)'
    <3>1. ~HasReservation(e, a)
      BY <2>0 DEF Untouched
    <3>2. ~Locks(e, a)
      BY DEF Locks, Reserve, ReservationAllowed, Authorized
    <3>3. reservations'[e][a] = reservations[e][a]
      BY <2>0, <3>1, <3>2, ReservationStep DEF Ends, IsLocked
    <3> QED BY <3>1, <3>3 DEF HasReservation
  <2>3. ASSUME NEW e \in EventId, events'[e] # None PROVE events'[e].organizer # a
    <3>1. CASE events[e] # None
      BY <2>0, <3>1, EventStep DEF EventKept, Untouched
    <3>2. CASE events[e] = None
      <4>1. PICK organizer \in Address, t \in Terms : CreateEvent(organizer, t)
        BY <2>0, <2>3, <3>2, PublishedByCreate
      <4>2. organizer # a
        BY <4>1 DEF CreateEvent, Authorized
      <4>3. events'[e].organizer = organizer
        BY <2>0, <2>3, <3>2, <4>1 DEF CreateEvent, TypeOK
      <4> QED BY <4>2, <4>3
    <3> QED BY <3>1, <3>2
  <2> QED BY <2>1, <2>2, <2>3 DEF Untouched
<1> QED BY <1>1, <1>2, BondInvHolds, PTL DEF Spec
=============================================================================
