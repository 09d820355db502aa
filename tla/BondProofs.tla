----------------------------- MODULE BondProofs -----------------------------
(***************************************************************************)
(* Theorems about the showup-bond contract, for every set of accounts,     *)
(* every policy, every number of events and every clock.                   *)
(***************************************************************************)
EXTENDS BondProperties, FiniteSetTheorems, TLAPS

-----------------------------------------------------------------------------
(* The token *)

\* A covered transfer keeps every balance a natural number.
LEMMA MovedType ==
    ASSUME NEW bal \in [Holder -> Nat], NEW from \in Holder, NEW to \in Holder,
           NEW amount \in Nat, bal[from] >= amount
    PROVE  Moved(bal, from, to, amount) \in [Holder -> Nat]
<1> DEFINE debited == [bal EXCEPT ![from] = @ - amount]
<1>1. debited \in [Holder -> Nat]
  OBVIOUS
<1>2. [debited EXCEPT ![to] = @ + amount] \in [Holder -> Nat]
  BY <1>1
<1> QED BY <1>2 DEF Moved

\* What a stored event or reservation holds.
LEMMA StoredTypes ==
    ASSUME TypeOK, NEW e \in EventId
    PROVE  /\ events[e] # None =>
                /\ events[e] \in Event
                /\ events[e].organizer \in Address
                /\ events[e].verifier \in Address
                /\ events[e].terms \in TermsType
           /\ \A p \in Address : HasReservation(e, p) =>
                reservations[e][p] \in Reservation
<1>1. events[e] # None => events[e] \in Event
  BY DEF TypeOK
<1>2. ASSUME events[e] # None PROVE events[e].terms \in TermsType
  BY <1>1, <1>2, BondAssumption DEF Event
<1> QED BY <1>1, <1>2 DEF TypeOK, HasReservation, Event

\* The organizer's share of a bond is a natural number no larger than the bond.
LEMMA ProductBounded ==
    ASSUME NEW amount \in Nat, NEW bps \in Nat, bps <= 10000
    PROVE  amount * bps \in Nat /\ amount * bps <= amount * 10000
  BY SMT

LEMMA QuotientBounded ==
    ASSUME NEW amount \in Nat, NEW n \in Nat, n <= amount * 10000
    PROVE  n \div 10000 \in Nat /\ n \div 10000 <= amount
  BY SMT

LEMMA ShareBounded ==
    ASSUME NEW amount \in Nat, NEW bps \in Nat, bps <= 10000
    PROVE  (amount * bps) \div 10000 \in Nat /\ (amount * bps) \div 10000 <= amount
<1> DEFINE n == amount * bps
<1>1. n \in Nat /\ n <= amount * 10000
  BY ProductBounded
<1> HIDE DEF n
<1>2. n \div 10000 \in Nat /\ n \div 10000 <= amount
  BY <1>1, QuotientBounded
<1> QED BY <1>2 DEF n

\* Accepted basis points are between none and all.
LEMMA ValidBps ==
    ASSUME NEW t \in TermsType, ValidAmounts(t)
    PROVE  t.organizer_bps \in Nat /\ t.organizer_bps <= 10000
<1>1. t.organizer_bps \in Nat /\ t.community_bps \in Nat
  BY DEF TermsType
<1>2. t.organizer_bps + t.community_bps = 10000
  BY DEF ValidAmounts, BpsTotal
<1> QED BY <1>1, <1>2

-----------------------------------------------------------------------------
(* Type correctness: the split of a settlement is well typed only because   *)
(* every stored event passed create_event's checks.                         *)

PublishedTermsValid ==
    \A e \in EventId : events[e] # None =>
        ValidAmounts(events[e].terms) /\ ValidSchedule(events[e].terms)

TypeInv == TypeOK /\ PublishedTermsValid

LEMMA CloseType ==
    ASSUME TypeOK, NEW e \in EventId, NEW p \in Address, HasReservation(e, p),
           NEW status \in ReservationStatus, Close(e, p, status)
    PROVE  reservations' \in [EventId -> [Address -> Reservation \cup {None}]]
<1>1. [reservations[e][p] EXCEPT !.status = status] \in Reservation
  BY DEF TypeOK, HasReservation, Reservation
<1>2. [reservations[e] EXCEPT ![p].status = status] \in [Address -> Reservation \cup {None}]
  BY <1>1 DEF TypeOK
<1> QED BY <1>2 DEF TypeOK, Close

LEMMA PayBackType ==
    ASSUME TypeOK, NEW e \in EventId, NEW p \in Address, HasReservation(e, p),
           CanPayBack(e, p), PayBack(e, p)
    PROVE  balance' \in [Holder -> Nat]
<1>1. reservations[e][p].amount \in Nat
  BY DEF TypeOK, HasReservation, Reservation
<1>2. balance \in [Holder -> Nat] /\ Contract \in Holder /\ p \in Holder
  BY DEF TypeOK, TokenTypeOK, Holder
<1> QED BY <1>1, <1>2, MovedType DEF PayBack, CanPayBack, CanTransfer

\* Both shares of a settlement are naturals that sum to the bond.
LEMMA SplitExact ==
    ASSUME TypeInv, NEW e \in EventId, NEW p \in Address,
           HasReservation(e, p), events[e] # None
    PROVE  /\ reservations[e][p].amount \in Nat
           /\ OrganizerAmount(e, p) \in Nat
           /\ CommunityAmount(e, p) \in Nat
           /\ OrganizerAmount(e, p) + CommunityAmount(e, p) = reservations[e][p].amount
<1> DEFINE amount == reservations[e][p].amount
           bps == events[e].terms.organizer_bps
<1>1. amount \in Nat
  BY DEF TypeInv, TypeOK, HasReservation, Reservation
<1>2. bps \in Nat /\ bps <= 10000
  <2>1. events[e].terms \in TermsType /\ ValidAmounts(events[e].terms)
    BY StoredTypes DEF TypeInv, PublishedTermsValid
  <2> QED BY <2>1, ValidBps
<1>3. OrganizerAmount(e, p) = (amount * bps) \div 10000
  BY DEF OrganizerAmount, BpsTotal
<1> HIDE DEF amount, bps
<1>4. OrganizerAmount(e, p) \in Nat /\ OrganizerAmount(e, p) <= amount
  BY <1>1, <1>2, <1>3, ShareBounded
<1>5. CommunityAmount(e, p) = amount - OrganizerAmount(e, p)
  BY DEF CommunityAmount, amount
<1> QED BY <1>1, <1>4, <1>5 DEF amount

LEMMA SettleType ==
    ASSUME TypeInv, NEW e \in EventId, NEW p \in Address, SettleNoShow(e, p)
    PROVE  balance' \in [Holder -> Nat]
<1> DEFINE organizer == events[e].organizer
           paid == Moved(balance, Contract, organizer, OrganizerAmount(e, p))
<1>1. HasReservation(e, p) /\ events[e] # None
  BY DEF SettleNoShow, SettlementAllowed, IsLocked, SettlementOpen, EventIs
<1>2. OrganizerAmount(e, p) \in Nat /\ CommunityAmount(e, p) \in Nat
  BY <1>1, SplitExact
<1>3. balance \in [Holder -> Nat] /\ Contract \in Holder /\ Pool \in Holder
      /\ organizer \in Holder
  BY <1>1, BondAssumption, StoredTypes DEF TypeInv, TypeOK, TokenTypeOK, Holder
<1>4. balance[Contract] >= OrganizerAmount(e, p)
      /\ paid[Contract] >= CommunityAmount(e, p)
      /\ balance' = Moved(paid, Contract, Pool, CommunityAmount(e, p))
  BY DEF SettleNoShow, SettlementAllowed, OrganizerPaid, CanTransfer
<1>5. paid \in [Holder -> Nat]
  BY <1>2, <1>3, <1>4, MovedType
<1> HIDE DEF paid
<1> QED BY <1>2, <1>3, <1>4, <1>5, MovedType

LEMMA TokenStepType ==
    ASSUME TokenTypeOK, TokenNext
    PROVE  TokenTypeOK'
<1>1. ASSUME NEW a \in Address, ChangeTrust(a) PROVE TokenTypeOK'
  BY <1>1 DEF ChangeTrust, TokenTypeOK
<1>2. ASSUME NEW from \in Address, NEW to \in Holder, TransferAround(from, to)
      PROVE  TokenTypeOK'
  <2>1. PICK amount \in TransferAmounts :
          balance[from] >= amount /\ balance' = Moved(balance, from, to, amount)
    BY <1>2 DEF TransferAround, CanTransfer
  <2>2. amount \in Nat /\ from \in Holder
    BY TokenAssumption DEF Holder
  <2>3. balance' \in [Holder -> Nat]
    BY <2>1, <2>2, MovedType DEF TokenTypeOK
  <2> QED BY <1>2, <2>3 DEF TransferAround, TokenTypeOK
<1> QED BY <1>1, <1>2 DEF TokenNext

LEMMA TypeInvInit == Init => TypeInv
<1> SUFFICES ASSUME Init PROVE TypeInv
  OBVIOUS
<1>1. TokenTypeOK
  BY TokenAssumption DEF Init, TokenInit, TokenTypeOK, Holder
<1>2. TypeOK
  BY <1>1, BondAssumption DEF Init, TypeOK, Time
<1>3. PublishedTermsValid
  BY DEF Init, PublishedTermsValid
<1> QED BY <1>2, <1>3 DEF TypeInv

\* A change of the number of taken seats keeps events well typed.
LEMMA CountType ==
    ASSUME TypeOK, NEW e \in EventId, events[e] # None, NEW n \in Nat,
           events' = [events EXCEPT ![e].reserved_count = n]
    PROVE  events' \in [EventId -> Event \cup {None}]
<1>1. [events[e] EXCEPT !.reserved_count = n] \in Event
  BY StoredTypes DEF Event
<1> QED BY <1>1 DEF TypeOK

LEMMA TypeInvStep == TypeInv /\ [Next]_vars => TypeInv'
<1> SUFFICES ASSUME TypeInv, [Next]_vars PROVE TypeInv'
  OBVIOUS
<1> USE DEF TypeInv
<1>0. /\ TypeOK /\ TokenTypeOK /\ now \in Time /\ PublishedTermsValid
      /\ balance \in [Holder -> Nat] /\ trustline \in [Address -> BOOLEAN]
  BY DEF TypeOK, TokenTypeOK
<1>1. ASSUME NEW organizer \in Address, NEW t \in Terms, CreateEvent(organizer, t)
      PROVE  TypeInv'
  <2> DEFINE published == [organizer |-> organizer, verifier |-> organizer, terms |-> t,
                           reserved_count |-> 0, status |-> "Active"]
  <2>1. eventCount' \in 0..MaxEvents /\ eventCount + 1 \in EventId
    BY <1>1, <1>0, BondAssumption DEF CreateEvent, TypeOK, EventId
  <2>2. published \in Event
    BY DEF Event, EventStatus
  <2>3. events' = [events EXCEPT ![eventCount + 1] = published]
    BY <1>1 DEF CreateEvent
  <2> HIDE DEF published
  <2>4. events' \in [EventId -> Event \cup {None}]
    BY <2>1, <2>2, <2>3, <1>0 DEF TypeOK
  <2>5. TypeOK'
    BY <1>1, <1>0, <2>1, <2>4 DEF CreateEvent, TypeOK, TokenTypeOK, tokenVars
  <2>6. published.terms = t /\ ValidAmounts(t) /\ ValidSchedule(t)
    BY <1>1 DEF CreateEvent, published
  <2>7. PublishedTermsValid'
    <3> SUFFICES ASSUME NEW e \in EventId, events'[e] # None
                 PROVE  ValidAmounts(events'[e].terms) /\ ValidSchedule(events'[e].terms)
      BY DEF PublishedTermsValid
    <3>1. CASE e = eventCount + 1
      BY <3>1, <2>3, <2>6, <1>0 DEF TypeOK
    <3>2. CASE e # eventCount + 1
      BY <3>2, <2>3, <1>0 DEF TypeOK, PublishedTermsValid
    <3> QED BY <3>1, <3>2
  <2> QED BY <2>5, <2>7
<1>2. ASSUME NEW e \in EventId, CancelEvent(e)
      PROVE  TypeInv'
  <2>1. [events[e] EXCEPT !.status = "Cancelled"] \in Event
    BY <1>2, <1>0, StoredTypes DEF CancelEvent, EventCancellable, EventIs, Event,
                                   EventStatus
  <2>2. TypeOK'
    BY <1>2, <1>0, <2>1 DEF CancelEvent, TypeOK, TokenTypeOK, tokenVars
  <2>3. \A f \in EventId : events'[f] # None =>
           events[f] # None /\ events'[f].terms = events[f].terms
    BY <1>2, <1>0, StoredTypes DEF CancelEvent, EventCancellable, TypeOK, Event, EventIs
  <2>4. PublishedTermsValid'
    BY <2>3, <1>0 DEF PublishedTermsValid
  <2> QED BY <2>2, <2>4
<1>3. ASSUME NEW e \in EventId, NEW p \in Address, Reserve(e, p)
      PROVE  TypeInv'
  <2> DEFINE bond == events[e].terms.bond_amount
             locked == [amount |-> bond, reserved_at |-> now, status |-> "Locked"]
  <2>1. events[e] # None
    BY <1>3 DEF Reserve, ReservationAllowed, ReservationOpen, EventIs
  <2>2. bond \in Nat \ {0}
    <3>1. events[e].terms.bond_amount \in Int
      BY <2>1, <1>0, StoredTypes DEF TermsType
    <3>2. events[e].terms.bond_amount > 0
      BY <2>1, <1>0 DEF PublishedTermsValid, ValidAmounts
    <3> QED BY <3>1, <3>2
  <2>3. locked \in Reservation
    BY <2>2, <1>0 DEF Reservation, ReservationStatus
  <2>4. reservations' = [reservations EXCEPT ![e][p] = locked]
    BY <1>3 DEF Reserve
  <2>5. /\ balance[p] >= bond
        /\ balance' = Moved(balance, p, Contract, bond)
    BY <1>3 DEF Reserve, ReservationAllowed, CanTransfer
  <2> HIDE DEF locked, bond
  <2>6. reservations' \in [EventId -> [Address -> Reservation \cup {None}]]
    BY <2>3, <2>4, <1>0 DEF TypeOK
  <2>7. balance' \in [Holder -> Nat]
    BY <2>2, <2>5, <1>0, MovedType DEF Holder
  <2>8. events[e].reserved_count + 1 \in Nat
    BY <2>1, <1>0, StoredTypes DEF Event
  <2>9. events' \in [EventId -> Event \cup {None}]
    BY <1>3, <1>0, <2>1, <2>8, CountType DEF Reserve
  <2>10. TypeOK'
    BY <1>3, <1>0, <2>6, <2>7, <2>9 DEF Reserve, TypeOK, TokenTypeOK
  <2>11. PublishedTermsValid'
    BY <1>3, <1>0, <2>1, StoredTypes DEF Reserve, TypeOK, Event, PublishedTermsValid
  <2> QED BY <2>10, <2>11
<1>4. ASSUME NEW e \in EventId, NEW p \in Address, CancelReservation(e, p)
      PROVE  TypeInv'
  <2>1. events[e] # None /\ HasReservation(e, p)
    BY <1>4 DEF CancelReservation, CancellationAllowed, CancellationOpen, EventIs, IsLocked
  <2>2. reservations' \in [EventId -> [Address -> Reservation \cup {None}]]
    BY <1>4, <1>0, <2>1, CloseType DEF CancelReservation, ReservationStatus
  <2>3. balance' \in [Holder -> Nat]
    BY <1>4, <1>0, <2>1, PayBackType DEF CancelReservation, CancellationAllowed
  <2>4. events[e].reserved_count - 1 \in Nat
    <3>1. events[e].reserved_count \in Nat
      BY <2>1, <1>0, StoredTypes DEF Event
    <3> QED BY <3>1, <1>4 DEF CancelReservation, CancellationAllowed
  <2>5. events' \in [EventId -> Event \cup {None}]
    BY <1>4, <1>0, <2>1, <2>4, CountType DEF CancelReservation
  <2>6. TypeOK'
    BY <1>4, <1>0, <2>2, <2>3, <2>5 DEF CancelReservation, TypeOK, TokenTypeOK
  <2>7. PublishedTermsValid'
    BY <1>4, <1>0, <2>1, StoredTypes
       DEF CancelReservation, TypeOK, Event, PublishedTermsValid
  <2> QED BY <2>6, <2>7
<1>5. ASSUME NEW e \in EventId, NEW p \in Address, CheckIn(e, p)
      PROVE  TypeInv'
  <2>1. HasReservation(e, p)
    BY <1>5 DEF CheckIn, CheckInAllowed, IsLocked
  <2>2. reservations' \in [EventId -> [Address -> Reservation \cup {None}]]
    BY <1>5, <1>0, <2>1, CloseType DEF CheckIn, ReservationStatus
  <2>3. balance' \in [Holder -> Nat]
    BY <1>5, <1>0, <2>1, PayBackType DEF CheckIn, CheckInAllowed
  <2> QED BY <1>5, <1>0, <2>2, <2>3 DEF CheckIn, TypeOK, TokenTypeOK, PublishedTermsValid
<1>6. ASSUME NEW e \in EventId, NEW p \in Address, ClaimCancelledEventRefund(e, p)
      PROVE  TypeInv'
  <2>1. HasReservation(e, p)
    BY <1>6 DEF ClaimCancelledEventRefund, RefundAllowed, IsLocked
  <2>2. reservations' \in [EventId -> [Address -> Reservation \cup {None}]]
    BY <1>6, <1>0, <2>1, CloseType DEF ClaimCancelledEventRefund, ReservationStatus
  <2>3. balance' \in [Holder -> Nat]
    BY <1>6, <1>0, <2>1, PayBackType DEF ClaimCancelledEventRefund, RefundAllowed
  <2> QED BY <1>6, <1>0, <2>2, <2>3
          DEF ClaimCancelledEventRefund, TypeOK, TokenTypeOK, PublishedTermsValid
<1>7. ASSUME NEW e \in EventId, NEW p \in Address, SettleNoShow(e, p)
      PROVE  TypeInv'
  <2>1. HasReservation(e, p)
    BY <1>7 DEF SettleNoShow, SettlementAllowed, IsLocked
  <2>2. reservations' \in [EventId -> [Address -> Reservation \cup {None}]]
    BY <1>7, <1>0, <2>1, CloseType DEF SettleNoShow, ReservationStatus
  <2>3. balance' \in [Holder -> Nat]
    BY <1>7, <1>0, SettleType
  <2> QED BY <1>7, <1>0, <2>2, <2>3
          DEF SettleNoShow, TypeOK, TokenTypeOK, PublishedTermsValid
<1>8. CASE Tick
  <2>1. now' \in Time
    BY <1>8, <1>0, BondAssumption DEF Tick, Time
  <2> QED BY <1>8, <1>0, <2>1
          DEF Tick, bondVars, tokenVars, TypeOK, TokenTypeOK, PublishedTermsValid
<1>9. CASE TokenStep
  BY <1>9, <1>0, TokenStepType DEF TokenStep, bondVars, TypeOK, PublishedTermsValid
<1>10. CASE UNCHANGED vars
  BY <1>10, <1>0 DEF vars, TypeOK, TokenTypeOK, PublishedTermsValid
<1> QED
  BY <1>1, <1>2, <1>3, <1>4, <1>5, <1>6, <1>7, <1>8, <1>9, <1>10 DEF Next, Participate

\* The contract's storage and every balance stay well typed: no arithmetic of
\* the contract leaves the naturals and no balance goes below zero.
THEOREM TypeCorrect == Spec => []TypeOK
<1>1. Spec => []TypeInv
  BY TypeInvInit, TypeInvStep, PTL DEF Spec
<1>2. TypeInv => TypeOK
  BY DEF TypeInv
<1> QED BY <1>1, <1>2, PTL
=============================================================================
