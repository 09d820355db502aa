------------------------ MODULE BondRefinementProofs ------------------------
(***************************************************************************)
(* The showup-bond contract implements Escrow: every step of the contract  *)
(* is a step of the escrow or leaves the escrow's state as it is.  Hence   *)
(* it is solvent, and a bond that is due is never kept back.               *)
(***************************************************************************)
EXTENDS BondSafetyProofs

LEMMA ShiftIsMoved ==
    ASSUME NEW w, NEW from, NEW to, NEW amount
    PROVE  E!Shift(w, from, to, amount) = Moved(w, from, to, amount)
  BY DEF E!Shift, Moved

\* A published event is open in the escrow, void once cancelled.
LEMMA EventMaps ==
    ASSUME TypeOK, NEW e \in EventId
    PROVE  /\ events[e] # None <=> Beneficiary[e] # None
           /\ events[e] # None => Beneficiary[e] = events[e].organizer
           /\ EventIs(e, "Active") => Beneficiary[e] # None /\ e \notin VoidEvents
  BY StoredTypes, BondAssumption DEF Beneficiary, VoidEvents, EventIs

LEMMA SlotMaps ==
    ASSUME TypeOK, NEW e \in EventId, NEW p \in Address
    PROVE  /\ IsLocked(e, p) => /\ HeldAmount[e][p] = reservations[e][p].amount
                                /\ HeldAmount[e][p] \in Nat
                                /\ HeldAmount[e][p] > 0
           /\ ~IsLocked(e, p) => HeldAmount[e][p] = 0
           /\ ~HasReservation(e, p) => <<e, p>> \notin ClosedSlots
<1>1. IsLocked(e, p) => reservations[e][p] \in Reservation
  BY StoredTypes DEF IsLocked
<1>2. HeldAmount[e][p] = IF IsLocked(e, p) THEN reservations[e][p].amount ELSE 0
  BY DEF HeldAmount
<1>3. IsLocked(e, p) => reservations[e][p].amount \in Nat \ {0}
  BY <1>1 DEF Reservation
<1> QED BY <1>2, <1>3 DEF ClosedSlots, IsLocked

\* What is kept of the mapping when events or reservations stay as they are.
LEMMA MapKept ==
    /\ UNCHANGED events => UNCHANGED <<Beneficiary, VoidEvents>>
    /\ UNCHANGED reservations => UNCHANGED <<HeldAmount, ClosedSlots>>
  BY DEF Beneficiary, VoidEvents, HeldAmount, ClosedSlots, EventIs, IsLocked, HasReservation

\* A change of reserved_count alone is invisible to the escrow.
LEMMA CountInvisible ==
    ASSUME TypeOK, NEW f \in EventId, events[f] # None, NEW n \in Nat,
           events' = [events EXCEPT ![f].reserved_count = n]
    PROVE  UNCHANGED <<Beneficiary, VoidEvents>>
<1>1. \A e \in EventId :
        /\ events'[e] = None <=> events[e] = None
        /\ events[e] # None => /\ events'[e].organizer = events[e].organizer
                               /\ events'[e].status = events[e].status
  <2> TAKE e \in EventId
  <2>1. CASE e = f
    <3>1. events[e] \in Event /\ events'[e] = [events[e] EXCEPT !.reserved_count = n]
      BY <2>1, StoredTypes DEF TypeOK
    <3>2. events'[e] \in Event
      BY <3>1 DEF Event
    <3> QED BY <2>1, <3>1, <3>2, BondAssumption DEF Event
  <2>2. CASE e # f
    BY <2>2 DEF TypeOK
  <2> QED BY <2>1, <2>2
<1>2. Beneficiary' = Beneficiary
  BY <1>1 DEF Beneficiary
<1>3. VoidEvents' = VoidEvents
  BY <1>1 DEF VoidEvents, EventIs
<1> QED BY <1>2, <1>3

\* A table of slots that differs from another in one slot.
LEMMA OneSlotChanged ==
    ASSUME NEW h, NEW g, NEW r \in EventId, NEW a \in Address, NEW n,
           h = [e \in EventId |-> [p \in Address |-> h[e][p]]],
           g = [e \in EventId |-> [p \in Address |-> g[e][p]]],
           g[r][a] = n,
           \A e \in EventId, p \in Address : e # r \/ p # a => g[e][p] = h[e][p]
    PROVE  g = [h EXCEPT ![r][a] = n]
<1>1. h[r] = [p \in Address |-> h[r][p]] /\ g[r] = [p \in Address |-> g[r][p]]
  OBVIOUS
<1>2. g[r] = [h[r] EXCEPT ![a] = n]
  BY <1>1
<1>3. ASSUME NEW e \in EventId, e # r PROVE g[e] = h[e]
  <2>1. g[e] = [p \in Address |-> g[e][p]] /\ h[e] = [p \in Address |-> h[e][p]]
    OBVIOUS
  <2>2. \A p \in Address : g[e][p] = h[e][p]
    BY <1>3
  <2> QED BY <2>1, <2>2
<1> DEFINE row == [h[r] EXCEPT ![a] = n]
<1> HIDE DEF row
<1>4. g = [h EXCEPT ![r] = row]
  <2>1. g[r] = row
    BY <1>2 DEF row
  <2> QED BY <1>3, <2>1
<1> QED BY <1>4 DEF row

LEMMA SlotTables ==
    /\ HeldAmount = [e \in EventId |-> [p \in Address |-> HeldAmount[e][p]]]
    /\ HeldAmount' = [e \in EventId |-> [p \in Address |-> HeldAmount'[e][p]]]
<1>1. ASSUME NEW e \in EventId
      PROVE  /\ HeldAmount[e] = [p \in Address |-> HeldAmount[e][p]]
             /\ HeldAmount'[e] = [p \in Address |-> HeldAmount'[e][p]]
  BY DEF HeldAmount
<1>2. /\ HeldAmount = [e \in EventId |-> HeldAmount[e]]
      /\ HeldAmount' = [e \in EventId |-> HeldAmount'[e]]
  BY DEF HeldAmount
<1> QED BY <1>1, <1>2

\* Ending a reservation empties its slot.
LEMMA CloseEmpties ==
    ASSUME TypeOK, NEW e \in EventId, NEW p \in Address, IsLocked(e, p),
           NEW outcome \in ReservationStatus \ {"Locked"}, Close(e, p, outcome)
    PROVE  /\ HeldAmount' = [HeldAmount EXCEPT ![e][p] = 0]
           /\ ClosedSlots' = ClosedSlots \cup {<<e, p>>}
<1>1. /\ reservations'[e][p] = [reservations[e][p] EXCEPT !.status = outcome]
      /\ OthersKept(e, p)
  BY CloseOne
<1>2. reservations[e][p] \in Reservation /\ HasReservation(e, p)
  BY StoredTypes DEF IsLocked
<1>3. reservations'[e][p] \in Reservation /\ reservations'[e][p].status = outcome
  BY <1>1, <1>2 DEF Reservation
<1>4. HasReservation(e, p)' /\ ~IsLocked(e, p)'
  BY <1>3, BondAssumption DEF HasReservation, IsLocked
<1>5. \A f \in EventId, q \in Address : f # e \/ q # p =>
        /\ reservations'[f][q] = reservations[f][q]
        /\ HasReservation(f, q)' <=> HasReservation(f, q)
        /\ IsLocked(f, q)' <=> IsLocked(f, q)
  BY <1>1 DEF OthersKept, HasReservation, IsLocked
<1>6. HeldAmount' = [HeldAmount EXCEPT ![e][p] = 0]
  <2>1. HeldAmount'[e][p] = 0
    BY <1>4 DEF HeldAmount
  <2>2. \A f \in EventId, q \in Address : f # e \/ q # p => HeldAmount'[f][q] = HeldAmount[f][q]
    BY <1>5 DEF HeldAmount
  <2> QED BY <2>1, <2>2, SlotTables, OneSlotChanged
<1>7. ClosedSlots' = ClosedSlots \cup {<<e, p>>}
  BY <1>4, <1>5 DEF ClosedSlots
<1> QED BY <1>6, <1>7

\* A lock fills its slot.
LEMMA ReserveFills ==
    ASSUME TypeInv, NEW e \in EventId, NEW p \in Address, Reserve(e, p)
    PROVE  /\ HeldAmount' = [HeldAmount EXCEPT ![e][p] = events[e].terms.bond_amount]
           /\ ClosedSlots' = ClosedSlots
<1> DEFINE bond == events[e].terms.bond_amount
<1>1. /\ reservations'[e][p] = [amount |-> bond, reserved_at |-> now, status |-> "Locked"]
      /\ OthersKept(e, p)
  BY ReserveOne DEF TypeInv
<1>2. reservations'[e][p].amount = bond /\ reservations'[e][p].status = "Locked"
  BY <1>1
<1>3. HasReservation(e, p)'
  <2>1. reservations'[e][p] \in Reservation
    BY <1>1, ReservedType
  <2> QED BY <2>1, BondAssumption DEF HasReservation
<1>4. IsLocked(e, p)' /\ ~HasReservation(e, p)
  BY <1>2, <1>3 DEF IsLocked, Reserve, ReservationAllowed, FirstReservation
<1> HIDE DEF bond
<1>5. \A f \in EventId, q \in Address : f # e \/ q # p =>
        /\ reservations'[f][q] = reservations[f][q]
        /\ HasReservation(f, q)' <=> HasReservation(f, q)
        /\ IsLocked(f, q)' <=> IsLocked(f, q)
  BY <1>1 DEF OthersKept, HasReservation, IsLocked
<1>6. HeldAmount' = [HeldAmount EXCEPT ![e][p] = bond]
  <2>1. HeldAmount'[e][p] = bond
    BY <1>2, <1>4 DEF HeldAmount
  <2>2. \A f \in EventId, q \in Address : f # e \/ q # p => HeldAmount'[f][q] = HeldAmount[f][q]
    BY <1>5 DEF HeldAmount
  <2> QED BY <2>1, <2>2, SlotTables, OneSlotChanged
<1>7. ClosedSlots' = ClosedSlots
  BY <1>4, <1>5 DEF ClosedSlots
<1> QED BY <1>6, <1>7 DEF bond

-----------------------------------------------------------------------------
(* The mapping of the initial states and of the steps *)

LEMMA EscrowInit == Init => E!Init
<1> SUFFICES ASSUME Init PROVE E!Init
  OBVIOUS
<1>1. balance \in [Address \cup {Contract} -> Nat]
  BY TypeInvInit DEF TypeInv, TypeOK, TokenTypeOK, Holder
<1>2. Beneficiary = [e \in EventId |-> None] /\ VoidEvents = {}
  BY DEF Init, Beneficiary, VoidEvents, EventIs
<1>3. HeldAmount = [e \in EventId |-> [p \in Address |-> 0]] /\ ClosedSlots = {}
  BY DEF Init, HeldAmount, ClosedSlots, IsLocked, HasReservation
<1> QED BY <1>1, <1>2, <1>3 DEF E!Init

\* A paid back bond is given back by the escrow.
LEMMA PayBackMaps ==
    ASSUME TypeInv, NEW e \in EventId, NEW p \in Address, IsLocked(e, p),
           NEW outcome \in ReservationStatus \ {"Locked"},
           Close(e, p, outcome), PayBack(e, p), UNCHANGED <<Beneficiary, VoidEvents>>
    PROVE  E!Next
<1>1. TypeOK
  BY DEF TypeInv
<1>2. E!Empty(e, p)
  BY <1>1, CloseEmpties, SlotMaps DEF E!Empty
<1>3. balance' = E!Shift(balance, Contract, p, HeldAmount[e][p])
  BY <1>1, SlotMaps, ShiftIsMoved DEF PayBack
<1>4. E!GiveBack(e, p)
  BY <1>2, <1>3 DEF E!GiveBack
<1> QED BY <1>4 DEF E!Next

LEMMA EscrowStep == BondInv /\ [Next]_vars => [E!Next]_E!escrowVars
<1> SUFFICES ASSUME BondInv, [Next]_vars PROVE [E!Next]_E!escrowVars
  OBVIOUS
<1>0. TypeInv /\ TypeOK /\ EventsNumbered /\ OutcomeJustified
  BY DEF BondInv, TypeInv
<1>1. ASSUME NEW organizer \in Address, NEW t \in Terms, CreateEvent(organizer, t)
      PROVE  E!Next
  <2> DEFINE id == eventCount + 1
  <2>1. id \in EventId /\ events[id] = None
    <3>1. id \in EventId /\ ~(id <= eventCount)
      BY <1>0, <1>1, BondAssumption DEF CreateEvent, TypeOK, EventId
    <3> QED BY <1>0, <3>1 DEF EventsNumbered
  <2>2. /\ \A e \in EventId : e # id => events'[e] = events[e]
        /\ events'[id] # None
        /\ events'[id].organizer = organizer
        /\ events'[id].status = "Active"
    <3>1. [organizer |-> organizer, verifier |-> organizer, terms |-> t,
           reserved_count |-> 0, status |-> "Active"] \in Event
      BY DEF Event, EventStatus
    <3> QED BY <1>0, <1>1, <2>1, <3>1, BondAssumption DEF CreateEvent, TypeOK
  <2> HIDE DEF id
  <2>3. Beneficiary[id] = None /\ Beneficiary' = [Beneficiary EXCEPT ![id] = organizer]
    BY <2>1, <2>2 DEF Beneficiary
  <2>4. VoidEvents' = VoidEvents
    BY <2>1, <2>2 DEF VoidEvents, EventIs
  <2>5. E!Open(id, organizer)
    BY <1>1, <2>3, <2>4, MapKept DEF E!Open, CreateEvent, tokenVars
  <2> QED BY <2>1, <2>5 DEF E!Next
<1>2. ASSUME NEW f \in EventId, CancelEvent(f)
      PROVE  E!Next
  <2>1. /\ \A e \in EventId : e # f => events'[e] = events[e]
        /\ events[f] # None /\ events'[f] # None
        /\ events'[f].organizer = events[f].organizer
        /\ events'[f].status = "Cancelled"
    <3>1. events[f] # None /\ events[f] \in Event
      BY <1>0, <1>2, StoredTypes DEF CancelEvent, EventCancellable, EventIs
    <3>2. events' = [events EXCEPT ![f].status = "Cancelled"]
      BY <1>2 DEF CancelEvent
    <3>3. [events[f] EXCEPT !.status = "Cancelled"] \in Event
      BY <3>1 DEF Event, EventStatus
    <3> QED BY <1>0, <3>1, <3>2, <3>3, BondAssumption DEF TypeOK, Event
  <2>2. Beneficiary' = Beneficiary
    BY <2>1 DEF Beneficiary
  <2>3. VoidEvents' = VoidEvents \cup {f}
    BY <2>1 DEF VoidEvents, EventIs
  <2>4. E!Void(f)
    BY <1>0, <1>2, <2>1, <2>2, <2>3, MapKept, EventMaps DEF E!Void, CancelEvent, tokenVars
  <2> QED BY <2>4 DEF E!Next
<1>3. ASSUME NEW e \in EventId, NEW p \in Address, Reserve(e, p)
      PROVE  E!Next
  <2> DEFINE bond == events[e].terms.bond_amount
  <2>1. EventIs(e, "Active") /\ ~HasReservation(e, p)
    BY <1>3 DEF Reserve, ReservationAllowed, ReservationOpen, FirstReservation
  <2>2. bond \in Nat /\ bond > 0
    BY <1>0, <1>3, ReservedType DEF Reservation
  <2>3. UNCHANGED <<Beneficiary, VoidEvents>>
    <3>1. events[e].reserved_count + 1 \in Nat
      BY <1>0, <2>1, StoredTypes DEF Event, EventIs
    <3> QED BY <1>0, <1>3, <2>1, <3>1, CountInvisible DEF Reserve, EventIs
  <2>4. HeldAmount' = [HeldAmount EXCEPT ![e][p] = bond] /\ ClosedSlots' = ClosedSlots
    BY <1>0, <1>3, ReserveFills
  <2>5. HeldAmount[e][p] = 0 /\ <<e, p>> \notin ClosedSlots
    BY <1>0, <2>1, SlotMaps DEF IsLocked
  <2>6. balance' = E!Shift(balance, p, Contract, bond) /\ bond <= balance[p]
    <3>1. balance' = Moved(balance, p, Contract, bond) /\ balance[p] >= bond
      BY <1>3 DEF Reserve, ReservationAllowed, CanTransfer
    <3>2. balance[p] \in Nat
      BY <1>0 DEF TypeOK, TokenTypeOK, Holder
    <3> QED BY <2>2, <3>1, <3>2, ShiftIsMoved
  <2>7. bond \in 1..balance[p]
    BY <1>0, <2>2, <2>6 DEF TypeOK, TokenTypeOK, Holder
  <2> HIDE DEF bond
  <2>8. E!Deposit(e, p, bond)
    BY <1>0, <2>1, <2>3, <2>4, <2>5, <2>6, EventMaps DEF E!Deposit
  <2> QED BY <2>7, <2>8 DEF E!Next
<1>4. ASSUME NEW e \in EventId, NEW p \in Address, CancelReservation(e, p)
      PROVE  E!Next
  <2>1. EventIs(e, "Active") /\ IsLocked(e, p)
    BY <1>4 DEF CancelReservation, CancellationAllowed, CancellationOpen
  <2>2. events[e].reserved_count \in Nat /\ events[e] # None
    BY <1>0, <2>1, StoredTypes DEF Event, EventIs
  <2>3. events[e].reserved_count - 1 \in Nat
    BY <1>4, <2>2 DEF CancelReservation, CancellationAllowed
  <2>4. UNCHANGED <<Beneficiary, VoidEvents>>
    BY <1>0, <1>4, <2>2, <2>3, CountInvisible DEF CancelReservation
  <2> QED BY <1>0, <1>4, <2>1, <2>4, PayBackMaps DEF CancelReservation, ReservationStatus
<1>5. ASSUME NEW e \in EventId, NEW p \in Address, CheckIn(e, p)
      PROVE  E!Next
  BY <1>0, <1>5, MapKept, PayBackMaps DEF CheckIn, CheckInAllowed, ReservationStatus
<1>6. ASSUME NEW e \in EventId, NEW p \in Address, ClaimCancelledEventRefund(e, p)
      PROVE  E!Next
  BY <1>0, <1>6, MapKept, PayBackMaps DEF ClaimCancelledEventRefund, RefundAllowed,
                                          ReservationStatus
<1>7. ASSUME NEW e \in EventId, NEW p \in Address, SettleNoShow(e, p)
      PROVE  E!Next
  <2> DEFINE organizer == events[e].organizer
             share == OrganizerAmount(e, p)
  <2>1. /\ EventIs(e, "Active") /\ IsLocked(e, p) /\ Close(e, p, "NoShowSettled")
        /\ balance' = Moved(Moved(balance, Contract, organizer, share),
                            Contract, Pool, CommunityAmount(e, p))
        /\ UNCHANGED events
    BY <1>7 DEF SettleNoShow, SettlementAllowed, OrganizerPaid, SettlementOpen
  <2>2. /\ share \in Nat /\ CommunityAmount(e, p) \in Nat
        /\ share + CommunityAmount(e, p) = reservations[e][p].amount
        /\ reservations[e][p].amount \in Nat
    BY <1>0, <2>1, SplitExact DEF IsLocked, EventIs
  <2>3. HeldAmount[e][p] = reservations[e][p].amount
    BY <1>0, <2>1, SlotMaps
  <2> HIDE DEF share
  <2>4. share \in 0..HeldAmount[e][p] /\ CommunityAmount(e, p) = HeldAmount[e][p] - share
    BY <2>2, <2>3
  <2>5. UNCHANGED <<Beneficiary, VoidEvents>>
    BY <2>1, MapKept
  <2>6. E!Empty(e, p)
    BY <1>0, <2>1, <2>5, CloseEmpties, SlotMaps DEF E!Empty, ReservationStatus
  <2>7. Beneficiary[e] = organizer /\ e \notin VoidEvents
    BY <1>0, <2>1, EventMaps DEF EventIs
  <2>8. E!Forfeit(e, p, share)
    BY <2>1, <2>4, <2>6, <2>7, ShiftIsMoved DEF E!Forfeit
  <2> QED BY <2>4, <2>8 DEF E!Next
<1>8. CASE TokenStep
  <2>0. UNCHANGED <<Beneficiary, VoidEvents, HeldAmount, ClosedSlots>>
    BY <1>8, MapKept DEF TokenStep, bondVars
  <2>1. ASSUME NEW a \in Address, ChangeTrust(a) PROVE UNCHANGED E!escrowVars
    BY <2>0, <2>1 DEF ChangeTrust, E!escrowVars
  <2>2. ASSUME NEW from \in Address, NEW to \in Holder, TransferAround(from, to)
        PROVE  E!Next
    <3>1. PICK amount \in TransferAmounts :
            balance[from] >= amount /\ balance' = Moved(balance, from, to, amount)
      BY <2>2 DEF TransferAround, CanTransfer
    <3>2. amount \in 0..balance[from]
      BY <1>0, <3>1, TokenAssumption DEF TypeOK, TokenTypeOK, Holder
    <3>3. E!Spend(from, to, amount)
      BY <2>0, <3>1, ShiftIsMoved DEF E!Spend
    <3> QED BY <3>2, <3>3 DEF E!Next, Holder
  <2> QED BY <1>8, <2>1, <2>2 DEF TokenStep, TokenNext
<1>9. CASE Tick \/ UNCHANGED vars
  BY <1>9, MapKept DEF Tick, bondVars, tokenVars, vars, E!escrowVars
<1> QED
  BY <1>1, <1>2, <1>3, <1>4, <1>5, <1>6, <1>7, <1>8, <1>9 DEF Next, Participate

\* Every behaviour of the contract is one of the escrow: a bond is deposited
\* once, and leaves custody once and whole, to its participant or split between
\* the organizer fixed at creation and the pool.
THEOREM BondImplementsEscrow == Spec => ImplementsEscrow
  BY EscrowInit, EscrowStep, BondInvHolds, PTL DEF Spec, ImplementsEscrow, E!Spec

-----------------------------------------------------------------------------
(* Solvency, of the escrow and so of the contract: what is owed is counted  *)
(* as the cardinality of a set of units, one set for each slot.             *)

HeldType == [EventId -> [Address -> Nat]]
UnitsOf(h, slot) == {slot} \X (1..h[slot[1]][slot[2]])
OwedOf(h) == UNION {UnitsOf(h, slot) : slot \in EventId \X Address}

LEMMA OwedFinite ==
    ASSUME NEW h \in HeldType
    PROVE  IsFiniteSet(OwedOf(h))
<1> DEFINE Slots == EventId \X Address
           UnitSets == {UnitsOf(h, slot) : slot \in Slots}
           f == [slot \in Slots |-> UnitsOf(h, slot)]
<1>1. IsFiniteSet(Slots)
  <2>1. IsFiniteSet(EventId) /\ IsFiniteSet(Address)
    BY BondAssumption, FS_Interval DEF EventId
  <2> QED BY <2>1, FS_Product
<1>2. f \in Surjection(Slots, UnitSets)
  BY DEF Surjection
<1>3. IsFiniteSet(UnitSets)
  BY <1>1, <1>2, FS_Surjection
<1>4. ASSUME NEW slot \in Slots PROVE IsFiniteSet(UnitsOf(h, slot))
  <2>1. h[slot[1]][slot[2]] \in Int
    BY DEF HeldType
  <2>2. IsFiniteSet({slot})
    BY FS_Singleton
  <2>3. IsFiniteSet(1..h[slot[1]][slot[2]])
    BY <2>1, FS_Interval
  <2> QED BY <2>2, <2>3, FS_Product DEF UnitsOf
<1> QED BY <1>3, <1>4, FS_UNION DEF OwedOf

\* Filling an empty slot adds as many units as the deposit has.
LEMMA OwedGrows ==
    ASSUME NEW h \in HeldType, NEW g \in HeldType,
           NEW r \in EventId, NEW a \in Address, NEW n \in Nat,
           h[r][a] = 0, g[r][a] = n,
           \A e \in EventId, p \in Address : e # r \/ p # a => g[e][p] = h[e][p]
    PROVE  Cardinality(OwedOf(g)) = Cardinality(OwedOf(h)) + n
<1> DEFINE new == {<<r, a>>} \X (1..n)
<1>1. IsFiniteSet(new) /\ Cardinality(new) = n
  <2>1. IsFiniteSet(1..n) /\ Cardinality(1..n) = n
    BY FS_Interval
  <2>2. IsFiniteSet({<<r, a>>}) /\ Cardinality({<<r, a>>}) = 1
    BY FS_Singleton
  <2>3. IsFiniteSet(new) /\ Cardinality(new) = 1 * n
    BY <2>1, <2>2, FS_Product
  <2> QED BY <2>3
<1>2. UnitsOf(h, <<r, a>>) = {} /\ UnitsOf(g, <<r, a>>) = new
  BY DEF UnitsOf, HeldType
<1>3. ASSUME NEW slot \in EventId \X Address, slot # <<r, a>>
      PROVE  UnitsOf(g, slot) = UnitsOf(h, slot)
  <2>1. g[slot[1]][slot[2]] = h[slot[1]][slot[2]]
    BY <1>3 DEF HeldType
  <2> QED BY <2>1 DEF UnitsOf
<1> HIDE DEF new
<1>4. OwedOf(g) = OwedOf(h) \cup new
  <2>1. <<r, a>> \in EventId \X Address
    OBVIOUS
  <2>2. ASSUME NEW u PROVE u \in OwedOf(g) <=> u \in OwedOf(h) \/ u \in new
    <3>1. u \in OwedOf(g) <=> \E slot \in EventId \X Address : u \in UnitsOf(g, slot)
      BY DEF OwedOf
    <3>2. u \in OwedOf(h) <=> \E slot \in EventId \X Address : u \in UnitsOf(h, slot)
      BY DEF OwedOf
    <3>3. \A slot \in EventId \X Address :
            slot # <<r, a>> => (u \in UnitsOf(g, slot) <=> u \in UnitsOf(h, slot))
      BY <1>3
    <3>4. u \notin UnitsOf(h, <<r, a>>) /\ (u \in UnitsOf(g, <<r, a>>) <=> u \in new)
      BY <1>2
    <3> QED BY <2>1, <3>1, <3>2, <3>3, <3>4, Zenon
  <2> QED BY <2>2
<1>5. OwedOf(h) \cap new = {}
  BY <1>2 DEF OwedOf, UnitsOf, new
<1>6. IsFiniteSet(OwedOf(h)) /\ Cardinality(OwedOf(h)) \in Nat
  BY OwedFinite, FS_CardinalityType
<1>7. Cardinality(OwedOf(g)) = Cardinality(OwedOf(h)) + Cardinality(new)
                               - Cardinality(OwedOf(h) \cap new)
  BY <1>1, <1>4, <1>6, FS_Union
<1>8. Cardinality(OwedOf(h) \cap new) = 0
  BY <1>5, FS_EmptySet
<1> QED BY <1>1, <1>6, <1>7, <1>8

LEMMA SolventStep ==
    ASSUME BondInv, BondInv', E!Solvent, [E!Next]_E!escrowVars
    PROVE  E!Solvent'
<1> DEFINE owed == Cardinality(OwedOf(HeldAmount))
           left == Cardinality(OwedOf(HeldAmount'))
<1>1. /\ HeldAmount \in HeldType /\ balance \in [Holder -> Nat]
      /\ HeldAmount' \in HeldType /\ balance' \in [Holder -> Nat]
  BY DEF BondInv, TypeInv, TypeOK, TokenTypeOK, HeldAmount, HeldType, IsLocked,
         HasReservation,
         Reservation
<1>2. owed \in Nat /\ left \in Nat
  BY <1>1, OwedFinite, FS_CardinalityType
<1>3. balance[Contract] >= owed
  <2>1. E!Owed = OwedOf(HeldAmount)
    BY DEF E!Owed, E!Units, E!Slot, OwedOf, UnitsOf
  <2>2. E!Solvent <=> balance[Contract] >= Cardinality(E!Owed)
    BY DEF E!Solvent, E!Cardinality, Cardinality
  <2> QED BY <2>1, <2>2
<1> SUFFICES balance'[Contract] >= left
  <2>1. E!Owed' = OwedOf(HeldAmount')
    BY DEF E!Owed, E!Units, E!Slot, OwedOf, UnitsOf
  <2>2. E!Solvent' <=> balance'[Contract] >= Cardinality(E!Owed')
    BY DEF E!Solvent, E!Cardinality, Cardinality
  <2> QED BY <2>1, <2>2
<1> HIDE DEF owed, left
<1>4. Contract \in Holder /\ \A a \in Address : a \in Holder /\ a # Contract
  BY TokenAssumption DEF Holder
<1>5. ASSUME NEW r \in EventId, NEW a \in Address, NEW amount \in 1..balance[a],
             E!Deposit(r, a, amount)
      PROVE  balance'[Contract] >= left
  <2>1. HeldAmount[r][a] = 0 /\ HeldAmount' = [HeldAmount EXCEPT ![r][a] = amount]
    BY <1>5 DEF E!Deposit
  <2>2. left = owed + amount
    <3>1. amount \in Nat
      BY <1>1, <1>4
    <3> DEFINE h == HeldAmount
               g == HeldAmount'
    <3>2. /\ h \in HeldType /\ g \in HeldType /\ h[r][a] = 0 /\ g[r][a] = amount
          /\ \A e \in EventId, p \in Address : e # r \/ p # a => g[e][p] = h[e][p]
      BY <1>1, <2>1 DEF HeldType
    <3> HIDE DEF h, g
    <3>3. Cardinality(OwedOf(g)) = Cardinality(OwedOf(h)) + amount
      BY <3>1, <3>2, OwedGrows
    <3> QED BY <3>3 DEF owed, left, h, g
  <2>3. balance'[Contract] = balance[Contract] + amount
    BY <1>1, <1>4, <1>5 DEF E!Deposit, E!Shift
  <2> QED BY <1>1, <1>2, <1>3, <1>4, <2>2, <2>3
<1>6. ASSUME NEW r \in EventId, NEW a \in Address, E!Empty(r, a)
      PROVE  HeldAmount[r][a] \in Nat /\ owed = left + HeldAmount[r][a]
  <2>1. HeldAmount' = [HeldAmount EXCEPT ![r][a] = 0]
    BY <1>6 DEF E!Empty
  <2> DEFINE h == HeldAmount'
             g == HeldAmount
  <2>2. /\ h \in HeldType /\ g \in HeldType /\ h[r][a] = 0 /\ g[r][a] \in Nat
        /\ \A e \in EventId, p \in Address : e # r \/ p # a => g[e][p] = h[e][p]
    <3>1. g[r][a] \in Nat
      BY <1>1 DEF HeldType
    <3> QED BY <1>1, <2>1, <3>1 DEF HeldType
  <2> HIDE DEF h, g
  <2>3. Cardinality(OwedOf(g)) = Cardinality(OwedOf(h)) + g[r][a]
    BY <2>2, OwedGrows
  <2> QED BY <2>2, <2>3 DEF owed, left, h, g
<1>7. ASSUME NEW r \in EventId, NEW a \in Address, E!GiveBack(r, a)
      PROVE  balance'[Contract] >= left
  <2>1. HeldAmount[r][a] \in Nat /\ owed = left + HeldAmount[r][a]
    BY <1>6, <1>7 DEF E!GiveBack
  <2>2. balance'[Contract] = balance[Contract] - HeldAmount[r][a]
    BY <1>1, <1>4, <1>7 DEF E!GiveBack, E!Shift
  <2> QED BY <1>1, <1>2, <1>3, <1>4, <2>1, <2>2
<1>8. ASSUME NEW r \in EventId, NEW a \in Address, NEW share \in 0..HeldAmount[r][a],
             E!Forfeit(r, a, share)
      PROVE  balance'[Contract] >= left
  <2>1. HeldAmount[r][a] \in Nat /\ owed = left + HeldAmount[r][a]
    BY <1>6, <1>8 DEF E!Forfeit
  <2>2. PICK to \in Holder \ {Contract} :
            balance' = E!Shift(E!Shift(balance, Contract, to, share),
                               Contract, Pool, HeldAmount[r][a] - share)
    <3>1. HeldAmount[r][a] # 0
      BY <1>1, <1>8 DEF E!Forfeit, E!Empty, HeldType
    <3>2. events[r] # None
      BY <3>1 DEF HeldAmount, BondInv, OutcomeJustified, IsLocked
    <3>3. Beneficiary[r] \in Address
      BY <3>2, StoredTypes DEF Beneficiary, BondInv, TypeInv
    <3> QED BY <1>4, <1>8, <3>3 DEF E!Forfeit
  <2>3. Pool \in Holder \ {Contract}
    BY <1>4, BondAssumption
  <2> DEFINE paid == E!Shift(balance, Contract, to, share)
  <2>4. share \in Nat /\ HeldAmount[r][a] - share \in Nat
    BY <2>1
  <2>5. paid \in [Holder -> Int] /\ paid[Contract] = balance[Contract] - share
    BY <1>1, <1>4, <2>4 DEF E!Shift
  <2> HIDE DEF paid
  <2>6. balance'[Contract] = paid[Contract] - (HeldAmount[r][a] - share)
    BY <1>4, <2>2, <2>3, <2>4, <2>5 DEF E!Shift, paid
  <2> QED BY <1>1, <1>2, <1>3, <1>4, <2>1, <2>4, <2>5, <2>6
<1>9. ASSUME NEW from \in Address, NEW to \in Address \cup {Contract},
             NEW amount \in 0..balance[from], E!Spend(from, to, amount)
      PROVE  balance'[Contract] >= left
  <2>1. left = owed
    BY <1>9 DEF E!Spend, owed, left
  <2>2. balance'[Contract] >= balance[Contract]
    BY <1>1, <1>4, <1>9 DEF E!Spend, E!Shift
  <2> QED BY <1>1, <1>2, <1>3, <1>4, <2>1, <2>2
<1>10. ASSUME UNCHANGED <<balance, HeldAmount>>
      PROVE  balance'[Contract] >= left
  BY <1>2, <1>3, <1>10 DEF owed, left
<1> QED
  BY <1>5, <1>7, <1>8, <1>9, <1>10 DEF E!Next, E!Open, E!Void, E!escrowVars

\* The contract can pay every bond it holds, whatever anybody does and in
\* whatever order: what it has covers the sum of the locked bonds.
THEOREM BondSolvent == Spec => []Solvent
<1>1. Init => E!Solvent
  <2> SUFFICES ASSUME Init PROVE E!Solvent
    OBVIOUS
  <2>1. HeldAmount = [e \in EventId |-> [p \in Address |-> 0]] /\ balance[Contract] = 0
    BY DEF Init, TokenInit, HeldAmount, IsLocked, HasReservation, Holder
  <2>2. OwedOf(HeldAmount) = {}
    BY <2>1 DEF OwedOf, UnitsOf
  <2>3. E!Owed = OwedOf(HeldAmount)
    BY DEF E!Owed, E!Units, E!Slot, OwedOf, UnitsOf
  <2> QED BY <2>1, <2>2, <2>3, FS_EmptySet DEF E!Solvent, E!Cardinality, Cardinality
<1>2. BondInv /\ BondInv' /\ E!Solvent /\ [Next]_vars => E!Solvent'
  BY SolventStep, EscrowStep
<1> QED BY <1>1, <1>2, BondInvHolds, PTL DEF Spec, Solvent

-----------------------------------------------------------------------------
(* What solvency buys: no bond waits for another.                           *)

\* Each locked bond by itself is covered.
LEMMA BondCovered ==
    ASSUME BondInv, E!Solvent, NEW e \in EventId, NEW p \in Address, IsLocked(e, p)
    PROVE  balance[Contract] >= reservations[e][p].amount
<1> DEFINE slot == <<e, p>>
           amount == reservations[e][p].amount
<1>1. HeldAmount \in HeldType /\ balance[Contract] \in Nat /\ amount \in Nat
      /\ HeldAmount[e][p] = amount
  BY DEF BondInv, TypeInv, TypeOK, TokenTypeOK, HeldAmount, HeldType, IsLocked,
         HasReservation,
         Reservation, Holder
<1> HIDE DEF amount
<1>2. balance[Contract] >= Cardinality(OwedOf(HeldAmount))
  <2>1. E!Owed = OwedOf(HeldAmount)
    BY DEF E!Owed, E!Units, E!Slot, OwedOf, UnitsOf
  <2>2. E!Solvent <=> balance[Contract] >= Cardinality(E!Owed)
    BY DEF E!Solvent, E!Cardinality, Cardinality
  <2> QED BY <2>1, <2>2
<1>3. UnitsOf(HeldAmount, slot) \subseteq OwedOf(HeldAmount)
  BY DEF OwedOf
<1>4. Cardinality(UnitsOf(HeldAmount, slot)) = amount
  <2>1. IsFiniteSet({slot}) /\ Cardinality({slot}) = 1
    BY FS_Singleton
  <2>2. IsFiniteSet(1..amount) /\ Cardinality(1..amount) = amount
    BY <1>1, FS_Interval
  <2>3. UnitsOf(HeldAmount, slot) = {slot} \X (1..amount)
    BY <1>1 DEF UnitsOf
  <2> HIDE DEF slot
  <2>4. Cardinality({slot} \X (1..amount)) = Cardinality({slot}) * Cardinality(1..amount)
    BY <2>1, <2>2, FS_Product
  <2> QED BY <1>1, <2>1, <2>2, <2>3, <2>4
<1>5. amount <= Cardinality(OwedOf(HeldAmount)) /\ Cardinality(OwedOf(HeldAmount)) \in Nat
  BY <1>1, <1>3, <1>4, OwedFinite, FS_Subset, FS_CardinalityType
<1> QED BY <1>1, <1>2, <1>5 DEF amount

\* A refund is available to whoever can receive it, whatever was paid to others.
THEOREM RefundsNeverBlocked == Spec => []RefundNeverBlocked
<1>1. ASSUME BondInv, E!Solvent PROVE RefundNeverBlocked
  <2> SUFFICES ASSUME NEW e \in EventId, NEW p \in Address, Refundable(e, p), trustline[p]
               PROVE  RefundAllowed(e, p)
    BY DEF RefundNeverBlocked
  <2>1. CanPayBack(e, p)
    BY <1>1, BondCovered DEF Refundable, CanPayBack, CanTransfer, CanReceive
  <2> QED BY <2>1 DEF Refundable, RefundAllowed, RefundOpen
<1> QED BY <1>1, BondInvHolds, BondSolvent, PTL DEF Solvent

\* Past the deadline a bond can be settled, both shares of it, whatever was paid to
\* others, when both destinations can receive and the product fits.
THEOREM SettlementsNeverBlocked == Spec => []SettlementNeverBlocked
<1>1. ASSUME BondInv, E!Solvent PROVE SettlementNeverBlocked
  <2> SUFFICES ASSUME NEW e \in EventId, NEW p \in Address, Splittable(e, p), PastDeadline(e),
                      trustline[events[e].organizer], trustline[Pool]
               PROVE  SettlementAllowed(e, p)
    BY DEF SettlementNeverBlocked
  <2>1. IsLocked(e, p) /\ SettlementOpen(e) /\ SplitFits(e, p)
    BY DEF Splittable, PastDeadline, SettlementOpen
  <2>2. HasReservation(e, p) /\ events[e] # None
    BY <2>1 DEF IsLocked, SettlementOpen, EventIs
  <2> DEFINE organizer == events[e].organizer
             amount == reservations[e][p].amount
  <2>3. /\ OrganizerAmount(e, p) \in Nat /\ CommunityAmount(e, p) \in Nat /\ amount \in Nat
        /\ OrganizerAmount(e, p) + CommunityAmount(e, p) = amount
    BY <1>1, <2>2, SplitExact DEF BondInv
  <2>4. /\ balance \in [Holder -> Nat] /\ balance[Contract] >= amount
        /\ Contract \in Holder /\ organizer \in Address /\ Contract \notin Address
        /\ organizer \in Holder /\ Pool \in Holder
    BY <1>1, <2>1, <2>2, BondCovered, StoredTypes, TokenAssumption, BondAssumption
       DEF BondInv, TypeInv, TypeOK, TokenTypeOK, Holder
  <2> HIDE DEF organizer, amount
  <2>5. CanTransfer(balance, Contract, organizer, OrganizerAmount(e, p))
    BY <2>3, <2>4 DEF CanTransfer, CanReceive, organizer
  <2>6. OrganizerPaid(e, p)[Contract] = balance[Contract] - OrganizerAmount(e, p)
    BY <2>3, <2>4 DEF OrganizerPaid, Moved, organizer
  <2>7. CanTransfer(OrganizerPaid(e, p), Contract, Pool, CommunityAmount(e, p))
    BY <2>3, <2>4, <2>6 DEF CanTransfer, CanReceive
  <2> QED BY <2>1, <2>5, <2>7 DEF SettlementAllowed, organizer
<1> QED BY <1>1, BondInvHolds, BondSolvent, PTL DEF Solvent

\* Which of the ways a bond takes out of custody is decided by the clock and the
\* organizer's cancellation, never by who calls first.
THEOREM DestinationsNotRaced == Spec => []DestinationNotRaced
<1>1. ASSUME BondInv PROVE DestinationNotRaced
  <2> SUFFICES ASSUME NEW e \in EventId, NEW p \in Address
               PROVE  /\ SettlementAllowed(e, p) =>
                            ~CheckInAllowed(e, p) /\ ~CancellationAllowed(e, p)
                      /\ RefundAllowed(e, p) =>
                            /\ ~CheckInAllowed(e, p) /\ ~CancellationAllowed(e, p)
                            /\ ~SettlementAllowed(e, p)
    BY DEF DestinationNotRaced
  <2>1. ASSUME SettlementAllowed(e, p)
        PROVE  ~CheckInAllowed(e, p) /\ ~CancellationAllowed(e, p)
    <3> DEFINE t == events[e].terms
    <3>1. events[e] # None /\ now > t.checkin_deadline
      BY <2>1 DEF SettlementAllowed, SettlementOpen, EventIs
    <3>2. /\ t \in TermsType /\ ValidSchedule(t) /\ now \in Nat
      BY <1>1, <3>1, StoredTypes DEF BondInv, TypeInv, PublishedTermsValid, TypeOK, Time
    <3>3. now > t.cancellation_deadline
      BY <3>1, <3>2 DEF ValidSchedule, TermsType
    <3> QED BY <3>1, <3>2, <3>3
           DEF CheckInAllowed, CheckInOpen, CancellationAllowed, CancellationOpen, TermsType
  <2>2. ASSUME RefundAllowed(e, p)
        PROVE  ~CheckInAllowed(e, p) /\ ~CancellationAllowed(e, p) /\ ~SettlementAllowed(e, p)
    BY <2>2 DEF RefundAllowed, RefundOpen, CheckInAllowed, CheckInOpen, CancellationAllowed,
                CancellationOpen, SettlementAllowed, SettlementOpen, EventIs
  <2> QED BY <2>1, <2>2
<1> QED BY <1>1, BondInvHolds, PTL

-----------------------------------------------------------------------------
(* The supply of the asset.  It is counted as what is owed is: the coins of  *)
(* a holder are as many as its balance says.                                 *)

CoinsOf(bal, h) == {h} \X (1..bal[h])
Coins(bal) == UNION {CoinsOf(bal, h) : h \in Holder}
Supply(bal) == Cardinality(Coins(bal))

\* The balances when the contract is deployed.
AtDeployment == [a \in Holder |-> IF a = Contract THEN 0 ELSE InitialBalance[a]]

LEMMA ColumnSize ==
    ASSUME NEW h, NEW S, IsFiniteSet(S)
    PROVE  IsFiniteSet({h} \X S) /\ Cardinality({h} \X S) = Cardinality(S)
<1> DEFINE one == {h}
<1>1. IsFiniteSet(one) /\ Cardinality(one) = 1
  BY FS_Singleton
<1> HIDE DEF one
<1>2. IsFiniteSet(one \X S) /\ Cardinality(one \X S) = Cardinality(one) * Cardinality(S)
  BY <1>1, FS_Product
<1>3. Cardinality(S) \in Nat
  BY FS_CardinalityType
<1>4. Cardinality(one \X S) = Cardinality(S)
  BY <1>1, <1>2, <1>3
<1> QED BY <1>2, <1>4 DEF one

LEMMA CoinsFinite ==
    ASSUME NEW bal \in [Holder -> Nat]
    PROVE  IsFiniteSet(Coins(bal)) /\ Supply(bal) \in Nat
<1> DEFINE Purses == {CoinsOf(bal, h) : h \in Holder}
           f == [h \in Holder |-> CoinsOf(bal, h)]
<1>1. IsFiniteSet(Holder)
  BY BondAssumption, FS_AddElement DEF Holder
<1>2. f \in Surjection(Holder, Purses)
  BY DEF Surjection
<1>3. IsFiniteSet(Purses)
  BY <1>1, <1>2, FS_Surjection
<1>4. ASSUME NEW h \in Holder PROVE IsFiniteSet(CoinsOf(bal, h))
  <2>1. bal[h] \in Int
    OBVIOUS
  <2>2. IsFiniteSet(1..bal[h])
    BY <2>1, FS_Interval
  <2> QED BY <2>2, ColumnSize DEF CoinsOf
<1>5. IsFiniteSet(Coins(bal))
  BY <1>3, <1>4, FS_UNION DEF Coins
<1> QED BY <1>5, FS_CardinalityType DEF Supply

\* What one holder has more of, the supply has more of.
LEMMA SupplyGrows ==
    ASSUME NEW bal \in [Holder -> Nat], NEW g \in [Holder -> Nat],
           NEW a \in Holder, NEW n \in Nat, g[a] = bal[a] + n,
           \A h \in Holder : h # a => g[h] = bal[h]
    PROVE  Supply(g) = Supply(bal) + n
<1> DEFINE new == {a} \X (bal[a] + 1 .. bal[a] + n)
<1>1. IsFiniteSet(new) /\ Cardinality(new) = n
  <2> DEFINE from == bal[a] + 1
             last == bal[a] + n
  <2>1. from \in Int /\ last \in Int /\ (from > last => n = 0) /\ last - from + 1 = n
    OBVIOUS
  <2> HIDE DEF from, last
  <2>2. IsFiniteSet(from..last) /\ Cardinality(from..last) = n
    BY <2>1, FS_Interval
  <2> QED BY <2>2, ColumnSize DEF from, last
<1>2. CoinsOf(g, a) = CoinsOf(bal, a) \cup new /\ CoinsOf(bal, a) \cap new = {}
  <2>1. bal[a] \in Nat /\ 1..bal[a] + n = (1..bal[a]) \cup (bal[a] + 1 .. bal[a] + n)
        /\ (1..bal[a]) \cap (bal[a] + 1 .. bal[a] + n) = {}
    OBVIOUS
  <2> QED BY <2>1, Zenon DEF CoinsOf
<1>3. \A h \in Holder : h # a => CoinsOf(g, h) = CoinsOf(bal, h) /\ CoinsOf(bal, h) \cap new = {}
  BY DEF CoinsOf
<1> HIDE DEF new
<1>4. Coins(g) = Coins(bal) \cup new
  <2>1. ASSUME NEW u PROVE u \in Coins(g) <=> u \in Coins(bal) \/ u \in new
    <3>1. /\ u \in Coins(g) <=> \E h \in Holder : u \in CoinsOf(g, h)
          /\ u \in Coins(bal) <=> \E h \in Holder : u \in CoinsOf(bal, h)
      BY DEF Coins
    <3>2. u \in CoinsOf(g, a) <=> u \in CoinsOf(bal, a) \/ u \in new
      BY <1>2
    <3>3. \A h \in Holder : h # a => (u \in CoinsOf(g, h) <=> u \in CoinsOf(bal, h))
      BY <1>3
    <3> QED BY <3>1, <3>2, <3>3, Zenon
  <2> QED BY <2>1
<1>5. Coins(bal) \cap new = {}
  BY <1>2, <1>3 DEF Coins
<1>6. IsFiniteSet(Coins(bal)) /\ Supply(bal) \in Nat
  BY CoinsFinite
<1>7. Cardinality(Coins(g)) = Cardinality(Coins(bal)) + Cardinality(new)
                              - Cardinality(Coins(bal) \cap new)
  BY <1>1, <1>4, <1>6, FS_Union
<1>8. Cardinality(Coins(bal) \cap new) = 0
  BY <1>5, FS_EmptySet
<1> QED BY <1>1, <1>6, <1>7, <1>8 DEF Supply

\* A transfer that goes through takes from one what it gives to another, the same
\* holder even.
LEMMA TransferConserves ==
    ASSUME NEW bal \in [Holder -> Nat], NEW from \in Holder, NEW to \in Holder,
           NEW amount \in Nat, CanTransfer(bal, from, to, amount)
    PROVE  /\ Moved(bal, from, to, amount) \in [Holder -> Nat]
           /\ Supply(Moved(bal, from, to, amount)) = Supply(bal)
<1> DEFINE debited == [bal EXCEPT ![from] = @ - amount]
           moved == [debited EXCEPT ![to] = @ + amount]
<1>1. /\ debited \in [Holder -> Nat] /\ bal[from] = debited[from] + amount
      /\ \A h \in Holder : h # from => bal[h] = debited[h]
  BY DEF CanTransfer
<1> HIDE DEF debited
<1>2. /\ moved \in [Holder -> Nat] /\ moved[to] = debited[to] + amount
      /\ \A h \in Holder : h # to => moved[h] = debited[h]
  BY <1>1
<1>3. Moved(bal, from, to, amount) = moved
  BY DEF Moved, debited
<1> HIDE DEF moved
<1>4. Supply(bal) = Supply(debited) + amount
  BY <1>1, SupplyGrows
<1>5. Supply(moved) = Supply(debited) + amount
  BY <1>1, <1>2, SupplyGrows
<1> QED BY <1>2, <1>3, <1>4, <1>5

LEMMA StepConserves ==
    ASSUME BondInv, [Next]_vars
    PROVE  Supply(balance') = Supply(balance)
<1>0. /\ TypeInv /\ TypeOK /\ balance \in [Holder -> Nat]
      /\ Contract \in Holder /\ Pool \in Holder /\ \A a \in Address : a \in Holder
  BY BondAssumption DEF BondInv, TypeInv, TypeOK, TokenTypeOK, Holder
<1>1. ASSUME UNCHANGED balance PROVE Supply(balance') = Supply(balance)
  BY <1>1
<1>2. ASSUME NEW e \in EventId, NEW p \in Address, Reserve(e, p)
      PROVE  Supply(balance') = Supply(balance)
  <2>1. events[e].terms.bond_amount \in Nat
    BY <1>0, <1>2, ReservedType DEF Reservation
  <2> QED BY <1>0, <1>2, <2>1, TransferConserves DEF Reserve, ReservationAllowed
<1>3. ASSUME NEW e \in EventId, NEW p \in Address, IsLocked(e, p), CanPayBack(e, p), PayBack(e, p)
      PROVE  Supply(balance') = Supply(balance)
  <2>1. reservations[e][p].amount \in Nat
    BY <1>0, <1>3, StoredTypes DEF IsLocked, Reservation
  <2> QED BY <1>0, <1>3, <2>1, TransferConserves DEF CanPayBack, PayBack
<1>4. ASSUME NEW e \in EventId, NEW p \in Address, SettleNoShow(e, p)
      PROVE  Supply(balance') = Supply(balance)
  <2> DEFINE share == OrganizerAmount(e, p)
             rest == CommunityAmount(e, p)
             paid == OrganizerPaid(e, p)
             organizer == events[e].organizer
  <2>1. /\ CanTransfer(balance, Contract, organizer, share)
        /\ CanTransfer(paid, Contract, Pool, rest)
        /\ paid = Moved(balance, Contract, organizer, share)
        /\ balance' = Moved(paid, Contract, Pool, rest)
        /\ HasReservation(e, p) /\ events[e] # None
    BY <1>4 DEF SettleNoShow, SettlementAllowed, SettlementOpen, EventIs, IsLocked, OrganizerPaid
  <2>2. share \in Nat /\ rest \in Nat /\ organizer \in Holder
    BY <1>0, <2>1, SplitExact, StoredTypes
  <2> HIDE DEF share, rest, paid, organizer
  <2>3. paid \in [Holder -> Nat] /\ Supply(paid) = Supply(balance)
    BY <1>0, <2>1, <2>2, TransferConserves
  <2> QED BY <1>0, <2>1, <2>2, <2>3, TransferConserves
<1>5. CASE TokenStep
  <2>1. ASSUME NEW from \in Address, NEW to \in Holder, TransferAround(from, to)
        PROVE  Supply(balance') = Supply(balance)
    <3>1. PICK amount \in TransferAmounts :
            CanTransfer(balance, from, to, amount) /\ balance' = Moved(balance, from, to, amount)
      BY <2>1 DEF TransferAround
    <3>2. amount \in Nat
      BY TokenAssumption
    <3> QED BY <1>0, <3>1, <3>2, TransferConserves
  <2> QED BY <1>1, <1>5, <2>1 DEF TokenStep, TokenNext, ChangeTrust
<1>6. ASSUME NEW e \in EventId, NEW p \in Address, Participate(e, p)
      PROVE  Supply(balance') = Supply(balance)
  BY <1>2, <1>3, <1>4, <1>6
     DEF Participate, CancelReservation, CancellationAllowed, CheckIn, CheckInAllowed,
         ClaimCancelledEventRefund, RefundAllowed
<1> QED BY <1>1, <1>5, <1>6 DEF Next, CreateEvent, CancelEvent, Tick, tokenVars, vars

\* No entry point creates or destroys any of the asset, the two transfers of a
\* settlement included, whoever the organizer and the pool are.
THEOREM SupplyConserved == Spec => [](Supply(balance) = Supply(AtDeployment))
<1>1. Init => Supply(balance) = Supply(AtDeployment)
  BY DEF Init, TokenInit, AtDeployment
<1>2. BondInv /\ Supply(balance) = Supply(AtDeployment) /\ [Next]_vars => (Supply(balance) = Supply(AtDeployment))'
  BY StepConserves
<1> QED BY <1>1, <1>2, BondInvHolds, PTL DEF Spec

\* A bond is no more than the supply, so its share is computed without overflow.
LEMMA SplitWithinSupply ==
    ASSUME BondInv, E!Solvent, Supply(balance) * BpsTotal <= MaxI128,
           NEW e \in EventId, NEW p \in Address, IsLocked(e, p), events[e] # None
    PROVE  SplitFits(e, p)
<1> DEFINE amount == reservations[e][p].amount
           bps == events[e].terms.organizer_bps
           supply == Supply(balance)
<1>1. /\ balance \in [Holder -> Nat] /\ Contract \in Holder
      /\ amount \in Nat /\ bps \in Nat /\ bps <= 10000
  <2>1. events[e].terms \in TermsType /\ ValidAmounts(events[e].terms)
    BY StoredTypes DEF BondInv, TypeInv, PublishedTermsValid
  <2>2. reservations[e][p] \in Reservation
    BY StoredTypes DEF BondInv, TypeInv, IsLocked
  <2>3. balance \in [Holder -> Nat] /\ Contract \in Holder
    BY DEF BondInv, TypeInv, TypeOK, TokenTypeOK, Holder
  <2> QED BY <2>1, <2>2, <2>3, ValidBps DEF Reservation
<1>2. balance[Contract] >= amount
  BY BondCovered
<1>3. supply \in Nat /\ balance[Contract] <= supply
  <2> DEFINE n == balance[Contract]
  <2>1. n \in Nat
    BY <1>1
  <2>2. CoinsOf(balance, Contract) = {Contract} \X (1..n)
    BY DEF CoinsOf
  <2> HIDE DEF n
  <2>3. IsFiniteSet(1..n) /\ Cardinality(1..n) = n
    BY <2>1, FS_Interval
  <2>4. Cardinality(CoinsOf(balance, Contract)) = n
    BY <2>2, <2>3, ColumnSize
  <2>5. CoinsOf(balance, Contract) \subseteq Coins(balance)
    BY <1>1 DEF Coins
  <2> QED BY <1>1, <2>4, <2>5, CoinsFinite, FS_Subset DEF Supply, n
<1>4. amount <= supply
  BY <1>1, <1>2, <1>3
<1> HIDE DEF amount, bps, supply
<1>5. amount * bps \in Nat /\ amount * bps <= amount * 10000
  BY <1>1, ProductBounded
<1>6. amount * 10000 <= supply * 10000 /\ supply * 10000 <= MaxI128
  BY <1>1, <1>3, <1>4 DEF supply, BpsTotal
<1>7. amount * bps <= MaxI128
  BY <1>1, <1>3, <1>5, <1>6, BondAssumption
<1> QED BY <1>7 DEF SplitFits, amount, bps

\* While the whole supply in ten-thousandths fits i128, every locked bond of an active
\* event can be split: the checked product of settle_no_show never refuses.  (A bond
\* that no balance covers can be published, but nobody can lock it.)
THEOREM SplitNeverOverflows ==
    ASSUME Supply(AtDeployment) * BpsTotal <= MaxI128
    PROVE  Spec => [](\A e \in EventId, p \in Address :
                        IsLocked(e, p) /\ EventIs(e, "Active") => Splittable(e, p))
<1> DEFINE AllSplittable == \A e \in EventId, p \in Address :
                              IsLocked(e, p) /\ EventIs(e, "Active") => Splittable(e, p)
<1>1. BondInv /\ E!Solvent /\ Supply(balance) = Supply(AtDeployment) => AllSplittable
  <2> SUFFICES ASSUME BondInv, E!Solvent, Supply(balance) = Supply(AtDeployment),
                      NEW e \in EventId, NEW p \in Address, IsLocked(e, p), EventIs(e, "Active")
               PROVE  Splittable(e, p)
    OBVIOUS
  <2>1. events[e] # None /\ Supply(balance) * BpsTotal <= MaxI128
    BY DEF EventIs
  <2>2. SplitFits(e, p)
    BY <2>1, SplitWithinSupply
  <2> QED BY <2>2 DEF Splittable
<1> HIDE DEF AllSplittable
<1>2. Spec => []AllSplittable
  BY <1>1, BondInvHolds, BondSolvent, SupplyConserved, PTL DEF Solvent
<1> QED BY <1>2 DEF AllSplittable
=============================================================================
