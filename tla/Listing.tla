------------------------------ MODULE Listing ------------------------------
(***************************************************************************)
(* How long the ledger keeps what the contract stores                      *)
(* (contracts/showup-bond/src/storage.rs), and the list of events that the *)
(* web application reads of it (apps/web/lib/contract/index.ts).  The      *)
(* network archives an entry whose time to live has run out; a read of it  *)
(* answers that it must be restored first.                                 *)
(*                                                                         *)
(* Time is counted in months of 30 days, the bump threshold.               *)
(***************************************************************************)
EXTENDS Naturals, FiniteSets, Nothing

CONSTANTS
    MaxEvents,     \* bound: events created
    MaxMonths      \* bound: months that pass

VARIABLES
    month,         \* the ledger, in months
    count,         \* DataKey::EventCount
    instance,      \* the last month the instance entry (Config, EventCount) is live in
    event,         \* event[e]: the same of DataKey::Event(e), or None if there is none
    reservation,   \* reservation[e]: the same of one participant's reservation
    listing        \* what a page has listed last, or None

storageVars == <<count, instance, event, reservation>>
listingVars == <<month, storageVars, listing>>

EventIds == 1..MaxEvents
Live(until) == until # None /\ month <= until

-----------------------------------------------------------------------------
(* storage.rs *)

BumpThreshold == 1
BumpTo == 3

\* extend_ttl: nothing happens to an entry with more than the threshold left.
Extended(until) == IF until - month < BumpThreshold THEN month + BumpTo ELSE until

\* A new entry starts with the network's own minimum, which is less.
Stored == month + BumpTo

\* create_event: set_event_count, which extends the instance, and set_event.
CreateEvent ==
    /\ Live(instance) /\ count < MaxEvents
    /\ count' = count + 1
    /\ instance' = Extended(instance)
    /\ event' = [event EXCEPT ![count + 1] = Stored]
    /\ UNCHANGED <<month, reservation, listing>>

\* reserve: both entries are written.
Reserve(e) ==
    /\ Live(instance) /\ Live(event[e]) /\ reservation[e] = None
    /\ event' = [event EXCEPT ![e] = Extended(@)]
    /\ reservation' = [reservation EXCEPT ![e] = Stored]
    /\ UNCHANGED <<month, count, instance, listing>>

\* cancel_event, which writes the event alone.
CancelEvent(e) ==
    /\ Live(instance) /\ Live(event[e])
    /\ event' = [event EXCEPT ![e] = Extended(@)]
    /\ UNCHANGED <<month, count, instance, reservation, listing>>

\* cancel_reservation writes both, check_in, claim_cancelled_event_refund and
\* settle_no_show the reservation alone.
CloseReservation(e) ==
    /\ Live(instance) /\ Live(event[e]) /\ Live(reservation[e])
    /\ reservation' = [reservation EXCEPT ![e] = Extended(@)]
    /\ \/ event' = [event EXCEPT ![e] = Extended(@)]
       \/ UNCHANGED event
    /\ UNCHANGED <<month, count, instance, listing>>

Month ==
    /\ month < MaxMonths
    /\ month' = month + 1
    /\ UNCHANGED <<storageVars, listing>>

-----------------------------------------------------------------------------
(* Reading *)

\* readSimulation and unwrapResult: what a read of one entry ends in.
Read(until) == IF until = None THEN "not_found" ELSE IF Live(until) THEN "found" ELSE "restore"

\* getEvent of one id, which reads the instance's code and the event.
GetEvent(e) == IF Live(instance) THEN Read(event[e]) ELSE "restore"

\* listEvents: an id that is not found is left out, any other failure is the
\* list's failure.
ListEvents ==
    LET ids == 1..count
        failed == ~Live(instance) \/ \E e \in ids : GetEvent(e) = "restore"
    IN  [failed |-> failed, unreadable |-> 0,
         ids |-> IF failed THEN {} ELSE {e \in ids : GetEvent(e) = "found"}]

\* The reservations page reads its account's reservation for each event of the
\* list, and counts those that cannot be read (collectReservationResults).
ListReservations ==
    LET list == ListEvents
    IN  [list EXCEPT !.ids = {e \in @ : Read(reservation[e]) = "found"},
                     !.unreadable = Cardinality({e \in list.ids : Read(reservation[e]) = "restore"})]

List ==
    /\ listing' \in {ListEvents, ListReservations}
    /\ UNCHANGED <<month, storageVars>>

ListingInit ==
    /\ month = 0 /\ count = 0 /\ instance = BumpTo
    /\ event = [e \in EventIds |-> None]
    /\ reservation = [e \in EventIds |-> None]
    /\ listing = None

ListingNext ==
    \/ CreateEvent \/ Month \/ List
    \/ \E e \in EventIds : Reserve(e) \/ CancelEvent(e) \/ CloseReservation(e)

ListingSpec == ListingInit /\ [][ListingNext]_listingVars

\* The comment on listEvents (lib/contract/index.ts) promises that ids that no
\* longer read back, archived or missing, are skipped rather than failing the whole
\* list; the code skips only those that the contract does not know.
ArchivedEventsSkipped == listing # None /\ listing.failed => ~Live(instance)
=============================================================================
