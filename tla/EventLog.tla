------------------------------ MODULE EventLog ------------------------------
(***************************************************************************)
(* The events that the contract publishes (src/events.rs), the provider    *)
(* that keeps the latest of them, and the organizer's list of reservations *)
(* that is read back from both (apps/web/lib/contract/event-log.ts).  One  *)
(* event's entries only: the filter on its id is the query.                *)
(*                                                                         *)
(* The provider answers pages in ledger order, a page that is not full     *)
(* being the last; asked for entries it has forgotten, it refuses.         *)
(***************************************************************************)
EXTENDS Bond, Sequences

CONSTANT PageSize       \* EVENT_PAGE_SIZE

ASSUME EventLogAssumption == PageSize \in Nat \ {0}

VARIABLES
    log,       \* all that was ever published about the event
    oldest,    \* the first entry that the provider still has
    reader,    \* the listEventReservations under way, or None
    list       \* the list it ended in last, or None

readerVars == <<oldest, reader, list>>
logVars == <<vars, log, readerVars>>

-----------------------------------------------------------------------------
(* Publishing *)

OutcomeEvent ==
    [Locked |-> "bond_locked", Cancelled |-> "reservation_cancelled", Attended |-> "checked_in",
     Refunded |-> "refund_claimed", NoShowSettled |-> "no_show_settled"]

\* What an entry point publishes: the reservation it stored, or else the event.
Published ==
    LET stored == {p \in Address : reservations'[1][p] # reservations[1][p]}
    IN  IF stored # {}
        THEN LET p == CHOOSE q \in stored : TRUE
             IN  <<[kind |-> OutcomeEvent[reservations'[1][p].status], participant |-> p]>>
        ELSE IF events'[1] = events[1] THEN <<>>
        ELSE <<[kind |-> IF events[1] = None THEN "event_created" ELSE "event_cancelled",
                participant |-> None]>>

ContractStep ==
    /\ Next
    /\ log' = log \o Published
    /\ UNCHANGED readerVars

\* The provider's window moves on.
Forget ==
    /\ oldest <= Len(log)
    /\ oldest' = oldest + 1
    /\ UNCHANGED <<vars, log, reader, list>>

-----------------------------------------------------------------------------
(* Reading *)

Reserved == {p \in Address : HasReservation(1, p)}

\* listEventReservations begins, and the page says it is loading: getHealth says
\* where the window starts.  known is who had reserved by then.
StartReading ==
    /\ reader = None /\ events[1] # None
    /\ reader' = [phase |-> "log", cursor |-> oldest, entries |-> {}, known |-> Reserved]
    /\ list' = None
    /\ UNCHANGED <<vars, log, oldest>>

ReadPage ==
    /\ reader # None /\ reader.phase = "log"
    /\ reader.cursor >= oldest
    /\ LET answered == {i \in reader.cursor..Len(log) : i < reader.cursor + PageSize}
       IN reader' = [reader EXCEPT
            !.entries = @ \cup {log[i] : i \in answered},
            !.cursor = @ + PageSize,
            !.phase = IF Cardinality(answered) < PageSize THEN "reservations" ELSE "log"]
    /\ UNCHANGED <<vars, log, oldest, list>>

\* A request fails, or asks for what the provider has forgotten.
ReadingFails ==
    /\ reader # None
    /\ reader' = None
    /\ UNCHANGED <<vars, log, oldest, list>>

Participants(entries) == {e.participant : e \in {x \in entries : x.kind = "bond_locked"}}

\* Faulty variants: the unreadable are not counted, or the event's creation
\* need not be in the window.
CompleteIgnoringUnreadable(entries, unreadable) ==
    \E e \in entries : e.kind = "event_created"
CompleteWhenAllRead(entries, unreadable) == unreadable = {}

HistoryComplete(entries, unreadable) ==
    (\E e \in entries : e.kind = "event_created") /\ unreadable = {}

\* Every participant's reservation is read back; some may not be readable.
ReadReservations ==
    /\ reader # None /\ reader.phase = "reservations"
    /\ \E unreadable \in SUBSET Participants(reader.entries) :
          list' = [rows |-> [p \in Participants(reader.entries) \ unreadable |-> reservations[1][p]],
                   complete |-> HistoryComplete(reader.entries, unreadable),
                   known |-> reader.known]
    /\ reader' = None
    /\ UNCHANGED <<vars, log, oldest>>

-----------------------------------------------------------------------------
LogInit ==
    /\ Init
    /\ log = <<>> /\ oldest = 1
    /\ reader = None /\ list = None

LogNext == ContractStep \/ Forget \/ StartReading \/ ReadPage \/ ReadingFails \/ ReadReservations

LogSpec == LogInit /\ [][LogNext]_logVars

\* A list that does not say it may be incomplete has everyone who had reserved
\* when it was asked for, at whatever point the provider's window moved on, and
\* shows of each what the contract has stored at least since the bond was locked.
ListCompleteOrSaid ==
    list # None =>
        /\ list.complete => list.known \subseteq DOMAIN list.rows
        /\ \A p \in DOMAIN list.rows :
              /\ list.rows[p] # None
              /\ list.rows[p].status # "Locked" => list.rows[p] = reservations[1][p]
=============================================================================
