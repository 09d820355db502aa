-------------------------------- MODULE Pages --------------------------------
(***************************************************************************)
(* A page of the web application over the contract: it loads what it shows *)
(* (lib/hooks/use-async-data.ts), offers calls by its predictions, and     *)
(* makes them through the gateway (lib/contract/index.ts): simulate, sign, *)
(* send, wait for a ledger.  Meanwhile the contract moves on, and the user *)
(* connects another account.                                               *)
(*                                                                         *)
(* One event, and one page of it: the event page, a participant's          *)
(* reservation page, or the organizer's page                               *)
(* (app/events/[id], app/reservations/[id], app/organizer/events/[id]).    *)
(***************************************************************************)
EXTENDS Eligibility

CONSTANT Viewer         \* the accounts the user connects

ASSUME PagesAssumption == Viewer \subseteq Signers

VARIABLES
    page,        \* "event", "reservation" or "organizer"
    address,     \* the connected account, able to transact, or None
    data,        \* what useAsyncData returns: a status and what was read last
    load,        \* the load in flight, or None
    stale,       \* a load that was superseded, if anything of it still mattered
    confirming,  \* the kind of call whose confirmation is open, with a settlement's participant; or None
    job,         \* the write in flight, or None
    tx,          \* the transaction line
    adrift       \* a transaction the page no longer waits for, still pending, or None

pageVars == <<page, address, data, load, stale, confirming, job, tx, adrift>>
pagesVars == <<vars, pageVars>>

-----------------------------------------------------------------------------
(* Reading *)

Readings == [account : Viewer, event : Event \cup {None}, time : Time, assets : BOOLEAN,
             rows : UNION {[S -> Reservation \cup {None}] : S \in SUBSET Address}]

\* null is no load.
ASSUME LoadAssumption == None \notin [for : Viewer, reading : Readings \cup {None}]

TheEvent == events[1]

\* getAccountAssets, and what a page asks of the account: to receive the asset,
\* or to cover the bond.  The organizer's page does not ask.
AssetsSuffice(a) ==
    CASE page = "event" -> trustline[a] /\ TheEvent # None /\ balance[a] >= TheEvent.terms.bond_amount
      [] page = "reservation" -> trustline[a]
      [] OTHER -> TRUE

\* Whose reservations a page reads: the organizer's page reads the list, but
\* only for the organizer; the others read the connected account's.
Reads(a) == IF page = "organizer"
            THEN IF TheEvent # None /\ a = TheEvent.organizer THEN Address ELSE {}
            ELSE {a}

\* What a load reads for an account.  Its requests are sent together, and are
\* answered by one ledger here.
Reading(a) ==
    [account |-> a, event |-> TheEvent, time |-> now, assets |-> AssetsSuffice(a),
     rows |-> [p \in Reads(a) |-> reservations[1][p]]]

\* Faulty variant: the answer of a superseded load is taken.
SupersededStays(l) == l

\* The answer of a superseded load is thrown away: nothing of it matters.
Superseded(l) == None

\* The effect runs: its key is the connected account and the reload counter.
\* Without one the reservation page loads nothing, and what the others load then
\* is left out: they offer nothing.
Load(a) ==
    /\ load' = IF a = None THEN None ELSE [for |-> a, reading |-> None]
    /\ stale' = Superseded(load)

Reload ==
    /\ Load(address)
    /\ data' = [status |-> "loading", seen |-> None]

\* A load is answered.  The event page offers no retry for an event that does
\* not exist.
Answered(reading) ==
    data' = IF reading.event # None THEN [status |-> "ready", seen |-> reading]
            ELSE [status |-> IF page = "event" THEN "missing" ELSE "error", seen |-> None]

\* The ledger answers a load, and later its answer arrives.
LoadReads ==
    /\ load # None /\ load.reading = None
    \* Without an answer from Horizon nothing is held against the account.
    /\ \E assets \in {AssetsSuffice(load.for), TRUE} :
          load' = [load EXCEPT !.reading = [Reading(load.for) EXCEPT !.assets = assets]]
    /\ UNCHANGED <<vars, page, address, data, stale, confirming, job, tx, adrift>>

LoadAnswers ==
    /\ \E l \in {load, stale} \ {None} :
          /\ l.reading # None
          /\ Answered(l.reading)
          /\ IF l = load THEN load' = None /\ UNCHANGED stale
             ELSE stale' = None /\ UNCHANGED load
    /\ UNCHANGED <<vars, page, address, confirming, job, tx, adrift>>

LoadFails ==
    /\ load # None
    /\ load' = None
    /\ data' = [status |-> "error", seen |-> None]
    /\ UNCHANGED <<vars, page, address, stale, confirming, job, tx, adrift>>

Retry ==
    /\ data.status = "error" /\ load = None /\ Reload
    /\ UNCHANGED <<vars, page, address, confirming, job, tx, adrift>>

\* Connecting, disconnecting: what was read for another account stays on the
\* screen until the load for this one is answered.
Switch(a) ==
    /\ address # a /\ None \in {a, address}
    /\ address' = a
    /\ Load(a)
    /\ UNCHANGED <<vars, page, data, confirming, job, tx, adrift>>

-----------------------------------------------------------------------------
(* Offering *)

Call == [kind : {"reserve", "cancel", "refund", "settle", "cancel_event"},
         account : Viewer, participant : Address]

OwnsReservation(seen) == address = seen.account

\* The row for the account that was connected when the page loaded.
Own(seen) == IF seen.account \in DOMAIN seen.rows THEN seen.rows[seen.account] ELSE None

\* What each page puts a button on, given what it has read.
EventPageOffers(seen, c) ==
    /\ c.kind = "reserve" /\ c.participant = address
    /\ CanReserve(seen.event, Own(seen), seen.time) /\ seen.assets

ReservationPageOffers(seen, c) ==
    /\ c.kind \in {"cancel", "refund"} /\ c.participant = address
    /\ Own(seen) # None /\ OwnsReservation(seen) /\ seen.assets
    /\ c.kind = "cancel" => CanCancelReservation(seen.event, Own(seen), seen.time)
    /\ c.kind = "refund" => CanClaimCancelledRefund(seen.event, Own(seen))

OrganizerPageOffers(seen, c) ==
    /\ address = seen.event.organizer /\ seen.rows # <<>>
    /\ c.kind \in {"cancel_event", "settle"}
    /\ c.kind = "cancel_event" => c.participant = address /\ seen.event.status = "Active"
    /\ c.kind = "settle" => CanSettleNoShow(seen.event, seen.rows[c.participant], seen.time)

\* Nothing is offered while a page loads, has failed, or has no account.
Offered(c) ==
    /\ data.status = "ready" /\ c.account = address
    /\ CASE page = "event" -> EventPageOffers(data.seen, c)
         [] page = "reservation" -> ReservationPageOffers(data.seen, c)
         [] page = "organizer" -> OrganizerPageOffers(data.seen, c)

\* A click on the button: the page asks for confirmation.
Ask(c) ==
    /\ Offered(c) /\ tx.kind # "running"
    \* The organizer's page keeps its buttons while a confirmation is open.
    /\ page # "organizer" => confirming = None
    /\ confirming' = [kind |-> c.kind, participant |-> IF c.kind = "settle" THEN c.participant ELSE None]
    /\ tx' = [kind |-> "idle", call |-> None, hash |-> FALSE]
    /\ UNCHANGED <<vars, page, address, data, load, stale, job, adrift>>

Dismiss ==
    /\ confirming # None /\ data.status = "ready" /\ tx.kind # "running"
    /\ confirming' = None
    /\ UNCHANGED <<vars, page, address, data, load, stale, job, tx, adrift>>

\* The call a confirmation leads to is made for the account connected by then.
\* A settlement is judged by the row that was on the screen when it was asked
\* for, which was locked.
Confirmable(c) ==
    IF c.kind = "settle"
    THEN /\ data.status = "ready" /\ address = data.seen.event.organizer
         /\ data.seen.rows # <<>>
         /\ CanSettleNoShow(data.seen.event, [status |-> "Locked"], data.seen.time)
    ELSE Offered(c)

Submit ==
    /\ confirming # None /\ address # None /\ job = None
    /\ LET c == [kind |-> confirming.kind, account |-> address,
                  participant |-> IF confirming.kind = "settle" THEN confirming.participant ELSE address]
       IN /\ Confirmable(c)
          /\ job' = [call |-> c, phase |-> "simulating", fate |-> "none"]
          /\ tx' = [kind |-> "running", call |-> None, hash |-> FALSE]
    /\ UNCHANGED <<vars, page, address, data, load, stale, confirming, adrift>>

-----------------------------------------------------------------------------
(* Writing: executeVoidWrite *)

\* The contract's step for a call.
Applies(c) ==
    CASE c.kind = "reserve" -> Reserve(1, c.participant)
      [] c.kind = "cancel" -> CancelReservation(1, c.participant)
      [] c.kind = "refund" -> ClaimCancelledEventRefund(1, c.participant)
      [] c.kind = "settle" -> SettleNoShow(1, c.participant)
      [] c.kind = "cancel_event" -> CancelEvent(1)

At(phase) == job # None /\ job.phase = phase

Proceed(phase) ==
    /\ job' = [job EXCEPT !.phase = phase, !.fate = IF phase = "confirming" THEN "pending" ELSE @]
    /\ UNCHANGED <<vars, page, address, data, load, stale, confirming, tx, adrift>>

\* readSimulation: the contract would apply the call, its transfers included.
Accepted(c) ==
    CASE c.kind = "reserve" -> ReservationAllowed(1, c.participant)
      [] c.kind = "cancel" -> CancellationAllowed(1, c.participant)
      [] c.kind = "refund" -> RefundAllowed(1, c.participant)
      [] c.kind = "settle" -> SettlementAllowed(1, c.participant)
      [] c.kind = "cancel_event" -> EventCancellable(1)

Simulated == At("simulating") /\ Accepted(job.call) /\ Proceed("awaiting_signature")
\* The signature is the connected account's; any other is refused later.
Signed == At("awaiting_signature") /\ address = job.call.account /\ Proceed("submitting")
Sent == At("submitting") /\ Proceed("confirming")

\* txFailureState: a message, and the hash if the error carries it; no error that
\* executeVoidWrite throws or passes on does.
FailureState == [kind |-> "failed", call |-> None, hash |-> FALSE]

\* Every failure ends alike.
Failed ==
    /\ job' = None
    /\ tx' = FailureState
    /\ Reload
    /\ UNCHANGED <<vars, page, address, confirming>>

\* Rejected by the contract or the network, declined, refused on sending, or
\* failed on a ledger.
WriteFails ==
    /\ job # None /\ (job.phase = "confirming" => job.fate = "failed")
    /\ Failed /\ UNCHANGED adrift

\* Polling gives up, or the answer to sending is lost: the transaction may
\* still be applied.
GivesUp ==
    /\ adrift = None
    /\ \/ At("confirming") /\ job.fate = "pending"
       \/ At("submitting")
    /\ adrift' = job.call
    /\ Failed

\* Faulty variant: a transaction that was sent passes for one that was applied.
ConfirmedWhenSent == At("confirming") /\ job.fate \in {"pending", "applied"}

Confirmed == At("confirming") /\ job.fate = "applied"

Succeeds ==
    /\ Confirmed
    /\ job' = None /\ confirming' = None
    /\ tx' = [kind |-> "success", call |-> job.call, hash |-> TRUE]
    /\ Reload
    /\ UNCHANGED <<vars, page, address, adrift>>

-----------------------------------------------------------------------------
(* The network and everybody else *)

LedgerApplies ==
    /\ At("confirming") /\ job.fate = "pending"
    /\ \/ Applies(job.call) /\ job' = [job EXCEPT !.fate = "applied"]
       \/ job' = [job EXCEPT !.fate = "failed"] /\ UNCHANGED vars
    /\ UNCHANGED <<page, address, data, load, stale, confirming, tx, adrift>>

LedgerAppliesLate ==
    /\ adrift # None
    /\ adrift' = None
    /\ Applies(adrift) \/ UNCHANGED vars
    /\ UNCHANGED <<page, address, data, load, stale, confirming, job, tx>>

Elsewhere == Next /\ UNCHANGED pageVars

PagesInit ==
    /\ Init
    /\ page \in {"event", "reservation", "organizer"}
    /\ address = None
    /\ data = [status |-> "loading", seen |-> None]
    /\ load = None /\ stale = None
    /\ confirming = None /\ job = None /\ adrift = None
    /\ tx = [kind |-> "idle", call |-> None, hash |-> FALSE]

PagesNext ==
    \/ LoadReads \/ LoadAnswers \/ LoadFails \/ Retry
    \/ \E a \in Viewer \cup {None} : Switch(a)
    \/ \E c \in Call : Ask(c)
    \/ Dismiss \/ Submit \/ Simulated \/ Signed \/ Sent \/ WriteFails \/ GivesUp \/ Succeeds
    \/ LedgerApplies \/ LedgerAppliesLate \/ Elsewhere

PagesSpec == PagesInit /\ [][PagesNext]_pagesVars
=============================================================================
