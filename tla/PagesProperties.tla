--------------------------- MODULE PagesProperties ---------------------------
(***************************************************************************)
(* What a participant or an organizer may rely on when a page of the web   *)
(* application speaks of the contract.                                     *)
(***************************************************************************)
EXTENDS Pages

\* What a call that succeeded has done, in the words of what the page read.
Shows(seen, c) ==
    CASE c.kind = "reserve" -> Own(seen) # None
      [] c.kind = "cancel" -> Own(seen).status = "Cancelled"
      [] c.kind = "refund" -> Own(seen).status = "Refunded"
      [] c.kind = "settle" -> seen.rows[c.participant].status = "NoShowSettled"
      [] c.kind = "cancel_event" -> seen.event.status = "Cancelled"

\* What is on the screen is not of the past.  A page that says a call succeeded does
\* not show the account that made it the contract as it was before, whatever loads
\* were on their way meanwhile; and once no load is under way it shows what was read
\* for the connected account (useAsyncData, and the reload that handlers end with).
FreshAfterSuccess ==
    data.status = "ready" =>
        /\ tx.kind = "success" /\ data.seen.account = tx.call.account => Shows(data.seen, tx.call)
        /\ load = None /\ address # None => data.seen.account = address

\* The calls a page has a button for.
CallsOf(a) ==
    CASE page = "event" -> [kind : {"reserve"}, account : {a}, participant : {a}]
      [] page = "reservation" -> [kind : {"cancel", "refund"}, account : {a}, participant : {a}]
      [] OTHER -> [kind : {"cancel_event"}, account : {a}, participant : {a}]
                    \cup [kind : {"settle"}, account : {a}, participant : DOMAIN data.seen.rows]

\* The contract would take the call; a settlement may still fail to pay an
\* organizer or a pool that closed its trustline, which no page looks at.
WouldTake(c) ==
    IF c.kind = "settle" THEN IsLocked(1, c.participant) /\ SettlementOpen(1) ELSE Accepted(c)

\* A page that is up to date offers exactly the calls the contract would take
\* from the connected account (lib/domain/eligibility.ts against lib.rs), the
\* split it shows is the one that will be paid (splitByBps), and it promises a
\* refund or announces a settlement exactly when the contract allows it.
PredictionsRight ==
    data.status = "ready" /\ address # None /\ data.seen = Reading(address) =>
        /\ \A c \in CallsOf(address) :
              Offered(c) <=> WouldTake(c) /\ (page = "organizer" => address = TheEvent.organizer)
        /\ \A p \in DOMAIN data.seen.rows : Locked(data.seen.rows[p]) =>
              LET row == data.seen.rows[p]
                  status == DisplayStatus(TheEvent, row, now)
              IN  /\ SplitByBps(row.amount, TheEvent.terms.organizer_bps)
                        = [organizer |-> OrganizerAmount(1, p), community |-> CommunityAmount(1, p)]
                  /\ status = "refund available" <=> RefundOpen(1)
                  /\ status = "awaiting settlement" <=> SettlementOpen(1)

\* docs/architecture/SYSTEM.md says that every terminal state of a write carries
\* the transaction hash; in executeVoidWrite (lib/contract/index.ts) only the
\* successful end does.
TerminalStatesCarryHash == [][At("confirming") /\ job' = None => tx'.hash]_pagesVars
=============================================================================
