------------------------------ MODULE MCPages ------------------------------
(***************************************************************************)
(* The components around the contract that keep no state together, each    *)
(* explored by itself while the others rest: a page and the contract, the  *)
(* organizer's list and the contract's events, the form that drafts an     *)
(* event, the deployment script, the rates of a deposit, the wallet page.  *)
(***************************************************************************)
EXTENDS PagesProperties, EventLog, Form, Deploy, Quote, WalletPage, TLC

CONSTANTS org, pool, alice

VARIABLE part       \* the component explored

aroundVars == <<part, pagesVars, log, readerVars, formVars, deployVars,
                quoteVars, walletPageVars>>

\* A seat for one, open for a single moment of the clock; and a policy refused.
OneSeat ==
    LET policy == [bond_amount |-> 3, capacity |-> 1, text_fits |-> TRUE,
                   start_time |-> 0, checkin_start |-> 0, checkin_deadline |-> 1,
                   cancellation_deadline |-> 0, organizer_bps |-> 5000, community_bps |-> 5000]
    IN  {policy, [policy EXCEPT !.cancellation_deadline = 1]}

\* Alice can pay one bond and close her trustline then; the organizer can take
\* the seat as well, and keeps a token, like the pool.
AroundBalance == (org :> 4) @@ (pool :> 1) @@ (alice :> 3)

\* Bound: on the event page the organizer is only the rival for the seat; accounts
\* take turns on the other pages.
Connecting == page = "event" => address' # org

\* Balances around what one and two entries ask for, with and without an entry
\* sponsored and one stroop on offer.
SmallAccounts ==
    {[balance |-> bal, subentries |-> own[1], sponsoring |-> 0, sponsored |-> rest[1],
      selling |-> rest[2], trustline |-> own[2]] :
        bal \in 1..6, own \in {<<0, FALSE>>, <<1, FALSE>>, <<1, TRUE>>},
        rest \in {<<0, 0>>, <<1, 1>>}}

\* A time before 1970, and one on either side of FallBack.
TypedTimes == {-1, 28, 33}

AroundInit ==
    /\ part \in {"pages", "log", "form", "deploy", "quote", "wallet"}
    /\ PagesInit /\ LogInit /\ FormInit /\ DeployInit /\ QuoteInit /\ WalletPageInit
    \* A component at rest starts in one way only.
    /\ part # "pages" => page = "event"
    /\ part # "deploy" => record.wasm = CHOOSE w \in Wasm : TRUE
    /\ part # "wallet" => held = None /\ base = CHOOSE b \in BaseReserves : TRUE

AroundNext ==
    \/ part = "pages" /\ PagesNext /\ Connecting
         /\ UNCHANGED <<part, log, readerVars, formVars, deployVars, quoteVars, walletPageVars>>
    \/ part = "log" /\ LogNext
         /\ UNCHANGED <<part, pageVars, formVars, deployVars, quoteVars, walletPageVars>>
    \/ part = "form" /\ FormNext
         /\ UNCHANGED <<part, pagesVars, log, readerVars, deployVars, quoteVars, walletPageVars>>
    \/ part = "deploy" /\ DeployNext
         /\ UNCHANGED <<part, pagesVars, log, readerVars, formVars, quoteVars, walletPageVars>>
    \/ part = "quote" /\ QuoteNext
         /\ UNCHANGED <<part, pagesVars, log, readerVars, formVars, deployVars, walletPageVars>>
    \/ part = "wallet" /\ WalletPageNext
         /\ UNCHANGED <<part, pagesVars, log, readerVars, formVars, deployVars, quoteVars>>

AroundSpec == AroundInit /\ [][AroundNext]_aroundVars
=============================================================================
