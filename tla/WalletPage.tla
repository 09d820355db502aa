------------------------------ MODULE WalletPage ------------------------------
(***************************************************************************)
(* The wallet page: the account as Horizon tells it, the reserve that the  *)
(* network locks, and the button that opens the trustline of the asset     *)
(* (app/wallet/page.tsx, components/wallet/enable-usdc-action.tsx,         *)
(* lib/stellar/horizon.ts and lib/stellar/xlm-reserve.ts).                 *)
(*                                                                         *)
(* The network is external: the account and the base reserve change at any *)
(* time.  Amounts are stroops.                                             *)
(***************************************************************************)
EXTENDS Integers, Nothing

CONSTANTS
    Ledgered,       \* the accounts that the network may hold
    BaseReserves,   \* the base reserves that it may ask
    Fee,            \* the fee of one operation, BASE_FEE
    MaxForgotten    \* bound: transactions of components that are gone

NetworkAccount == [balance : Nat, subentries : Nat, sponsoring : Nat, sponsored : Nat,
                   selling : Nat, trustline : BOOLEAN]

ASSUME WalletPageAssumption ==
    /\ Ledgered \subseteq NetworkAccount /\ BaseReserves \subseteq Nat
    /\ Fee \in Nat \ {0} /\ MaxForgotten \in Nat
    \* A sponsored entry is one of the account's own, or half of the account itself.
    /\ \A a \in Ledgered : a.sponsored <= 2 + a.subentries
    /\ None \notin NetworkAccount

VARIABLES
    held,           \* the account on the network, or None
    base,           \* the base reserve on the network
    view,           \* what the page shows: how far its load is, and the assets read
    busy,           \* a transaction of the button on the screen is on its way
    forgotten       \* how many are, of buttons that are gone

walletPageVars == <<held, base, view, busy, forgotten>>

-----------------------------------------------------------------------------
(* The network (external) *)

EntryCount(a) == 2 + a.subentries + a.sponsoring - a.sponsored

\* What the account can give away: all but its reserve and what its offers sell.
Available(a, b) == a.balance - b * EntryCount(a) - a.selling

PaysFee(a, b) == Available(a, b) >= Fee

\* change_trust: an open trustline stays; a new one is one more entry to hold.
OpensTrustline(a, b) == PaysFee(a, b) /\ (a.trustline \/ Available(a, b) - Fee >= b)

-----------------------------------------------------------------------------
(* Reading the account *)

Assets == [exists : BOOLEAN, baseReserve : Nat, spendable : Nat, trustline : BOOLEAN]
EmptyAccount == [exists |-> FALSE, baseReserve |-> 0, spendable |-> 0, trustline |-> FALSE]

\* calculateXlmReservePosition
Spendable(a, b) ==
    LET unavailable == b * EntryCount(a) + a.selling
    IN  IF a.balance > unavailable THEN a.balance - unavailable ELSE 0

\* getAccountAssets, of an account and a ledger that are read one after the other.
AssetsOf(a, b) ==
    IF a = None THEN EmptyAccount
    ELSE [exists |-> TRUE, baseReserve |-> b, spendable |-> Spendable(a, b),
          trustline |-> a.trustline]

View == [step : {"account", "ledger", "ready", "error"},
         read : NetworkAccount \cup {None}, assets : Assets]

\* A load begins; the button of the page before it is gone, what it sent is not.
Loading == [step |-> "account", read |-> None, assets |-> EmptyAccount]

WalletPageTypeOK ==
    /\ held \in Ledgered \cup {None} /\ base \in BaseReserves
    /\ view \in View
    /\ busy \in BOOLEAN /\ forgotten \in 0..MaxForgotten

\* requiredForNewSubentry
RequiredWithoutFee(b) == b                                          \* faulty: the fee is extra
Required(b) == b + Fee

\* The button is there, and it is enabled.
ButtonShown == view.step = "ready" /\ view.assets.exists /\ ~view.assets.trustline
Insufficient(assets) == assets.spendable < Required(assets.baseReserve)

\* "This account has no XLM available": neither a trustline nor a call of the contract.
NoticeShown == view.step = "ready" /\ view.assets.exists /\ view.assets.spendable = 0

WalletPageInit ==
    /\ held \in Ledgered \cup {None} /\ base \in BaseReserves
    /\ view = Loading /\ busy = FALSE /\ forgotten = 0

ReadAccount ==
    /\ view.step = "account"
    /\ view' = IF held = None THEN [view EXCEPT !.step = "ready"]
               ELSE [view EXCEPT !.step = "ledger", !.read = held]
    /\ UNCHANGED <<held, base, busy, forgotten>>

ReadLedger ==
    /\ view.step = "ledger"
    /\ view' = [step |-> "ready", read |-> None, assets |-> AssetsOf(view.read, base)]
    /\ UNCHANGED <<held, base, busy, forgotten>>

ReadFails ==
    /\ view.step \in {"account", "ledger"}
    /\ view' = [Loading EXCEPT !.step = "error"]
    /\ UNCHANGED <<held, base, busy, forgotten>>

\* state.reload: by "Try again" and "Check again", and when the anchor's deposit
\* or its claim is settled.  A transaction on its way is not stopped by it.
ReloadPage ==
    /\ view.step \in {"ready", "error"}
    /\ busy => forgotten < MaxForgotten
    /\ view' = Loading /\ busy' = FALSE
    /\ forgotten' = IF busy THEN forgotten + 1 ELSE forgotten
    /\ UNCHANGED <<held, base>>

-----------------------------------------------------------------------------
(* Opening the trustline *)

Enable ==
    /\ ButtonShown /\ ~busy /\ ~Insufficient(view.assets)
    /\ busy' = TRUE
    /\ UNCHANGED <<held, base, view, forgotten>>

\* What the network makes of the transaction: success, or failure with its fee
\* taken, or a refusal.
Lands(a) ==
    IF OpensTrustline(a, base)
    THEN [a EXCEPT !.balance = @ - Fee, !.trustline = TRUE,
                   !.subentries = IF a.trustline THEN @ ELSE @ + 1]
    ELSE IF PaysFee(a, base) THEN [a EXCEPT !.balance = @ - Fee] ELSE a

\* The bound of the network's accounts: what lands stays among them.
Landing == held # None /\ Lands(held) \in Ledgered /\ held' = Lands(held)

\* onSuccess reloads the page, whichever button sent the transaction; another
\* one on its way is forgotten.
EnabledOf(shown) ==
    /\ Landing /\ OpensTrustline(held, base)
    /\ view' = Loading /\ busy' = FALSE
    /\ forgotten' = IF shown \/ busy THEN forgotten ELSE forgotten - 1
    /\ UNCHANGED base

\* The transaction fails on the network, or never gets there.
FailedOf(shown) ==
    /\ \/ Landing /\ ~OpensTrustline(held, base)
       \/ held' = held
    /\ busy' = (busy /\ ~shown)
    /\ forgotten' = IF shown THEN forgotten ELSE forgotten - 1
    /\ UNCHANGED <<base, view>>

TransactionEnds ==
    \/ busy /\ (EnabledOf(TRUE) \/ FailedOf(TRUE))
    \/ forgotten > 0 /\ (EnabledOf(FALSE) \/ FailedOf(FALSE))

\* Payments, offers, sponsorships and Friendbot, and a vote on the base reserve.
NetworkMoves ==
    /\ \/ held' \in Ledgered /\ base' = base
       \/ base' \in BaseReserves /\ held' = held
    /\ UNCHANGED <<view, busy, forgotten>>

WalletPageNext ==
    \/ ReadAccount \/ ReadLedger \/ ReadFails \/ ReloadPage
    \/ Enable \/ TransactionEnds
    \/ NetworkMoves

WalletPageSpec == WalletPageInit /\ [][WalletPageNext]_walletPageVars

-----------------------------------------------------------------------------
(* Properties *)

\* The page answers for the network.  As long as the assets it shows are those of
\* the account, the button is disabled exactly when the network would refuse the
\* trustline, a transaction that the button has sent goes through, and who is
\* told that no XLM is left cannot pay for any transaction.
OfferIsTheNetworks ==
    held # None /\ view.assets = AssetsOf(held, base) =>
        /\ ButtonShown => (Insufficient(view.assets) <=> ~OpensTrustline(held, base))
        /\ busy => OpensTrustline(held, base)
        /\ NoticeShown => ~PaysFee(held, base)
=============================================================================
