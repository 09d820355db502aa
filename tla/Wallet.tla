-------------------------------- MODULE Wallet --------------------------------
(***************************************************************************)
(* The connection to the user's wallet: the provider of the web            *)
(* application (lib/wallet/provider.tsx) over its adapter                  *)
(* (lib/wallet/wallets-kit-adapter.ts), the kit and the extension.         *)
(*                                                                         *)
(* Every step runs from one await to the next.  Connecting, refreshing,    *)
(* disconnecting, watching and signing overlap freely: what was read       *)
(* before an await is kept in the record of the operation and applied      *)
(* after it, whatever has been committed meanwhile.                        *)
(***************************************************************************)
EXTENDS Accounts, Naturals

CONSTANTS Attempt,      \* names for calls of connect() in flight
          Caller,       \* names for calls of signTransaction() in flight
          MaxChanges    \* bound on what the user changes in the extension

ASSUME WalletAssumption == MaxChanges \in Nat

VARIABLES
    transport,  \* "freighter" or "walletconnect", fixed when the kit loads
    ext,        \* external: account and network selected in the extension
    changes,    \* how often the user has changed them
    kit,        \* external: the kit is loaded or has failed; the address it remembers
    wallet,     \* the committed state: address and status
    connects,   \* per attempt: the await connect() is suspended at
    refresh,    \* what refresh() has read so far, or None
    leaving,    \* disconnect() is suspended in the kit
    watch,      \* the watcher of the current effect and what it last saw
    news,       \* an answer that a watcher is about to deliver, or None
    requests    \* per caller: the account asked for a signature, or None

walletVars == <<transport, ext, changes, kit, wallet, connects, refresh, leaving,
                watch, news, requests>>

Network == {"testnet", "other"}
Snapshot == [address: Address, network: Network]
Status == {"disconnected", "connecting", "connected", "wrong_network", "error"}
WalletState == [address: Address, status: Status]

WalletTypeOK ==
    /\ transport \in {"freighter", "walletconnect"}
    /\ ext \in Snapshot /\ changes \in 0..MaxChanges
    /\ kit \in [runtime: {"unloaded", "ready", "failed"}, address: Address]
    /\ wallet \in WalletState
    /\ connects \in [Attempt -> [stage: {"idle", "load", "prompt", "assert", "network"}, address: Address]]
    /\ refresh \in {None} \cup [address: Address, network: Network \cup {None}]
    /\ leaving \in BOOLEAN
    /\ watch \in [stage: {"off", "installing", "on"}, seen: Snapshot \cup {None}]
    /\ news \in Snapshot \cup {None}
    /\ requests \in [Caller -> Address]

Disconnected == [address |-> None, status |-> "disconnected"]
NoAttempt == [stage |-> "idle", address |-> None]

WalletInit ==
    /\ transport \in {"freighter", "walletconnect"}
    /\ ext \in [address: Account, network: {"testnet"}] /\ changes = 0
    \* The kit keeps its address in localStorage, from an earlier visit.
    /\ kit \in [runtime: {"unloaded"}, address: Address]
    /\ wallet = Disconnected
    /\ connects = [c \in Attempt |-> NoAttempt]
    /\ refresh = None /\ leaving = FALSE
    /\ watch = [stage |-> "off", seen |-> None] /\ news = None
    /\ requests = [q \in Caller |-> None]

(***************************************************************************)
(* Committing a state.  The effect that watches the wallet depends on the  *)
(* address and the status: when one of them changes, its watcher is        *)
(* stopped and, if there is an address, another one installed.             *)
(***************************************************************************)
Commit(next) ==
    /\ wallet' = next
    /\ watch' = IF next = wallet THEN watch
                ELSE [stage |-> IF next.address = None THEN "off" ELSE "installing", seen |-> None]

\* Faulty variant: the kind of the error passes for a status.
StateFromErrorKind(kind, address) ==
    [address |-> IF kind = "wrong_network" THEN address ELSE None, status |-> kind]

StateFromError(kind, address) ==
    IF kind = "wrong_network" THEN [address |-> address, status |-> "wrong_network"]
    ELSE [address |-> None, status |-> IF kind = "rejected" THEN "disconnected" ELSE "error"]

\* Faulty variant: the change of account is not noticed.
AppliedToWhoeverComes(snapshot) ==
    IF snapshot.address = None THEN Disconnected
    ELSE IF snapshot.network # "testnet" THEN StateFromError("wrong_network", snapshot.address)
    ELSE [address |-> snapshot.address, status |-> "connected"]

\* What a snapshot without an error leads to.
Applied(snapshot) ==
    CASE snapshot.address = None -> Disconnected
      [] snapshot.address # None /\ wallet.address \notin {None, snapshot.address} -> Disconnected
      [] OTHER -> IF snapshot.network # "testnet" THEN StateFromError("wrong_network", snapshot.address)
                  ELSE [address |-> snapshot.address, status |-> "connected"]

ApplySnapshot(snapshot) == Commit(Applied(snapshot))

CanTransact == wallet.status = "connected" /\ wallet.address # None

(***************************************************************************)
(* connect(): load the kit, ask for the address, assert the network, read  *)
(* it once more, apply.  The button is there only without an address, and  *)
(* is disabled while connecting.                                           *)
(***************************************************************************)
Attempting(c, next) == connects' = [connects EXCEPT ![c] = next]

Connect(c) ==
    /\ wallet.address = None /\ wallet.status # "connecting"
    /\ connects[c] = NoAttempt
    /\ Commit([address |-> None, status |-> "connecting"])
    /\ Attempting(c, [stage |-> "load", address |-> None])
    /\ UNCHANGED <<transport, ext, changes, kit, refresh, leaving, news, requests>>

\* loadKit keeps the promise of the first attempt, a rejected one too.
LoadKit(c) ==
    /\ connects[c].stage = "load" /\ kit.runtime # "failed"
    /\ kit' = [kit EXCEPT !.runtime = "ready"]
    /\ Attempting(c, [stage |-> "prompt", address |-> None])
    /\ UNCHANGED <<transport, ext, changes, wallet, refresh, leaving, watch, news, requests>>

LoadKitFails(c) ==
    /\ connects[c].stage = "load" /\ kit.runtime # "ready"
    /\ kit' = [kit EXCEPT !.runtime = "failed"]
    /\ Attempting(c, NoAttempt)
    /\ Commit(StateFromError("unknown", None))
    /\ UNCHANGED <<transport, ext, changes, refresh, leaving, news, requests>>

\* The extension is missing, does not get ready, or the user refuses.
ConnectRefused(c) ==
    /\ connects[c].stage \in {"prompt", "assert", "network"}
    /\ \E kind \in {"no_wallet", "rejected", "unknown"} : Commit(StateFromError(kind, None))
    /\ Attempting(c, NoAttempt)
    /\ UNCHANGED <<transport, ext, changes, kit, refresh, leaving, news, requests>>

\* The kit remembers the address; WalletConnect has no network to ask for.
AddressGiven(c) ==
    /\ connects[c].stage = "prompt" /\ ext.address # None
    /\ kit' = [kit EXCEPT !.address = ext.address]
    /\ IF transport = "walletconnect"
       THEN /\ ApplySnapshot([address |-> ext.address, network |-> "testnet"])
            /\ Attempting(c, NoAttempt)
       ELSE /\ Attempting(c, [stage |-> "assert", address |-> ext.address])
            /\ UNCHANGED <<wallet, watch>>
    /\ UNCHANGED <<transport, ext, changes, refresh, leaving, news, requests>>

\* assertTestnet; the provider then shows the address the kit has by now.
NetworkAsserted(c) ==
    /\ connects[c].stage = "assert"
    /\ IF ext.network # "testnet"
       THEN /\ Commit(StateFromError("wrong_network", kit.address))
            /\ Attempting(c, NoAttempt)
       ELSE /\ Attempting(c, [connects[c] EXCEPT !.stage = "network"])
            /\ UNCHANGED <<wallet, watch>>
    /\ UNCHANGED <<transport, ext, changes, kit, refresh, leaving, news, requests>>

NetworkRead(c) ==
    /\ connects[c].stage = "network"
    /\ ApplySnapshot([address |-> connects[c].address, network |-> ext.network])
    /\ Attempting(c, NoAttempt)
    /\ UNCHANGED <<transport, ext, changes, kit, refresh, leaving, news, requests>>

(***************************************************************************)
(* disconnect() and refresh().  Refreshing asks the kit, which answers     *)
(* from memory, and the extension, which takes its time.                   *)
(***************************************************************************)
Disconnect ==
    /\ wallet.address # None /\ ~leaving
    /\ leaving' = TRUE
    /\ UNCHANGED <<transport, ext, changes, kit, wallet, connects, refresh, watch, news, requests>>

\* The finally block commits, also when the kit has failed.
DisconnectEnds ==
    /\ leaving
    /\ leaving' = FALSE
    /\ kit' \in {kit, [kit EXCEPT !.address = None]}
    /\ Commit(Disconnected)
    /\ UNCHANGED <<transport, ext, changes, connects, refresh, news, requests>>

\* On focus, or on "Check again" of the network guard.
Refresh ==
    /\ refresh = None /\ wallet.status \notin {"disconnected", "connecting"}
    /\ kit.runtime = "ready"
    /\ refresh' = [address |-> kit.address, network |-> None]
    /\ UNCHANGED <<transport, ext, changes, kit, wallet, connects, leaving, watch, news, requests>>

RefreshReadsNetwork ==
    /\ refresh # None /\ refresh.network = None
    /\ refresh' = [refresh EXCEPT !.network =
                      IF transport = "walletconnect" THEN "testnet" ELSE ext.network]
    /\ UNCHANGED <<transport, ext, changes, kit, wallet, connects, leaving, watch, news, requests>>

RefreshEnds ==
    /\ refresh # None /\ refresh.network # None
    /\ refresh' = None
    /\ ApplySnapshot(refresh)
    /\ UNCHANGED <<transport, ext, changes, kit, connects, leaving, news, requests>>

RefreshFails ==
    /\ refresh # None /\ refresh.network = None /\ transport = "freighter"
    /\ refresh' = None
    /\ Commit(StateFromError("unknown", None))
    /\ UNCHANGED <<transport, ext, changes, kit, connects, leaving, news, requests>>

(***************************************************************************)
(* The watcher.  It reports what differs from what it saw last, first of   *)
(* all what it sees first.  External: a watcher that was stopped while it  *)
(* asked the extension still delivers that answer.                         *)
(***************************************************************************)
WatcherInstalled ==
    /\ watch.stage = "installing"
    /\ watch' = [watch EXCEPT !.stage = "on"]
    /\ UNCHANGED <<transport, ext, changes, kit, wallet, connects, refresh, leaving, news, requests>>

WatcherFails ==
    /\ watch.stage = "installing" /\ transport = "freighter"
    /\ Commit(StateFromError("unknown", None))
    /\ UNCHANGED <<transport, ext, changes, kit, connects, refresh, leaving, news, requests>>

\* Faulty variant: only a change of account is reported.
WatcherReadsAccount ==
    /\ watch.stage = "on" /\ transport = "freighter" /\ news = None
    /\ watch.seen # None => ext.address # watch.seen.address
    /\ watch' = [watch EXCEPT !.seen = ext]
    /\ news' = ext
    /\ UNCHANGED <<transport, ext, changes, kit, wallet, connects, refresh, leaving, requests>>

WatcherReads ==
    /\ watch.stage = "on" /\ transport = "freighter" /\ news = None /\ ext # watch.seen
    /\ watch' = [watch EXCEPT !.seen = ext]
    /\ news' = ext
    /\ UNCHANGED <<transport, ext, changes, kit, wallet, connects, refresh, leaving, requests>>

\* With an answer, or with an error that the extension reports.
WatcherDelivers ==
    /\ news # None
    /\ news' = None
    /\ \/ ApplySnapshot(news)
       \/ \E kind \in {"no_wallet", "unknown"} :
             Commit(IF kind = "no_wallet" THEN Disconnected ELSE StateFromError(kind, None))
    /\ UNCHANGED <<transport, ext, changes, kit, connects, refresh, leaving, requests>>

(***************************************************************************)
(* signTransaction(): the account asked is the one the caller names or the *)
(* one shown at the time of the call; the network is asserted; the         *)
(* extension may sign with the account selected in it, and says so.        *)
(***************************************************************************)
Requesting(q, asked) == requests' = [requests EXCEPT ![q] = asked]

\* The anchor's sign-in names the account it works for, which may have been
\* shown some awaits ago; a page that has built a transaction names nobody, and
\* if nothing is shown by now the account is the kit's.
SignCalled(q) ==
    /\ requests[q] = None /\ kit.runtime = "ready"
    /\ \E named \in Address :
          Requesting(q, CASE named # None -> named
                          [] named = None /\ wallet.address # None -> wallet.address
                          [] OTHER -> kit.address)
    /\ UNCHANGED <<transport, ext, changes, kit, wallet, connects, refresh, leaving, watch, news>>

\* Before it asks the user, the adapter asserts the network.
SignBlocked(q) ==
    /\ requests[q] # None /\ transport = "freighter" /\ ext.network # "testnet"
    /\ Requesting(q, None)
    /\ Commit(StateFromError("wrong_network", wallet.address))
    /\ UNCHANGED <<transport, ext, changes, kit, connects, refresh, leaving, news>>

\* Signed by the account asked, or failed.
SignEnds(q) ==
    /\ requests[q] # None
    /\ Requesting(q, None)
    /\ UNCHANGED <<transport, ext, changes, kit, wallet, connects, refresh, leaving, watch, news>>

\* Signed by another account, as the extension says: the session is reset.
SignedByAnother(q) ==
    /\ requests[q] # None /\ transport = "freighter" /\ ext.address \notin {None, requests[q]}
    /\ Requesting(q, None)
    /\ Commit(StateFromError("account_changed", wallet.address))
    /\ UNCHANGED <<transport, ext, changes, kit, connects, refresh, leaving, news>>

\* The user selects another account or network, or locks the extension.
ExtensionChanges ==
    /\ changes < MaxChanges
    /\ changes' = changes + 1
    /\ ext' \in Snapshot \ {ext}
    /\ UNCHANGED <<transport, kit, wallet, connects, refresh, leaving, watch, news, requests>>

ConnectStep(c) == LoadKit(c) \/ LoadKitFails(c) \/ ConnectRefused(c) \/ AddressGiven(c)
                  \/ NetworkAsserted(c) \/ NetworkRead(c)
RefreshStep == RefreshReadsNetwork \/ RefreshEnds \/ RefreshFails
WatchStep == WatcherInstalled \/ WatcherFails \/ WatcherReads \/ WatcherDelivers
SignStep(q) == SignBlocked(q) \/ SignEnds(q) \/ SignedByAnother(q)

WalletNext ==
    \/ RefreshStep \/ WatchStep \/ Disconnect \/ DisconnectEnds \/ Refresh \/ ExtensionChanges
    \/ \E c \in Attempt : Connect(c) \/ ConnectStep(c)
    \/ \E q \in Caller : SignCalled(q) \/ SignStep(q)

\* The extension answers the watcher.  Nothing is assumed of the user.
WalletFairness == WF_walletVars(WatchStep)
=============================================================================
