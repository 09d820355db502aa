# ShowUp: models and proofs

ShowUp takes a refundable bond from everybody who reserves a seat at an event. A
Soroban contract keeps the bonds; a web application without a server of its own
calls the contract, signs with the participant's wallet and can buy the bond's
asset from an anchor. This directory holds the TLA+ modules that model the
program, the configurations TLC checks, and theorems proved with TLAPS.

## 1. The system

| Component | State it keeps | Operations | Interacts through |
|---|---|---|---|
| **Bond contract** `contracts/showup-bond/src` | `Config`, `EventCount`, `Event(id)`, `Reservation(id, participant)` | `create_event`, `reserve`, `cancel_reservation`, `check_in`, `cancel_event`, `claim_cancelled_event_refund`, `settle_no_show` | token transfers, ledger time, signatures |
| **Settlement token** (external, a Stellar Asset Contract) | balances, trustlines | `transfer`, `changeTrust` | called by the contract; used by its owners directly |
| **Storage rent** `storage.rs` | time to live of each entry | bumps on write | an archived entry must be restored before it can be used |
| **Contract gateway** `apps/web/lib/contract`, `lib/stellar` | none between calls | simulate, sign, send, confirm; reads by simulation | RPC, wallet |
| **Event log reader** `lib/contract/event-log.ts` | none | paged `getEvents`, reservation list | RPC retention window |
| **Anchor deposit** `components/wallet/anchor-deposit.tsx`, `lib/anchor` | state machine, abort controllers, session record | price, open, poll, resume, claim, reset | anchor, wallet, `sessionStorage`, page lifetime |
| **Anchor sign-in** `lib/anchor/sep10.ts`, `token-store.ts` | token per account | `authenticate`, `withFreshToken` | anchor, wallet |
| **Wallet provider** `lib/wallet/provider.tsx` | address, network, status | connect, refresh, watch, sign, disconnect | wallet extension |
| **QR pass and scanner** `lib/qr`, `organizer/events/[id]/scan` | camera generation, candidate | start, stop, inspect, confirm | camera, contract gateway |
| **Pages and data loading** `app/`, `lib/hooks/use-async-data.ts` | loaded data, transaction state | load, reload, submit | gateway, wallet provider |
| **Eligibility, amounts, schedules** `lib/domain` | none (pure) | predicates, conversions | used by every page |
| **Deployment script** `scripts/deploy-testnet.sh` | the records in the repository, the generated client | deploy, verify, generate, record | Stellar CLI, the files it edits |

What is hard, component by component, is listed at its line in `PROJECT.json`
under `hazards`. In short:

* **Contract.** Boundary seconds of four deadlines; a seat counter stored beside
  the reservations it counts; one pooled balance behind every bond; payouts to
  accounts that can stop accepting the asset; permissionless settlement racing
  `cancel_event`; fixed-width arithmetic. Correct means: a bond leaves custody
  once, whole, to the accounts fixed when the event was created, and it can always
  leave.
* **Web application.** Everything runs between awaits: answers that come after a
  reset, a change of account or a newer request; a transaction that lands after
  the page gave up on it; a reload in the middle of a deposit; a history that is
  forgotten while it is read. Correct means: what is shown and what is submitted
  belong to the same account, pass and deposit, an open deposit is not forgotten,
  and what a page offers is what the contract would take.
* **Deployment.** Several records are edited one after the other and any step may
  fail. Correct means: a run that ends well leaves them naming one contract, the
  one it deployed.

## 2. The modules

| Module | What it is |
|---|---|
| `Token` | the asset: balances, trustlines, transfers that fail, use around the contract |
| `Bond` | the contract, one action per entry point, over `Token` and a clock |
| `Escrow` | abstract specification: deposits that leave the vault once and whole |
| `BondProperties` | the properties of `Bond` and the mapping onto `Escrow` |
| `MCBond` | model values, policies and symmetry for TLC |
| `BondProofs` | type correctness |
| `BondSafetyProofs` | the inductive invariant, the safety and the action properties |
| `BondRefinementProofs` | `Bond` implements `Escrow`; solvency; payouts that are never blocked or raced |
| `AnchorMachine` | the reducer of the anchor deposit, one operator per action type |
| `AnchorDeposit` | the component around it: flows, polls, session record, the anchor's deposits |
| `AnchorProperties`, `MCAnchor` | its properties; model values for TLC |
| `AnchorProofs` | the inductive invariant of the deposit and what follows from it |
| `Quote` | the amount in the form, the price, the firm quote and its expiry, the price asked anew |
| `Accounts`, `Nothing` | the accounts of the browser modules; the value `None` |
| `Wallet`, `WalletProperties` | the wallet provider over its adapter, the kit and the extension; its properties |
| `SignIn` | signing in at the anchor: discovery, challenge, token cache, the one repetition |
| `Camera` | the hook that owns the camera of the check-in page |
| `ScanPage`, `MCScan` | the check-in page over `Camera`, with its properties; model values |
| `ScanProofs` | type correctness, control of the camera, what a step of the page may not do |
| `MCBrowser` | `Wallet`, `SignIn` and `ScanPage` in one run, each explored by itself |
| `BrowserProofs` | type correctness of these three, what a refusal needs, that sessions stay an account's |
| `Eligibility` | what the pages predict of the contract: the predicates of `lib/domain` |
| `Pages`, `PagesProperties` | a page over `Bond`: loads, offers, confirmations, the write pipeline; its properties |
| `EventLog` | the contract's events, the provider's window, the organizer's list read back from them |
| `Form` | the event form with its schedules and its arguments for `create_event` |
| `Deploy` | the deployment script and the records it edits |
| `WalletPage` | the wallet page: an account read in two requests, the reserve, the button that opens a trustline |
| `PagesProofs` | a page against the contract; the organizer's list; the form agrees with `create_event`, the wallet page with the network; rates and their expiry |
| `DeployProofs` | the records agree when a deployment ends well |
| `MCPages` | `Pages`, `EventLog`, `Form`, `Deploy`, `Quote` and `WalletPage` in one run, each explored by itself |
| `Listing` | time to live of the contract's entries, and the lists of events and reservations read of them |

### Bond and Token

State maps one to one: `events[id]`, `reservations[id][p]` and `eventCount` are the
storage entries, `None` is a key with no entry, `now` is `env.ledger().timestamp()`.
A Soroban invocation is atomic: an `Err`, a missing signature, a panic or a failing
transfer undoes everything it wrote. So an action's guard is the conjunction of all
checks on the way to `Ok`, those inside the token transfer included, and its
effects are all writes together. `require_auth` is `Authorized(a)`: only the
accounts in `Signers` ever sign, so the model distinguishes what needs a signature
from what anybody may submit (`ClaimCancelledEventRefund`, `SettleNoShow`).
The guard of each entry point is an operator (`ReservationAllowed` to
`SettlementAllowed`), which its action begins with; properties about which calls are
possible together are stated with them.
`title` and `venue` are reduced to whether they fit (`text_fits`).

`Token` is external. It keeps what decides whether a payout succeeds: a classic
account receives only with a trustline, may drop it at balance zero, the contract
needs none; a zero transfer needs the trustline too. `TokenStep` lets owners move
the asset between invocations, also into the contract.

`i128` is represented by the one place where its width can matter, the product in
`settle_no_show` (`SplitFits`, bound `MaxI128`); `checked_add` of seats and event
ids is bounded by `capacity` and `MaxEvents`, and `organizer_bps + community_bps`
cannot exceed 10 000 without being rejected.

### AnchorMachine and AnchorDeposit

`AnchorMachine` is `depositReducer`: an action that does not fit the state leaves it
alone. `AnchorDeposit` is the React component and everything it leaves behind.

* **Tasks.** A function of the component suspended at an `await` is a task, and
  every step runs from one `await` to the next, which is what JavaScript makes
  atomic. A task is named by its `AbortController`; `page.flow` and `page.polling`
  are the two refs that hold one. The smallest free name is taken, so a finished
  controller's name can be reused while a ref still holds it: aborting it must not
  matter, and the code's identity tests are modelled as written.
* **Component lifetime.** `live` says that the component which started a task is
  still mounted. Setting the state of an unmounted component does nothing, so the
  tasks that remain after unmounting are those that can still change storage or the
  network: a poll or a trustline started outside the component's refs, a claim that
  is being submitted, a deposit request on its way.
* **Rendering.** `page.mounted` is FALSE while the wallet page shows its skeleton.
  Reloading the balances, as `onSettled` does, is therefore the component's
  unmounting followed by `Mount` of a new one.
* **Storage and anchor.** `saved` is the one record in `sessionStorage`, shared by
  all accounts of the tab. `deposits` is the anchor's view, written by
  `AnchorOpens`, `AnchorProgress` and, for the claimable balance, `ClaimLands`. The
  simulated transfer is booked by a step of the anchor, `TransferAnswered` is only its
  answer: it may come late, or be lost (`FlowFails`) after the transfer was booked.
* **The trustline's button.** What keeps it from running twice is state of its own, lost
  whenever it leaves the screen. So `EnableUsdc` asks for no other task to be absent.
* **Reports.** What a poll is told is a `Report`: the code of SEP-6, whether the
  treasury is low and whether the anchor has paid into a claimable balance. The
  reducer and the polling loop ask it different questions (`StateForReport`,
  `TerminalReport`). `ShouldPoll` is the helper of that name. `Waiting` is it without
  `DEPOSIT_STARTED`, in which the flow that opens the deposit still runs: the reducer
  takes a report in the waiting states and in `CLAIM_REQUIRED`. `Reports` names the seven that this anchor gives. A code that ends
  polling, given together with a low treasury, would stop the poll in a state that
  waits; this anchor reports a low treasury only while it is processing.
* **Left out.** The discovered configuration, the text of errors and the links. The
  rates are in `Quote`; here they decide only whether a button with a price is there
  (`priced`).

### Quote

`Quote` is the same component seen from its amounts. Flows run one at a time, which is
what `FlowsExclusive` says of `AnchorDeposit`, so there is one `errand` or none, and the
reducer is the one of `AnchorMachine`. `rates` is the part of the reducer's context
that `AnchorDeposit` leaves out. React runs the effects of a click or an answer before
anything else can happen, so `Effects` is part of each step that changes the rates: the
timer of the quote's expiry, and the price that is asked for anew once the quote is
known to have lapsed. The clock counts ticks, of which a second has several, because
the code rounds it down to compare it with `expires_at` and waits 25 ms more to be past
the boundary. A timer may fire `Early` ticks before its time, as browsers do;
`Early <= Margin` is assumed. The clock is taken to be monotone: a device whose clock is
set back makes the check, which is made once, find a quote alive for good.

### WalletPage

`held` and `base` are the account and the base reserve on the network, which change at
any time. The page reads the account and then the ledger (`ReadAccount`, `ReadLedger`),
so it may show one of each that never were true together. `Insufficient` is the
browser's arithmetic on what was read, `OpensTrustline` the network's on what is.
A transaction of a button that was replaced by a reload is still on its way
(`forgotten`).

### Camera and ScanPage

`Camera` is `useScanner`. The code compares the generation a reader was started in
with `generationRef` and does nothing else with it; `current` is the start that owns
the generation, or `None` once `stop`, a found code or an unmounting took the next.
A reader keeps decoding frames before `start` has received its controls, which is
the state `"on"`.

`ScanPage` adds the page: `reads` are the inspections in flight, `job` the check-in
in flight (`txBusyRef`), `candidate` the guest whose pass was read and the
reservation shown. A code found by the camera is inspected in the same callback, so
`ScanPass` is one action. The contract is the status of each guest's reservation;
`Elsewhere` is every other page that changes it. `Bond` holds the details; here a
reservation is absent, locked or ended. An inspection reads at some ledger between its
request and its answer, so its answer is any status that the reservation has had
(`SoFar`).

The page shows the video, the look-up field, the candidate and all buttons only to the
event's verifier (`Authorized`); `WalletChanges` is the wallet that is disconnected or
changed, and connected again. The hook does not ask: `useScanner` stays mounted, its
camera on, with neither picture nor Stop button on the screen, until the page is left or
the wallet comes back. So `StartCamera`, `StopCamera`, `LookUp` and `Confirm` need
`Authorized`, and the steps of the hook, of the inspections and of a check-in do not.
`CameraUnderControl`, `CodesOnlyFromCamera` and `CameraReleased` are about the hook: what
it holds, and what its stop, its next start and its end release. They do not say that
the user sees a camera that is on, which is false of a page that hides it. Whether a
video that has left the page still finds a code is up to the browser; the model lets it.

`CanConfirm` leaves out what it cannot see: that check-in was open and the guest could be
paid when they were read, and that the wallet is on the right network. Each may hold or
not in any state, and a button that may be pressed need not be: what is left is every
behaviour of the code seen through these variables.

### Wallet and SignIn

`Wallet` is the provider: `wallet` is the committed state (`stateRef`), and an
operation that is suspended at an await is a record of what it has read so far:
`connects[c]` walks from loading the kit to the second reading of the network,
`refresh` holds the address until the network is read, `watch` is the watcher of
the current effect, which `Commit` stops and installs again whenever the effect's
dependencies change, and `news` is an answer that a watcher is about to deliver,
perhaps after it was stopped. `ext` is the extension and `kit` the kit's memory of
an address in `localStorage`. A WalletConnect
session has no network to ask for and is not watched (`transport`).

`SignIn` is `withFreshToken` with everything under it. A call is one record with
the stage it is suspended in; `reading` says that the headers of an answer have
arrived, after which neither the timeout nor an abort reaches the request. The
checks of `validateChallenge` are one check, passed or not. Names of tokens that
nobody holds are used again.

### Pages, Eligibility

`Pages` composes `Bond`, the predicates of `Eligibility` and one page: the event
page, a participant's reservation page or the organizer's page. `data` and `load` are
`useAsyncData`: a load is for the account that was connected when its effect ran,
its answer is what the contract said at one ledger in between, and a load that is
superseded is thrown away (`stale` keeps it only so that a fault can take it).
`confirming`, `job` and `tx` are the page's own: the action that is asked for, the
write in flight with its phase, and the line about it. `executeVoidWrite` is
`Submit`, `Simulated`, `Signed`, `Sent`, `Confirmed` and, from anywhere,
`WriteFails`; `GivesUp` is polling that ends while the transaction can still be
applied (`adrift`). `Elsewhere` is everything else anybody does to the contract.

Simplified: a load reads at one ledger, although its requests are separate; without
a connected account, when pages offer nothing, loads are left out; a call names the
account for which it is made, and an answer of the simulation is whether the
contract would take the call (`Accepted`).

### EventLog, Form, Listing, Deploy

* `EventLog`: `log` is what the contract has published about one event, `oldest`
  the first entry the provider still has, `reader` the walk of the cursor, `list`
  what the organizer gets. A page that is not full is the last one, as the code
  takes it, and a cursor that the window has passed is an error.
* `Form`: times are steps of ten minutes. The fields hold local times, on a night
  on which an hour of them comes twice (`FallBack`); the contract's checks are those
  of `Bond`. Texts are empty, short, or short in characters and too long in bytes.
  `Arguments` are still numbers of JavaScript. `Encodable` says which of them are
  arguments of `create_event`: a capacity is a `u32` (`MaxU32`), a bond an `i128`
  (`MaxI128`), a time a `u64`, so not before 1970. Neither the form nor
  `createEventInputSchema` bounds capacity or bond from above, and of the two only the
  schema asks for times that are not negative. The schema, which the form does not use,
  is compared as well.
* `Listing`: months of 30 days, which is the threshold under which an entry's life
  is extended. `Live` and `Read` are the network's: an entry past its life must be
  restored before it is read. A module of its own, since lives of entries and the
  rules of `Bond` have no state in common but whether an entry exists.
* `Deploy`: one action per stage of the script, one per edit of a file where the
  order matters. `Matched` says which of the files `.env.example` and `README.md`
  have the lines that the script's patterns ask for; an edit without a line does
  nothing. The log of the deployment is read when it is complete.

## 3. The runs

| Run | Question | Bounds | Distinct states |
|---|---|---|---|
| `bond_life` | do seats and outcomes stay consistent, is a bond's destination ever a race, and does every bond leave custody without further signatures? | 1 event, 2 guests, every combination of four times, valid and invalid splits, scarce seats; clock 0..3 | 68 576 |
| `bond_custody` | does custody cover every bond, can each be paid, do two events interfere, and does the contract implement the escrow? | 2 events, transfers around the contract, `MaxI128` small enough to overflow | 1 219 078 |
| `bond_organizer` | does settlement depend on the organizer, contrary to SYSTEM.md? | 1 event; **violation expected** | |
| `anchor_deposit` | do the refs, the flag and the record agree with what is in flight, whatever is aborted, unmounted or reloaded, and is a deposit watched until watching ends? | 2 accounts, 2 deposits, 2 tasks, 2 polls each | 1 474 187 |
| `anchor_orphan` | is the record of an open deposit ever dropped, contrary to `session.ts`? | as `anchor_deposit`; **violation expected** | |
| `anchor_claim` | does a successful claim reach its terminal state on the screen? | as `anchor_deposit`; **violation expected** | |
| `browser` | can overlapping awaits give one wallet session's state to another, leave a sign-in open, or let an old camera reader or an inspection disturb the check-in page? | 2 accounts, 1 change in the extension; 2 calls, 3 tokens; 2 guests, 2 inspections, 2 starts, the verifier's wallet or another | 342 238 |
| `scan_confirm` | is the guest who is checked in the guest on the screen? | as in `browser`; **violation expected** | |
| `pages` | is what a page shows fresh, what it offers taken; is a list complete or said not to be; what of that which the form lets through does the contract take; do the deployment's records agree; is a deposit quoted, opened and paid for one amount, and a quote's lapse noticed; does the wallet page answer for the network? | one event with one seat, 2 signers, 2 ticks; pages of 2 entries; 3 typed times, one before 1970 and two around the change of clocks, a capacity and a bond beyond their types; 2 builds, 3 more transactions; 2 amounts, quotes of 0 to 2 seconds, 7 ticks; small accounts, 2 base reserves | 2 241 964 |
| `write_hash` | does every terminal state of a write carry the hash? | as `pages`; **violation expected** | |
| `archived_event` | are archived events skipped by the list of events? | 2 events, 6 months; **violation expected** | |
| `deploy_records` | does a deployment that meets no failure record itself? | the records as they are in the repository; **violation expected** | |

`browser` and `pages` hold components that share no state. Each is explored while
the others rest, so their state spaces are added and not multiplied, and a property
of one says nothing by the way the others behave.

The bounds of the contract suffice because reservations interact only through the
seat count, the pooled balance and the event's status: two guests make a race for one
seat, the release of a seat and its capture by the other, and the clock passes every
boundary second (before, at and after each deadline). Those of the browser suffice
because tasks meet in one ref, one record or one candidate: two of each kind are the
earlier and the later one. Two accounts and two deposits tell the record's deposit,
the screen's and a task's apart; a component allows one flow, so two tasks are a flow
beside a poll or a task left behind by an earlier component. Two polls are the first
and the last attempt. Three tokens are those of two calls and the one that is
refused. In `pages` one seat is enough for the race that staleness is about (somebody
else was faster), two signers are the account that acts and the one that is connected
after it, one of them the organizer; on the event page only Alice connects (`Connecting`
in `MCPages`) and the organizer is her rival for the seat; the events of one seat fill more than one page
of two entries; and three more transactions are an upload, a deployment whose run
dies, and one that uploads nothing. A second of two ticks, a margin of one and a timer
that may be one early put the check on each side of the boundary that the rounding
moves; the accounts of `SmallAccounts` have balances around the reserve, the fee and
the next entry.

**Fairness.** In `bond_life` and `bond_organizer`, `Fairness` is weak fairness of
`Tick` (ledgers keep closing) and of the two permissionless calls: anybody may submit
them, the web application offers them, and nobody needs to sign for them. Nothing that
requires a signature is fair. `BondReleased` and `RefundReleased` are conditional on
the paid accounts eventually keeping a trustline, which the token makes a real
condition; `RefundReleased` asks it of the participant alone.

In the browser, promises settle. In `anchor_deposit` each poll is fair: a request is
answered or fails, a signature that its sign-in asks for is given or refused; nothing
is assumed of the anchor, and a deposit that stays where it is ends with the last
attempt. In `browser` the extension answers its watcher, a request of a sign-in ends
and its prompt is answered, a camera reader is loaded or not and granted or not. The
body of an anchor's answer is assumed to end, which the code does not see to
(`http.ts:158`). The user, the flows and what happens on the network are never fair.

**Findings.**

* `SettlementIndependentOfOrganizer` states SYSTEM.md:599-600 and TLC refutes it:
  the organizer's leg of the split fails without a trustline, the invocation
  reverts, and the community's share stays with it.
* `NeverOrphaned` states session.ts:4-6. The record goes whenever the user presses
  "Start a new deposit" in the error state, and that state is also reached by a
  rate check that fails, while the record of an open deposit, even another
  wallet's, is in storage.
* `ClaimShown` states SYSTEM.md:1390. `onSettled` reloads the page's data in the
  same batch of updates as the success, and the component that would show it is
  gone before it renders.
* `ChecksInWhoIsShown` states SYSTEM.md:1237-1239. A check-in that ends writes its
  own guest's reservation into the candidate that is current then, and after a
  failure the button is there for that mixed candidate.
* `TerminalStatesCarryHash` states SYSTEM.md:1390 too. A write that fails after it
  was sent, or times out, is thrown without the hash, and the message then asks the
  user to check a transaction link that is not there.
* `ArchivedEventsSkipped` states the comment of `listEvents`. An event that must be
  restored is not skipped but fails the list, and the reservations page with it.
* `EditsRecord` states the script's own assertions. `.env.example` and the table in
  `README.md` have been rewritten since, the patterns find no line, and every run
  that deploys ends in `die` after the network, the client and
  `docs/deployments/testnet.md` have moved on.

Three properties name what the code excepts. `WatchedStaysWatched` excludes a
trustline that was requested for an earlier deposit: its callback takes over the
poll, and the deposit on the screen is then not polled, without a warning. In
`RecordKeptWhileWatched`, tasks left over from another deposit may clear the record
(`Stray`), and one of them may write its claimable balance into it.
`FormAndContractAgree` says which drafts that the form lets through `create_event` does
not take: those with texts whose characters take several bytes, which the form counts as
characters and the contract as bytes, and those with a number that its type does not
hold, a capacity of 2^32 or a bond of 2^127 stroops or a time before 1970.

What the code does, and no property excludes: an inspection of an earlier pass that
answers last is the candidate on the screen; a refresh of the wallet that was asked
before a disconnect connects again; a new deposit replaces another account's record;
the attendance of somebody who has closed the trustline is not recorded; a camera stays
on behind a page that has hidden it. The models have these steps, the documents promise
nothing of them, and `hazards` in `PROJECT.json` lists them without a property. In the
same way `ListCompleteOrSaid` takes from the code that a page that is not full is the
last: a provider that answers with short pages is not in the model.

Not a finding, but worth knowing: after a `connect` that failed, the status is
`error`, and the next focus of the window connects the address the kit remembers from
an earlier visit (`provider.tsx:162`), which the model allows.

Each property has a mutant in `PROJECT.json`: a slip in the code (a dropped
check, an off-by-one, a forgotten write) that violates it. The mutated definitions
stand before what they replace, marked as faulty, and are used by no specification.

Every set `Terms` given to a run has at least two elements: TLC normalises a
shared record lazily, and with several workers a singleton can be read while it is
normalised.

## 4. The proofs

Assumptions: `TokenAssumption` and `BondAssumption`, which say what the constants
are (finite set of accounts, terms of the right types, nonnegative balances, a
`None` outside the data). No bound on the number of accounts, events, terms or on
the clock is used.

* `TypeCorrect`: `Spec => []TypeOK`. `TypeOK` says that balances are natural
  numbers. It is not inductive: the community's share of the split is only known to
  be nonnegative because the published split adds to 10 000, so the invariant is
  `TypeInv`, which adds that the terms of stored events passed `create_event`.
* `SeatsCorrect`, `OutcomesCorrect`: `BondInv` joins `TypeInv`, the numbering of
  events (`events[e] # None <=> e <= eventCount`), `OutcomeJustified` and
  `SeatsMatchReservations`. The numbering is what makes a new event's slot empty,
  hence its seats zero; the published schedule and the growth of the clock carry
  `OutcomeJustified`. The seat count needs that a step changes the reservation of one
  participant of one event, and that adding or removing one element changes a
  cardinality by one.
* `ReservationsStayFinal`, `CancelledEventsOnlyRefund`: action properties, from the
  same invariant, one step per action.
* `SilentAccountsSafe`: who does not sign is not debited, by an inductive invariant
  over the token and the reservations.
* `BondImplementsEscrow`: initial states map to initial states and each step maps
  to a step of `Escrow` or leaves its variables alone; `Reserve` maps to `Deposit`,
  the three full payouts to `GiveBack`, `SettleNoShow` to `Forfeit`, use of the
  token to `Spend`.
* `BondSolvent`: `Spec => []Solvent`. A sum over slots is an induction that the provers
  cannot do, so what is owed is a set of units, a bond of `n` being `n` of them
  (`OwedOf`), and the escrow's solvency is a statement about its cardinality.
  `OwedGrows` says by how much it changes when one slot does, `SolventStep` that each
  step of the escrow keeps it covered; that `Bond` implements the escrow carries it
  over.
* `RefundsNeverBlocked`, `SettlementsNeverBlocked`: one bond is at most what is owed
  (`BondCovered`), so the transfers in the guards go through; for a settlement, after
  the organizer's share has been paid the community's is still there.
* `SupplyConserved`: `Spec => [](Supply(balance) = Supply(AtDeployment))`. The supply is a
  set of units, as `OwedOf` is, and its cardinality what all accounts hold together.
  `TransferConserves` is the fact about one transfer, with `from = to` too (an organizer
  may be the pool's account); a settlement makes two, the second from what the first left.
* `SplitNeverOverflows`: `settle_no_show` multiplies the bond by the organizer's share
  before it divides, and a bond for which the product does not fit would stay in custody
  for good. A bond in custody is covered by the contract's balance (`BondCovered`), which
  is at most the supply: if the supply times 10 000 fits an `i128`, every product does.
  The hypothesis is about the asset, not about the contract, and far from what any asset
  is issued in: it allows a supply of more than 10^34 units. With it, the condition `Splittable` of
  `SettlementsNeverBlocked` is always met for a locked bond of an active event.
* `DestinationsNotRaced`: from the published schedule of stored events alone: the
  cancellation deadline is not after the check-in's.

For the anchor deposit, under `AnchorAssumption` and `NoneAssumption` (`None` is none of
the records that it stands beside), for any number of deposits, controllers, polls and
accounts:

* `AnchorInvariant`: `Spec => []AnchorInv`. The properties relate tasks to the
  component's refs, to the state on the screen and to the saved record, and no two of
  these are written together. `FlowRef` and `PollRef` say what a ref that is not null
  holds, since names of controllers are used again; `StateFits` which await a running
  flow is suspended in, state by state, without which a dispatch that fits no state
  would leave `flowBusy` behind; `ScreenFits` and `ClaimFits` that tasks, screen and
  record are about one deposit; `DepositsKnown` that what is remembered of a deposit is
  true of it, which a claim relies on; `TasksFit` which tasks outlive their component.
  One lemma for each way in which tasks and refs change (a component goes, a flow or a
  poll begins, a task moves on or ends) serves the thirty actions.
* `AnchorTypeOK`, `FlowsAreExclusive`, `RecordsOfTheScreen` follow from it.
* `RecordIsKept`, `WatchedIsKept`: the action properties. A record goes in few ways
  (`RecordDropped`), and the invariant tells what each knows of the deposit; a watched
  deposit loses its poll only by a step that leaves the waiting state, raises the warning
  or starts the next one (`PollsGoOn`).
* `AttemptsAreCounted`: an answer ends a poll or is one attempt more, still below the
  maximum, and no other step changes its count or its place in the code: a new task only
  takes a free controller, and an abort or an unmount leaves the count alone. This is the
  half of `WatchingEnds` that needs no fairness: what remains is that answers come.
* `PollingStopsWithTheState`: the loop and the reducer agree on every report without a
  low treasury, those that this anchor never gives included.

For the quote, under `QuoteAssumption` and `QuoteNoneAssumption`, for all amounts,
lifetimes, margins and lengths of a second:

* `RatesAlwaysAgree`, `LapseIsNoticed`, from `QuoteInv`: `ErrandFits` says in which state
  each flow waits and that the field has not been typed in since it was read, `RatesFit`
  which rates each state has, `ExpiryFits` that a timer waits for every quote not known
  to have lapsed, and late enough that the rounded clock has passed the expiry when it
  fires. The last is where `Early <= Margin` is needed.

For the wallet page, under `WalletPageAssumption`, for all accounts and base reserves:

* `OfferAgrees`, from `VerdictIsTheNetworks`: for what was read, the browser's comparison
  and the network's are the same one, whatever the reserve, the sponsorships and
  the offers of the account.

For the browser (`BrowserProofs`), under `WalletAssumption`, `SignInAssumption` and those
of the check-in page, for any number of accounts, attempts, requests, calls and tokens:

* `BrowserTypeCorrect`, and `RefusalIsFresh`, from `SignInInv`: what a call carries in
  each stage (`CallFits`); that a second try goes by a token of its own.
* `SessionsStay`: every commit of the provider is an answer about an account, an error or
  a disconnection, and `Applied` lets none of them replace the account connected.
* `CallsAdvance`: `StepsLeft` counts what a call may still have before it, by its stage
  and by whether its second try is spent. Every step of a call lowers it and no other
  step touches the call; it begins at sixteen at most. This is the half of `CallsEnd` that
  needs no fairness: a refused token (403) can never start a loop of signatures, whatever tokens expire.

For the check-in page, under `CameraAssumption` and `ScanAssumption` and for any
number of guests, inspections and starts:

* `CameraSafe`: `Spec => []CameraUnderControl`, from `CameraInv`, the property and the
  camera's types together: that no reader is `"controlled"` once the hook holds no
  controls comes from the property itself, that a new start differs from `None` from
  the types. It is about the hook, whoever the wallet stands for. The hook's steps are proved once, as `CameraMoves`; a step of the page
  is one of them or leaves the camera alone.
* `TypeCorrect` of `ScanProofs`: `TypeOK`, from `CameraInv` and `PageTypeOK`, the
  page's half, which does not need the camera's.
* `InspectionsNeverMix`, `CheckInsInTurn`: the two action properties of the page,
  from `PageTypeOK`, one case for each step that writes the candidate or the job.
* `CodesFromCamera`: `Spec => CodesOnlyFromCamera`, from `OwnerShown`: the reader that
  owns the hook's generation is on its way to the camera that the hook says is in use, or
  has ended. Any other reader finds the generation changed before it reports a code.

For the deployment script, under `DeployAssumption`, for any number of builds and
transactions, any subset of files whose lines match, and a run that may die at
every step:

* `RecordsAgreeAtTheEnd`: `DeploySpec => []RecordsAgree`. The difficulty is the
  upload that `docs/deployments/testnet.md` names: a run that dies between the edit of
  the hash and the edit of the upload leaves another build's, and the next run of
  that build believes it. `Witnessed` is the part of `DeployInv` that makes it
  harmless: an upload in both `README.md` and the record is the one of the build
  recorded, and a run ends well only if its upload is in both. `Order` says what has
  been edited when; `OwnUpload` and `OwnContract` what the run knows is its own.

For the pages that call the contract, under `PagesAssumption` (who connects is one of the
signers), `LoadAssumption` (`None` is no load) and the contract's assumptions:

* `PagesFresh`: `PagesSpec => []FreshAfterSuccess`. Every step of a page is a step of the
  contract or leaves it alone (`PagesStep`), so `BondInv` holds under the pages as well
  (`PagesKeepInv`). `PagesInv` adds three parts. `PageFits`: a confirmation is of a call
  that this page makes. `WriteFits`: a write that is applied, and one that the page says
  has succeeded, has had its effect (`Done`), which no step of the contract takes back
  (`DoneStays`, from `ReservationStep` and `EventStep`). `LoadFits`: a load is for the
  account connected, and neither its answer nor what is on the screen is older than a
  success (`Told`): a load that was sent before it has been superseded by the reload that
  the success ends with.
* `PredictionsAreRight`: `PagesSpec => []PredictionsRight`. The predicates of
  `eligibility.ts` are fewer than the contract's checks, and three facts of the contract
  make up for what they do not ask: a held bond is covered by the balance (`BondCovered`,
  from `Solvent`), a locked reservation is counted (`LockedIsCounted`, from the seats), so
  that `reserved_count > 0` never refuses a cancellation, and whoever holds some of the
  asset has its trustline (`HoldersTrust`, an invariant of its own), so that the event
  page, which asks for the trustline, refuses nobody whom `reserve` would take. The last
  needs that a stored bond is positive.

For the organizer's list, under `EventLogAssumption` and the contract's, for every size of
a page:

* `ListsCompleteOrSaid`: `LogSpec => []ListCompleteOrSaid`. `PublishedOnce` says what one
  call adds to the log: at most one entry, the creation if the event was not there, a lock
  exactly if somebody new has reserved. Hence `LogFits`: the creation is the first entry
  and no other, and everybody who has reserved has a lock in the log. `ReaderFits`: a
  reader that has the creation began at the first entry, so it has all that its cursor has
  passed, and when a page is not full, all that there was (`PageOf`).

For the event form, under `FormAssumption`, for all times, any instant at which the
clocks go back and all widths of the contract's integers:

* `FormAgrees`: `FormSpec => []FormAndContractAgree`, from `FormInv`. A local time of
  the hour that comes twice is read as the first (`ReadAsFirst`), so a schedule around
  a start that was read from a field stays in order when its fields are read back
  (`ScheduleInOrder`), whichever of its times fall into that hour. What
  the form lets through passes every check of `create_event` on values, so that the
  bytes of the texts and the widths of the numbers are all that is left to refuse it.
  That the schema accepts what the contract takes, up to the widths of capacity and
  bond, is `SchemaIsTheContract`.

Only model-checked: the liveness properties (`BondReleased`, `RefundReleased`,
`WatchingEnds`, `CallsEnd`, `CameraReleased`, `NetworkChangeNoticed`), which are beyond the
prover. Every invariant and every action property of a passing run is a theorem.

## 5. What is not modelled, and the plan

Left out for good: rendering, formatting and wording; the read-only entry points; the
XDR and HTTP encodings, the encoding of a pass, parsing of amounts; the assembly of
a claim, which is the claim of `AnchorDeposit`; `setup-identities.sh`, `seed-demo-event.sh` and
`preflight.mjs`, which keep no state that another step depends on.

Left open in what is modelled:

* In `Pages`, the requests of one load are answered by one ledger. Loads that mix two
  ledgers would need `Reading` split per request.
* `createEvent` ends in a page of its own and is not part of `Pages`: a retry after a
  timeout makes a second event, and nothing in the code could tell.
* A deposit that the anchor opened and whose answer was thrown away by an abort is
  known to nobody on this side.
* Restoring an archived entry is an operation of the network that no code performs.

The liveness properties stay with TLC; `CallsAdvance` and `AttemptsAreCounted` prove the
bounds that `CallsEnd` and `WatchingEnds` rest on, and what fairness adds to them, that a
step that can be taken is taken in the end, is out of the prover's reach.
