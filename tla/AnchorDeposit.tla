---------------------------- MODULE AnchorDeposit ----------------------------
(***************************************************************************)
(* The anchor deposit of the wallet page: the component and its reducer,   *)
(* the flows and polls it has in flight, the record kept in session        *)
(* storage, and the anchor's own view of the deposits.                     *)
(*                                                                         *)
(* A task is a function of the component suspended at an await, named by   *)
(* its AbortController.  Each step of a task runs from one await to the    *)
(* next.  A task outlives the component that started it; then the state it *)
(* sets is gone, while session storage and the network are not.            *)
(***************************************************************************)
EXTENDS Naturals, Sequences, AnchorMachine

CONSTANTS
    Account,        \* wallets the user switches between
    MaxDeposits,    \* bound: deposits the anchor opens
    MaxTasks,       \* bound: functions in flight at once
    MaxPolls        \* DEPOSIT_POLL_MAX_ATTEMPTS, 100 in the code

ASSUME AnchorAssumption ==
    /\ MaxDeposits \in Nat \ {0} /\ MaxTasks \in Nat \ {0} /\ MaxPolls \in Nat \ {0}
    /\ DepositId = 1..MaxDeposits
    /\ None \notin Account /\ None \notin Nat

VARIABLES
    address,        \* the connected account, or None
    page,           \* the mounted component: reducer state, refs, warning, record offered
    tasks,          \* the functions in flight, by controller
    saved,          \* the record in session storage, or None
    deposits        \* the anchor's deposits, in the order they were opened

vars == <<address, page, tasks, saved, deposits>>

Controller == 1..MaxTasks
FlowKind == {"price", "open", "resume", "transfer", "claim"}
Step == {"discover", "price", "sign_in", "quote", "request", "ticket", "transfer",
         "load", "sign", "submit", "landed", "enable", "poll"}

Record == [deposit : DepositId, account : Account, balance : DepositId \cup {None}]
Task == [kind : FlowKind \cup {"enable", "poll"}, step : Step, account : Account,
         deposit : DepositId \cup {None}, balance : DepositId \cup {None},
         polls : 0..MaxPolls, live : BOOLEAN, aborted : BOOLEAN]
Page == [mounted : BOOLEAN, state : State, warning : BOOLEAN, busy : BOOLEAN,
         flow : Controller \cup {None}, polling : Controller \cup {None},
         offered : Record \cup {None}]
Deposit == [account : Account, status : Status, claimed : BOOLEAN]

\* null is no record and no task.
ASSUME NoneAssumption == None \notin Record /\ None \notin Task

TypeOK ==
    /\ address \in Account \cup {None}
    /\ page \in Page
    /\ tasks \in [Controller -> Task \cup {None}]
    /\ saved \in Record \cup {None}
    /\ deposits \in Seq(Deposit) /\ Len(deposits) <= MaxDeposits

-----------------------------------------------------------------------------
(* Tasks, controllers and refs *)

Blank(mounted, record) ==
    [mounted |-> mounted, state |-> Initial, warning |-> FALSE, busy |-> FALSE,
     flow |-> None, polling |-> None, offered |-> record]

FreeController == {c \in Controller : tasks[c] = None}
NextController == CHOOSE c \in FreeController : \A f \in FreeController : c <= f

NewTask(kind, step, d, b) ==
    [kind |-> kind, step |-> step, account |-> address, deposit |-> d, balance |-> b,
     polls |-> 0, live |-> TRUE, aborted |-> FALSE]

At(c, kind, step) == tasks[c] # None /\ tasks[c].kind = kind /\ tasks[c].step = step
Polling(c) == tasks[c] # None /\ tasks[c].step = "poll"
Moved(c, step) == [tasks EXCEPT ![c].step = step]
Ended(c) == [tasks EXCEPT ![c] = None]

\* controller.abort(); aborting a finished controller does nothing.
Aborting(cs) ==
    [c \in Controller |-> IF c \in cs /\ tasks[c] # None
                          THEN [tasks[c] EXCEPT !.aborted = TRUE] ELSE tasks[c]]

\* "if (controller.signal.aborted) return" after an await.
Proceeds(c) == ~tasks[c].aborted

\* What setState and dispatch do once the component is unmounted: nothing.
Shows(c, changed) == page' = IF tasks[c].live THEN changed ELSE page

FinishFlowOfAnyone(p, c) == [p EXCEPT !.flow = None, !.busy = FALSE]    \* faulty: no identity check

FinishFlow(p, c) == IF p.flow = c THEN [p EXCEPT !.flow = None, !.busy = FALSE] ELSE p

BeginFlow(kind, step, d, b, next) ==
    /\ page.mounted /\ ~page.busy
    /\ FreeController # {}
    /\ tasks' = [Aborting({page.flow}) EXCEPT ![NextController] = NewTask(kind, step, d, b)]
    /\ page' = [page EXCEPT !.flow = NextController, !.busy = TRUE, !.state = next]
    /\ UNCHANGED <<address, saved, deposits>>

\* pollUntilStopped(d) begins in controller c, for the component whose refs p
\* holds.  A poll keeps in mind whether the trustline's callback started it.
BeginPoll(p, c, kind, d) ==
    /\ tasks' = [Aborting({p.polling}) EXCEPT ![c] = NewTask(kind, "poll", d, None)]
    /\ page' = [p EXCEPT !.polling = c, !.warning = FALSE]

EndPoll(p, c) == [p EXCEPT !.polling = IF @ = c THEN None ELSE @]

\* Unmounting aborts the flow and the poll of the component.  Of the tasks that
\* remain, only these can still change something: a poll or a trustline started
\* without the component, a claim being submitted, a deposit being requested.
Survives(t) == ~t.live \/ t.kind = "enable" \/ t.step \in {"submit", "landed", "request"}

Unmount(ts) ==
    /\ page' = Blank(FALSE, None)
    /\ tasks' = [c \in Controller |->
         IF ts[c] = None \/ ~Survives(ts[c]) THEN None
         ELSE [ts[c] EXCEPT !.live = FALSE, !.aborted = @ \/ c \in {page.flow, page.polling}]]

-----------------------------------------------------------------------------
(* Session storage *)

\* updateDeposit: merges a balance into the record, if there is one.
WithBalanceAlways(record, b) ==                                     \* faulty: creates a record
    IF record = None THEN [deposit |-> None, balance |-> b] ELSE [record EXCEPT !.balance = b]

WithBalance(record, b) == IF record = None THEN None ELSE [record EXCEPT !.balance = b]

-----------------------------------------------------------------------------
(* The wallet and the page *)

Init ==
    /\ address = None
    /\ page = Blank(FALSE, None)
    /\ tasks = [c \in Controller |-> None]
    /\ saved = None
    /\ deposits = <<>>

Connect(a) ==
    /\ address = None
    /\ address' = a
    /\ UNCHANGED <<page, tasks, saved, deposits>>

Disconnect ==
    /\ address # None
    /\ address' = None
    /\ Unmount(tasks)
    /\ UNCHANGED <<saved, deposits>>

\* The balances have loaded: the page shows the component, keyed by the account.
Mount ==
    /\ address # None /\ ~page.mounted
    /\ page' = Blank(TRUE, saved)
    /\ UNCHANGED <<address, tasks, saved, deposits>>

\* The user goes to another page, or the balances are loaded again.
Leave ==
    /\ page.mounted
    /\ Unmount(tasks)
    /\ UNCHANGED <<address, saved, deposits>>

\* The document is reloaded: only session storage is left.
ReloadDocument ==
    /\ tasks # [c \in Controller |-> None]
    /\ page' = Blank(FALSE, None)
    /\ tasks' = [c \in Controller |-> None]
    /\ UNCHANGED <<address, saved, deposits>>

\* "Start a new deposit", offered in a terminal state.
Reset ==
    /\ page.state.name \in TerminalState
    /\ tasks' = Aborting({page.flow, page.polling})
    /\ saved' = None
    /\ page' = [Blank(TRUE, None) EXCEPT !.flow = page.flow, !.polling = page.polling]
    /\ UNCHANGED <<address, deposits>>

-----------------------------------------------------------------------------
(* priceDeposit *)

CheckRate ==
    /\ page.state.name = "IDLE"
    /\ BeginFlow("price", "discover", None, None, Started)

DiscoveryAnswered(c) ==
    /\ At(c, "price", "discover") /\ Proceeds(c)
    /\ Shows(c, [page EXCEPT !.state = Discovered(@)])
    /\ tasks' = Moved(c, "price")
    /\ UNCHANGED <<address, saved, deposits>>

PriceAnswered(c) ==
    /\ At(c, "price", "price") /\ Proceeds(c)
    /\ Shows(c, FinishFlow([page EXCEPT !.state = Priced(@)], c))
    /\ tasks' = Ended(c)
    /\ UNCHANGED <<address, saved, deposits>>

-----------------------------------------------------------------------------
(* openDeposit *)

OpenDeposit ==
    /\ page.state.name = "PRICING" /\ page.state.priced
    /\ BeginFlow("open", "sign_in", None, None, Authenticate(page.state))

SignedIn(c) ==
    /\ At(c, "open", "sign_in") /\ Proceeds(c)
    /\ Shows(c, [page EXCEPT !.state = Authenticated(@)])
    /\ tasks' = Moved(c, "quote")
    /\ UNCHANGED <<address, saved, deposits>>

QuoteAnswered(c) ==
    /\ At(c, "open", "quote") /\ Proceeds(c)
    /\ Shows(c, [page EXCEPT !.state = Quoted(@)])
    /\ tasks' = Moved(c, "request")
    /\ UNCHANGED <<address, saved, deposits>>

\* The request reaches the anchor, whether or not the browser still listens.
AnchorOpens(c) ==
    /\ At(c, "open", "request")
    /\ Len(deposits) < MaxDeposits
    /\ deposits' = Append(deposits,
         [account |-> tasks[c].account, status |-> "waiting", claimed |-> FALSE])
    /\ tasks' = IF tasks[c].live
                THEN [tasks EXCEPT ![c].step = "ticket", ![c].deposit = Len(deposits')]
                ELSE Ended(c)
    /\ UNCHANGED <<address, page, saved>>

\* The ticket is shown, saved, offered and polled, before anything else can run.
TicketAnswered(c) ==
    LET d == tasks[c].deposit
        record == [deposit |-> d, account |-> tasks[c].account, balance |-> None]
    IN  /\ At(c, "open", "ticket") /\ Proceeds(c)
        /\ saved' = record
        /\ BeginPoll(FinishFlow([page EXCEPT !.state = DepositStarted(@, d),
                                             !.offered = record], c), c, "poll", d)
        /\ UNCHANGED <<address, deposits>>

-----------------------------------------------------------------------------
(* resumeDeposit, simulateTransfer and the poll's own button *)

ResumableByAnyone(record) == record # None                          \* faulty: any account's record

Resumable(record) == record # None /\ record.account = address

ResumeDeposit ==
    /\ page.state.name = "IDLE"
    /\ Resumable(page.offered)
    /\ BeginFlow("resume", "discover", page.offered.deposit, page.offered.balance, page.state)

ResumeAnswered(c) ==
    LET t == tasks[c]
        shown == FinishFlow([page EXCEPT !.state = Resumed(t.deposit, t.balance)], c)
    IN  /\ At(c, "resume", "discover") /\ Proceeds(c)
        /\ IF t.balance = None
           THEN BeginPoll(shown, c, "poll", t.deposit)
           ELSE Shows(c, shown) /\ tasks' = Ended(c)
        /\ UNCHANGED <<address, saved, deposits>>

SimulateTransfer ==
    /\ page.state.ticket /\ page.state.deposit # None
    /\ BeginFlow("transfer", "transfer", page.state.deposit, None, page.state)

\* The anchor has booked the transfer, by a step of its own (AnchorProgress), which
\* happens too when the answer is lost (FlowFails) or nobody waits for it any more.
\* Nothing is read from the answer; the poll learns what came of it.
TransferAnswered(c) ==
    /\ At(c, "transfer", "transfer")
    /\ deposits[tasks[c].deposit].status # "waiting"
    /\ Shows(c, FinishFlow(page, c))
    /\ tasks' = Ended(c)
    /\ UNCHANGED <<address, saved, deposits>>

ResumePolling ==
    /\ page.mounted /\ page.warning /\ page.state.deposit # None
    /\ FreeController # {}
    /\ BeginPoll(page, NextController, "poll", page.state.deposit)
    /\ UNCHANGED <<address, saved, deposits>>

-----------------------------------------------------------------------------
(* claimBalance and EnableUsdcAction *)

ClaimBalance ==
    /\ page.state.name = "CLAIM_REQUIRED" /\ page.state.balance # None
    /\ BeginFlow("claim", "load", page.state.deposit, page.state.balance, page.state)

ClaimLoaded(c) ==
    /\ At(c, "claim", "load") /\ Proceeds(c)
    /\ tasks' = Moved(c, "sign")
    /\ UNCHANGED <<address, page, saved, deposits>>

ClaimSigned(c) ==
    /\ At(c, "claim", "sign") /\ Proceeds(c)
    /\ tasks' = Moved(c, "submit")
    /\ UNCHANGED <<address, page, saved, deposits>>

\* The network pays the claimable balance out, once.
ClaimLands(c) ==
    LET b == tasks[c].balance
    IN  /\ At(c, "claim", "submit")
        /\ deposits[b].status = "claimable" /\ ~deposits[b].claimed
        /\ deposits' = [deposits EXCEPT ![b].claimed = TRUE]
        /\ tasks' = Moved(c, "landed")
        /\ UNCHANGED <<address, page, saved>>

\* No abort check here.  onSettled reloads the balances of the page, which takes
\* the component off the screen in the render that would show the success.  (Of
\* a component that is gone, the reload amounts to a Leave right after.)
ClaimAnswered(c) ==
    /\ At(c, "claim", "landed")
    /\ saved' = None
    /\ IF tasks[c].live THEN Unmount(Ended(c)) ELSE tasks' = Ended(c) /\ UNCHANGED page
    /\ UNCHANGED <<address, deposits>>

\* The other button of CLAIM_REQUIRED.  Its own state keeps it from running twice, but
\* one that is shown anew knows nothing of the last one's: any number may run.
EnableUsdc ==
    /\ page.state.name = "CLAIM_REQUIRED" /\ page.state.balance = None
    /\ FreeController # {}
    /\ tasks' = [tasks EXCEPT ![NextController] =
                    NewTask("enable", "enable", page.state.deposit, None)]
    /\ UNCHANGED <<address, page, saved, deposits>>

\* onSuccess starts a poll for the deposit of the click, mounted or not.
UsdcEnabled(c) ==
    /\ At(c, "enable", "enable")
    /\ IF tasks[c].live
       THEN BeginPoll(page, c, "enable", tasks[c].deposit)
       ELSE tasks' = Moved(c, "poll") /\ UNCHANGED page
    /\ UNCHANGED <<address, saved, deposits>>

UsdcFailed(c) ==
    /\ At(c, "enable", "enable")
    /\ tasks' = Ended(c)
    /\ UNCHANGED <<address, page, saved, deposits>>

-----------------------------------------------------------------------------
(* pollUntilStopped *)

NextAttemptUncounted(polls) == polls                                \* faulty: never gives up
NextAttempt(polls) == polls + 1

PausedSilently(p) == p                                              \* faulty: no warning
Paused(p) == [p EXCEPT !.warning = TRUE]

\* The deposit is still going on, and so is the poll, up to the last attempt.
PollContinues(c) ==
    LET t == tasks[c]
        shown == [page EXCEPT !.state = StatusPolled(@, t.deposit, deposits[t.deposit].status)]
    IN  /\ Polling(c) /\ Proceeds(c)
        /\ deposits[t.deposit].status \notin TerminalStatus
        /\ IF NextAttempt(t.polls) < MaxPolls
           THEN /\ tasks' = [tasks EXCEPT ![c].polls = NextAttempt(t.polls)]
                /\ Shows(c, shown)
           ELSE tasks' = Ended(c) /\ Shows(c, Paused(EndPoll(shown, c)))
        /\ UNCHANGED <<address, saved, deposits>>

ClearsAnyTerminal(status) == status \notin WithClaimable            \* faulty: pending_trust too
Clears(status) == Reports[status].code # "pending_trust" /\ status \notin WithClaimable

\* The balances of the page are loaded again: the deposit has been paid out.
Reloads(status) == Reports[status].code = "completed" /\ status \notin WithClaimable

\* A claimable balance is written to whatever record is saved; a settled deposit
\* clears whatever record is saved.
PollEnds(c) ==
    LET d == tasks[c].deposit
        status == deposits[d].status
    IN  /\ Polling(c) /\ Proceeds(c)
        /\ status \in TerminalStatus
        /\ saved' = CASE status \in WithClaimable -> WithBalance(saved, d)
                      [] Clears(status) -> None
                      [] OTHER -> saved
        /\ IF Reloads(status) /\ tasks[c].live
           THEN Unmount(Ended(c))
           ELSE /\ tasks' = Ended(c)
                /\ Shows(c, EndPoll([page EXCEPT
                     !.state = StatusPolled(@, d, status),
                     !.offered = IF Clears(status) THEN None ELSE @], c))
        /\ UNCHANGED <<address, deposits>>

PollFails(c) ==
    /\ Polling(c) /\ Proceeds(c)
    /\ tasks' = Ended(c)
    /\ Shows(c, [EndPoll(page, c) EXCEPT !.warning = TRUE])
    /\ UNCHANGED <<address, saved, deposits>>

-----------------------------------------------------------------------------
(* Failures and aborted tasks *)

\* An await of a flow throws: the machine fails, a transfer warns, a claim says so.
FlowFails(c) ==
    /\ tasks[c] # None /\ tasks[c].kind \in FlowKind /\ Proceeds(c)
    /\ tasks' = Ended(c)
    /\ Shows(c, FinishFlow([page EXCEPT
         !.state = IF tasks[c].kind \in {"price", "open", "resume"} THEN Errored(@) ELSE @,
         !.warning = @ \/ tasks[c].kind = "transfer"], c))
    /\ UNCHANGED <<address, saved, deposits>>

\* An aborted task returns at its next check, through its finally clause.
AbortedReturns(c) ==
    /\ tasks[c] # None /\ tasks[c].aborted /\ tasks[c].step # "landed"
    /\ tasks' = Ended(c)
    /\ Shows(c, EndPoll(FinishFlow(page, c), c))
    /\ UNCHANGED <<address, saved, deposits>>

-----------------------------------------------------------------------------
(* The anchor *)

NextStatus == [waiting |-> {"processing", "failed"},
               processing |-> {"treasury_low", "paid", "claimable", "pending_trust", "failed"},
               treasury_low |-> {"processing"},
               pending_trust |-> {"processing", "failed"},
               paid |-> {}, claimable |-> {}, failed |-> {}]

AnchorProgress(d) ==
    \E status \in NextStatus[deposits[d].status] :
        /\ deposits' = [deposits EXCEPT ![d].status = status]
        /\ UNCHANGED <<address, page, tasks, saved>>

-----------------------------------------------------------------------------
PollStep(c) == PollContinues(c) \/ PollEnds(c) \/ PollFails(c)

TaskStep(c) ==
    \/ DiscoveryAnswered(c) \/ PriceAnswered(c)
    \/ SignedIn(c) \/ QuoteAnswered(c) \/ AnchorOpens(c) \/ TicketAnswered(c)
    \/ ResumeAnswered(c) \/ TransferAnswered(c)
    \/ ClaimLoaded(c) \/ ClaimSigned(c) \/ ClaimLands(c) \/ ClaimAnswered(c)
    \/ UsdcEnabled(c) \/ UsdcFailed(c)
    \/ FlowFails(c) \/ AbortedReturns(c)

UserStep ==
    \/ \E a \in Account : Connect(a)
    \/ Disconnect \/ Mount \/ Leave \/ ReloadDocument \/ Reset
    \/ CheckRate \/ OpenDeposit \/ ResumeDeposit \/ SimulateTransfer
    \/ ResumePolling \/ ClaimBalance \/ EnableUsdc

Next ==
    \/ UserStep
    \/ \E c \in Controller : PollStep(c) \/ TaskStep(c)
    \/ \E d \in 1..Len(deposits) : AnchorProgress(d)

Spec == Init /\ [][Next]_vars

\* A request is answered or fails, and so is the signature it may ask for.
FairSpec == Spec /\ \A c \in Controller : WF_vars(PollStep(c))
=============================================================================
