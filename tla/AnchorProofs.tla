----------------------------- MODULE AnchorProofs -----------------------------
(***************************************************************************)
(* Proofs about the anchor deposit, for every number of deposits, tasks,   *)
(* polls and accounts.                                                     *)
(*                                                                         *)
(* The properties relate a task that runs to the component's refs, to the  *)
(* state on the screen and to the saved record, and none of those is       *)
(* written together.  AnchorInv says how they agree between the steps: a   *)
(* flow or a poll of the mounted component is the one its ref names        *)
(* (FlowRef, PollRef), the state that a flow has brought about is the one  *)
(* its next await expects (StateFits), a task of the screen, the screen    *)
(* and the record are about one deposit (ScreenFits, ClaimFits), what a    *)
(* task or a record remembers of a deposit is true of it (DepositsKnown),  *)
(* and a task that outlives its component is one of a few kinds            *)
(* (TasksFit).  The proof has one lemma for each way in which steps change *)
(* the tasks and the refs: a component goes, a flow begins, a poll begins, *)
(* a task moves on, a task ends; the actions are cases of those.           *)
(***************************************************************************)
EXTENDS AnchorProperties, TLAPS, WellFoundedInduction, SequenceTheorems

-----------------------------------------------------------------------------
(* The inductive invariant *)

\* The awaits of each kind of task.
Suits(kind, step) ==
    \/ kind = "price" /\ step \in {"discover", "price"}
    \/ kind = "open" /\ step \in {"sign_in", "quote", "request", "ticket"}
    \/ kind = "resume" /\ step = "discover"
    \/ kind = "transfer" /\ step = "transfer"
    \/ kind = "claim" /\ step \in {"load", "sign", "submit", "landed"}
    \/ kind = "enable" /\ step \in {"enable", "poll"}
    \/ kind = "poll" /\ step = "poll"

PageFits ==
    /\ page.mounted => address # None
    /\ ~page.mounted => page = Blank(FALSE, None)

TasksFit ==
    \A c \in Controller : tasks[c] # None =>
        /\ Suits(tasks[c].kind, tasks[c].step)
        /\ tasks[c].live => page.mounted /\ tasks[c].account = address
        /\ ~tasks[c].live => tasks[c].kind = "enable" \/ tasks[c].step \in {"submit", "landed", "request"}
        /\ tasks[c].kind \notin {"price", "open"} \/ tasks[c].step = "ticket" => tasks[c].deposit # None
        /\ tasks[c].kind = "claim" => tasks[c].balance # None

\* What is remembered of a deposit is true of it.
Opened(d) == d # None => d \in 1..Len(deposits)
Claimable(b) == b # None => b \in 1..Len(deposits) /\ deposits[b].status = "claimable"
TrueRecord(r) ==
    r # None => Opened(r.deposit) /\ Claimable(r.balance) /\ deposits[r.deposit].account = r.account

DepositsKnown ==
    /\ TrueRecord(saved) /\ TrueRecord(page.offered)
    /\ Opened(page.state.deposit) /\ Claimable(page.state.balance)
    /\ \A c \in Controller : tasks[c] # None =>
        /\ Opened(tasks[c].deposit) /\ Claimable(tasks[c].balance)
        /\ tasks[c].step = "ticket" => deposits[tasks[c].deposit].account = tasks[c].account
        /\ tasks[c].step = "landed" => deposits[tasks[c].balance].claimed

FlowRef ==
    /\ page.flow # None =>
        tasks[page.flow] # None /\ tasks[page.flow].live /\ tasks[page.flow].kind \in FlowKind
    /\ page.busy => page.flow # None /\ ~tasks[page.flow].aborted
    /\ \A c \in Controller : RunningFlow(c) => page.flow = c /\ page.busy

PollRef ==
    /\ page.polling # None =>
        tasks[page.polling] # None /\ tasks[page.polling].live /\ tasks[page.polling].step = "poll"
    /\ \A c \in Controller : RunningPoll(c) => page.polling = c

\* The state that a running flow has brought about, and the flow that a state waits for.
StateIsFlows(name, priced, kind, step) ==
    /\ kind = "price" /\ step = "discover" <=> name = "DISCOVERING"
    /\ kind = "price" /\ step = "price" <=> name = "PRICING" /\ ~priced
    /\ kind = "open" /\ step = "sign_in" <=> name = "AUTHENTICATING"
    /\ kind = "open" /\ step = "quote" <=> name = "QUOTING"
    /\ kind = "open" /\ step \in {"request", "ticket"} <=> name = "DEPOSIT_STARTED"
    /\ kind = "resume" => name = "IDLE"

Waits(name, priced) ==
    \/ name \in {"DISCOVERING", "AUTHENTICATING", "QUOTING", "DEPOSIT_STARTED"}
    \/ name = "PRICING" /\ ~priced

StateFits ==
    /\ page.busy => StateIsFlows(page.state.name, page.state.priced,
                                 tasks[page.flow].kind, tasks[page.flow].step)
    /\ Waits(page.state.name, page.state.priced) => page.busy
    /\ page.state.name \in {"IDLE", "DISCOVERING", "PRICING", "AUTHENTICATING", "QUOTING", "DEPOSIT_STARTED"} =>
         page.state.deposit = None /\ page.state.balance = None /\ ~page.state.ticket
    /\ page.state.name \in {"IDLE", "DISCOVERING"} => ~page.state.priced
    /\ page.state.name \in Waiting \cup {"CLAIM_REQUIRED"} => page.state.deposit # None
    /\ page.state.name # "COMPLETED"

\* Tasks of the screen work for the screen's deposit, and so does the record.
ScreenFits ==
    /\ \A c \in Controller : Running(c) =>
        /\ tasks[c].kind \in {"poll", "claim"} => tasks[c].deposit = page.state.deposit
        /\ tasks[c].kind = "resume" /\ saved # None =>
             tasks[c].deposit = saved.deposit /\ saved.account = address
    /\ page.mounted /\ saved # None =>
        page.offered # None /\ page.offered.deposit = saved.deposit /\ page.offered.account = saved.account
    /\ page.state.deposit # None /\ saved # None =>
        page.state.deposit = saved.deposit /\ saved.account = address

\* A claim of the screen's own deposit keeps the screen as it is.
ClaimFits ==
    \A c \in Controller :
        tasks[c] # None /\ tasks[c].live /\ tasks[c].kind = "claim" /\ tasks[c].balance = tasks[c].deposit =>
            ~tasks[c].aborted /\ page.state.name = "CLAIM_REQUIRED"

AnchorInv ==
    /\ TypeOK /\ PageFits /\ TasksFit /\ DepositsKnown
    /\ FlowRef /\ PollRef /\ StateFits /\ ScreenFits /\ ClaimFits

-----------------------------------------------------------------------------
(* The reducer and the reports *)

\* The seven answers of the anchor, and what each does.
LEMMA Answers ==
    /\ Status = {"waiting", "processing", "treasury_low", "paid", "claimable", "pending_trust", "failed"}
    /\ StateFor["waiting"] = "AWAITING_BANK_TRANSFER" /\ StateFor["processing"] = "ANCHOR_PROCESSING"
    /\ StateFor["treasury_low"] = "TREASURY_LOW" /\ StateFor["paid"] = "COMPLETED"
    /\ StateFor["claimable"] = "CLAIM_REQUIRED" /\ StateFor["pending_trust"] = "CLAIM_REQUIRED"
    /\ StateFor["failed"] = "ERROR"
    /\ TerminalStatus = {"paid", "claimable", "pending_trust", "failed"}
    /\ WithClaimable = {"claimable"}
    /\ \A status \in TerminalStatus : Clears(status) <=> status \in {"paid", "failed"}
    /\ \A status \in Status : Reloads(status) <=> status = "paid"
<1>1. Status = {"waiting", "processing", "treasury_low", "paid", "claimable", "pending_trust", "failed"}
  BY DEF Status, Reports
<1>2. /\ Reports["waiting"] = Plain("pending_user_transfer_start")
      /\ Reports["processing"] = Plain("pending_anchor")
      /\ Reports["treasury_low"] = [code |-> "pending_anchor", treasuryLow |-> TRUE, balance |-> FALSE]
      /\ Reports["paid"] = Plain("completed")
      /\ Reports["claimable"] = [code |-> "completed", treasuryLow |-> FALSE, balance |-> TRUE]
      /\ Reports["pending_trust"] = Plain("pending_trust")
      /\ Reports["failed"] = Plain("error")
  BY DEF Reports, Plain
<1>3. \A status \in Status : StateFor[status] = StateForReport(Reports[status])
  BY DEF StateFor
<1>4. /\ StateFor["waiting"] = "AWAITING_BANK_TRANSFER" /\ StateFor["processing"] = "ANCHOR_PROCESSING"
      /\ StateFor["treasury_low"] = "TREASURY_LOW" /\ StateFor["paid"] = "COMPLETED"
      /\ StateFor["claimable"] = "CLAIM_REQUIRED" /\ StateFor["pending_trust"] = "CLAIM_REQUIRED"
      /\ StateFor["failed"] = "ERROR"
  BY <1>1, <1>2, <1>3 DEF StateForReport, NeedsClaim, FailureCode, Plain
<1>5. TerminalStatus = {"paid", "claimable", "pending_trust", "failed"}
  BY <1>1, <1>2 DEF TerminalStatus, TerminalReport, FailureCode, Plain
<1>6. WithClaimable = {"claimable"}
  BY <1>1, <1>2 DEF WithClaimable, Plain
<1>7. /\ Reports["waiting"].code = "pending_user_transfer_start"
      /\ Reports["processing"].code = "pending_anchor" /\ Reports["treasury_low"].code = "pending_anchor"
      /\ Reports["paid"].code = "completed" /\ Reports["claimable"].code = "completed"
      /\ Reports["pending_trust"].code = "pending_trust" /\ Reports["failed"].code = "error"
  BY <1>2 DEF Plain
<1>8. \A status \in Status : Reloads(status) <=> status = "paid"
  BY <1>1, <1>6, <1>7 DEF Reloads
<1>9. \A status \in TerminalStatus : Clears(status) <=> status \in {"paid", "failed"}
  BY <1>5, <1>6, <1>7 DEF Clears
<1> QED
  BY <1>1, <1>4, <1>5, <1>6, <1>8, <1>9

\* Every answer keeps to the states; only a terminal one leads out of the polled ones.
LEMMA StateForType == StateFor \in [Status -> StateName]
  BY Answers DEF StateFor, StateName, Waiting, TerminalState

\* For every report but one of a low treasury: polling stops in the states that are not polled.
THEOREM PollingStopsWithTheState ==
    \A r \in Report : ~r.treasuryLow => (TerminalReport(r) <=> StateForReport(r) \notin ShouldPoll)
  BY DEF Report, Code, TerminalReport, StateForReport, ShouldPoll, Waiting, NeedsClaim, FailureCode

LEMMA ReducerTypes ==
    ASSUME NEW s \in State
    PROVE  /\ Errored(s) \in State /\ Discovered(s) \in State /\ Priced(s) \in State
           /\ Authenticate(s) \in State /\ Authenticated(s) \in State /\ Quoted(s) \in State
           /\ \A d \in DepositId : DepositStarted(s, d) \in State
           /\ \A d \in DepositId, status \in Status : StatusPolled(s, d, status) \in State
<1>1. /\ Errored(s) \in State /\ Discovered(s) \in State /\ Priced(s) \in State
      /\ Authenticate(s) \in State /\ Authenticated(s) \in State /\ Quoted(s) \in State
  BY DEF State, StateName, TerminalState, Errored, Discovered, Priced, Authenticate, Authenticated, Quoted
<1>2. \A d \in DepositId : DepositStarted(s, d) \in State
  BY DEF State, StateName, Waiting, DepositStarted
<1>3. \A d \in DepositId, status \in Status : StatusPolled(s, d, status) \in State
  BY StateForType DEF State, StatusPolled
<1> QED
  BY <1>1, <1>2, <1>3

LEMMA FreshStates ==
    /\ Initial \in State /\ Started \in State
    /\ \A d \in DepositId, b \in DepositId \cup {None} : Resumed(d, b) \in State
  BY DEF Initial, Started, Resumed, State, StateName, Waiting

-----------------------------------------------------------------------------
(* Controllers and types *)

LEMMA FreeOne == ASSUME FreeController # {} PROVE NextController \in FreeController
<1>1. FreeController \subseteq Nat
  BY DEF FreeController, Controller
<1> DEFINE Less == {x \in Nat \X Nat : x[1] < x[2]}
<1>2. IsWellFoundedOn(Less, Nat)
  BY NatLessThanWellFounded DEF OpToRel
<1>a. \A m, n \in Nat : m < n => <<m, n>> \in Less
  OBVIOUS
<1> HIDE DEF Less
<1>3. PICK c \in FreeController : \A f \in FreeController : ~(<<f, c>> \in Less)
  BY <1>1, <1>2, WFMin, Zenon
<1>4. \A f \in FreeController : c <= f
  <2> TAKE f \in FreeController
  <2>1. f \in Nat /\ c \in Nat
    BY <1>1
  <2>2. ~(f < c)
    BY <1>3, <1>a, <2>1
  <2> QED
    BY <2>1, <2>2
<1> QED
  BY <1>3, <1>4 DEF NextController

LEMMA FreeTask ==
    ASSUME FreeController # {}
    PROVE  NextController \in Controller /\ tasks[NextController] = None
  BY FreeOne DEF FreeController

LEMMA NewTaskType ==
    ASSUME TypeOK, address # None, NEW kind \in FlowKind \cup {"enable", "poll"}, NEW step \in Step,
           NEW d \in DepositId \cup {None}, NEW b \in DepositId \cup {None}
    PROVE  NewTask(kind, step, d, b) \in Task
  BY AnchorAssumption DEF NewTask, Task, TypeOK

LEMMA BlankType ==
    ASSUME NEW mounted \in BOOLEAN, NEW r \in Record \cup {None} PROVE Blank(mounted, r) \in Page
  BY FreshStates DEF Blank, Page

LEMMA AbortingType ==
    ASSUME TypeOK, NEW cs PROVE Aborting(cs) \in [Controller -> Task \cup {None}]
  BY ZenonT(40) DEF TypeOK, Aborting, Task

LEMMA UnmountType ==
    ASSUME TypeOK, NEW ts \in [Controller -> Task \cup {None}], Unmount(ts)
    PROVE  page' \in Page /\ tasks' \in [Controller -> Task \cup {None}]
<1>1. page' \in Page
  BY BlankType DEF Unmount
<1>2. \A c \in Controller : tasks'[c] \in Task \cup {None}
  BY ZenonT(40) DEF Unmount, Task
<1> QED
  BY <1>1, <1>2 DEF Unmount

LEMMA FinishFlowType == ASSUME NEW p \in Page, NEW c PROVE FinishFlow(p, c) \in Page
  BY DEF Page, FinishFlow

LEMMA EndPollType == ASSUME NEW p \in Page, NEW c PROVE EndPoll(p, c) \in Page
  BY DEF Page, EndPoll

LEMMA BeginPollType ==
    ASSUME TypeOK, address # None, NEW p \in Page, NEW c \in Controller,
           NEW kind \in {"enable", "poll"}, NEW d \in DepositId \cup {None}, BeginPoll(p, c, kind, d)
    PROVE  page' \in Page /\ tasks' \in [Controller -> Task \cup {None}]
<1>1. NewTask(kind, "poll", d, None) \in Task
  BY NewTaskType DEF Step
<1>2. tasks' \in [Controller -> Task \cup {None}]
  BY <1>1, AbortingType DEF BeginPoll
<1>3. page' \in Page
  BY DEF BeginPoll, Page
<1> QED
  BY <1>2, <1>3

LEMMA BeginFlowType ==
    ASSUME TypeOK, address # None, NEW kind \in FlowKind, NEW step \in Step, NEW next \in State,
           NEW d \in DepositId \cup {None}, NEW b \in DepositId \cup {None},
           BeginFlow(kind, step, d, b, next)
    PROVE  TypeOK'
<1>1. NewTask(kind, step, d, b) \in Task
  BY NewTaskType
<1>2. tasks' \in [Controller -> Task \cup {None}]
  BY <1>1, AbortingType DEF BeginFlow
<1>3. page' \in Page
  BY FreeTask DEF BeginFlow, Page, TypeOK
<1> QED
  BY <1>2, <1>3 DEF BeginFlow, TypeOK

LEMMA EndedType ==
    ASSUME TypeOK, NEW c PROVE Ended(c) \in [Controller -> Task \cup {None}]
  BY DEF TypeOK, Ended

LEMMA MovedType ==
    ASSUME TypeOK, NEW c, tasks[c] # None, NEW step \in Step
    PROVE  Moved(c, step) \in [Controller -> Task \cup {None}]
  BY ZenonT(40) DEF TypeOK, Moved, Task

LEMMA DepositChanged ==
    ASSUME TypeOK, NEW d \in 1..Len(deposits), NEW v \in Deposit
    PROVE  /\ [deposits EXCEPT ![d] = v] \in Seq(Deposit)
           /\ Len([deposits EXCEPT ![d] = v]) = Len(deposits)
  BY DEF TypeOK

\* What a task remembers, while it is in flight.
LEMMA InFlight ==
    ASSUME AnchorInv, NEW c \in Controller, tasks[c] # None
    PROVE  /\ tasks[c] \in Task /\ tasks[c].account \in Account
           /\ Suits(tasks[c].kind, tasks[c].step)
           /\ tasks[c].live => page.mounted /\ address \in Account /\ tasks[c].account = address
           /\ tasks[c].kind \notin {"price", "open"} \/ tasks[c].step = "ticket" =>
                /\ tasks[c].deposit \in DepositId /\ tasks[c].deposit \in 1..Len(deposits)
                /\ deposits[tasks[c].deposit] \in Deposit
           /\ tasks[c].kind = "claim" =>
                /\ tasks[c].balance \in DepositId /\ tasks[c].balance \in 1..Len(deposits)
                /\ deposits[tasks[c].balance].status = "claimable"
                /\ deposits[tasks[c].balance] \in Deposit
<1>1. tasks[c] \in Task
  BY DEF AnchorInv, TypeOK
<1>2. page.mounted => address \in Account
  BY DEF AnchorInv, TypeOK, PageFits
<1>3. /\ Suits(tasks[c].kind, tasks[c].step)
      /\ tasks[c].live => page.mounted /\ tasks[c].account = address
      /\ tasks[c].kind \notin {"price", "open"} \/ tasks[c].step = "ticket" => tasks[c].deposit # None
      /\ tasks[c].kind = "claim" => tasks[c].balance # None
  BY DEF AnchorInv, TasksFit
<1>4. Opened(tasks[c].deposit) /\ Claimable(tasks[c].balance)
  BY DEF AnchorInv, DepositsKnown
<1>5. tasks[c].account \in Account /\ tasks[c].deposit \in DepositId \cup {None}
      /\ tasks[c].balance \in DepositId \cup {None}
  BY <1>1 DEF Task
<1>6. \A d \in 1..Len(deposits) : deposits[d] \in Deposit
  BY DEF AnchorInv, TypeOK
<1> QED
  BY <1>1, <1>2, <1>3, <1>4, <1>5, <1>6 DEF Opened, Claimable

-----------------------------------------------------------------------------
(* Type correctness *)

LEMMA UserTypes == AnchorInv /\ UserStep => TypeOK'
<1> SUFFICES ASSUME AnchorInv, UserStep PROVE TypeOK'
  OBVIOUS
<1>0. TypeOK /\ PageFits /\ tasks \in [Controller -> Task \cup {None}]
  BY DEF AnchorInv, TypeOK
<1>1. page.mounted => address # None
  BY <1>0 DEF PageFits
<1>2. page.flow # None \/ page.busy \/ page.state.name # "IDLE" \/ page.offered # None => page.mounted
  BY <1>0 DEF PageFits, Blank, Initial
<1>3. page.state \in State /\ page \in Page
  BY <1>0 DEF TypeOK, Page
<1>4. CASE \E a \in Account : Connect(a)
  BY <1>4, <1>0 DEF Connect, TypeOK
<1>5. CASE Disconnect
  BY <1>5, <1>0, UnmountType DEF Disconnect, TypeOK
<1>6. CASE Mount
  BY <1>6, <1>0, BlankType DEF Mount, TypeOK
<1>7. CASE Leave
  BY <1>7, <1>0, UnmountType DEF Leave, TypeOK
<1>8. CASE ReloadDocument
  BY <1>8, <1>0, BlankType DEF ReloadDocument, TypeOK
<1>9. CASE Reset
  <2>1. Blank(TRUE, None) \in Page
    BY BlankType
  <2>2. page' \in Page
    BY <1>9, <1>3, <2>1 DEF Reset, Page
  <2> QED
    BY <1>9, <1>0, <2>2, AbortingType DEF Reset, TypeOK
<1>10. CASE CheckRate
  <2>1. page.mounted
    BY <1>10 DEF CheckRate, BeginFlow
  <2> QED
    BY <1>10, <1>0, <1>1, <2>1, FreshStates, BeginFlowType DEF CheckRate, FlowKind, Step
<1>11. CASE OpenDeposit
  <2>1. page.mounted
    BY <1>11 DEF OpenDeposit, BeginFlow
  <2> QED
    BY <1>11, <1>0, <1>1, <1>3, <2>1, ReducerTypes, BeginFlowType DEF OpenDeposit, FlowKind, Step
<1>12. CASE ResumeDeposit
  <2>1. page.mounted
    BY <1>12 DEF ResumeDeposit, BeginFlow
  <2>2. page.offered.deposit \in DepositId /\ page.offered.balance \in DepositId \cup {None}
    BY <1>12, <1>3 DEF ResumeDeposit, Resumable, Page, Record
  <2> QED
    BY <1>12, <1>0, <1>1, <1>3, <2>1, <2>2, BeginFlowType DEF ResumeDeposit, FlowKind, Step
<1>13. CASE SimulateTransfer
  <2>1. page.mounted
    BY <1>13 DEF SimulateTransfer, BeginFlow
  <2>2. page.state.deposit \in DepositId \cup {None}
    BY <1>3 DEF State
  <2> QED
    BY <1>13, <1>0, <1>1, <1>3, <2>1, <2>2, BeginFlowType DEF SimulateTransfer, FlowKind, Step
<1>14. CASE ResumePolling
  <2>1. page.state.deposit \in DepositId \cup {None}
    BY <1>3 DEF State
  <2>2. page' \in Page /\ tasks' \in [Controller -> Task \cup {None}]
    BY <1>14, <1>0, <1>1, <1>3, <2>1, FreeTask, BeginPollType DEF ResumePolling
  <2> QED
    BY <1>14, <1>0, <2>2 DEF ResumePolling, TypeOK
<1>15. CASE ClaimBalance
  <2>1. page.mounted
    BY <1>15 DEF ClaimBalance, BeginFlow
  <2>2. page.state.deposit \in DepositId \cup {None} /\ page.state.balance \in DepositId \cup {None}
    BY <1>3 DEF State
  <2> QED
    BY <1>15, <1>0, <1>1, <1>3, <2>1, <2>2, BeginFlowType DEF ClaimBalance, FlowKind, Step
<1>16. CASE EnableUsdc
  <2>1. page.mounted
    BY <1>16, <1>2 DEF EnableUsdc
  <2>2. page.state.deposit \in DepositId \cup {None}
    BY <1>3 DEF State
  <2>3. NewTask("enable", "enable", page.state.deposit, None) \in Task
    BY <1>0, <1>1, <2>1, <2>2, NewTaskType DEF Step
  <2>4. tasks' \in [Controller -> Task \cup {None}]
    BY <1>16, <1>0, <2>3 DEF EnableUsdc
  <2> QED
    BY <1>16, <1>0, <2>4 DEF EnableUsdc, TypeOK
<1> QED
  BY <1>4, <1>5, <1>6, <1>7, <1>8, <1>9, <1>10, <1>11, <1>12, <1>13, <1>14, <1>15, <1>16 DEF UserStep

LEMMA ShowsType ==
    ASSUME TypeOK, NEW c, NEW p \in Page, Shows(c, p) PROVE page' \in Page
  BY DEF Shows, TypeOK

LEMMA PollTypes == \A c \in Controller : AnchorInv /\ PollStep(c) => TypeOK'
<1> SUFFICES ASSUME NEW c \in Controller, AnchorInv, PollStep(c) PROVE TypeOK'
  OBVIOUS
<1>0. TypeOK /\ PageFits /\ tasks \in [Controller -> Task \cup {None}] /\ page.state \in State /\ page \in Page
  BY DEF AnchorInv, TypeOK, Page
<1>1. tasks[c] # None /\ tasks[c] \in Task
  BY <1>0 DEF PollStep, PollContinues, PollEnds, PollFails, Polling
<1>2. tasks[c].deposit \in DepositId /\ deposits[tasks[c].deposit].status \in Status
  BY <1>1, InFlight DEF PollStep, PollContinues, PollEnds, PollFails, Polling, Suits, Deposit
<1>3. tasks[c].polls \in 0..MaxPolls
  BY <1>1 DEF Task
<1> DEFINE shown(s) == StatusPolled(page.state, tasks[c].deposit, s)
<1>4. shown(deposits[tasks[c].deposit].status) \in State
  BY <1>0, <1>2, ReducerTypes
<1>5. CASE PollContinues(c)
  <2> DEFINE q == [page EXCEPT !.state = StatusPolled(@, tasks[c].deposit, deposits[tasks[c].deposit].status)]
  <2>1. q \in Page
    BY <1>0, <1>4 DEF Page
  <2>2. EndPoll(q, c) \in Page /\ Paused(EndPoll(q, c)) \in Page
    <3>1. EndPoll(q, c) \in Page
      BY <2>1, EndPollType
    <3> QED
      BY <3>1 DEF Paused, Page
  <2>3. tasks' \in [Controller -> Task \cup {None}]
    BY SMTT(30), <1>5, <1>0, <1>1, <1>3, EndedType, AnchorAssumption DEF PollContinues, NextAttempt, Task
  <2>4. page' \in Page
    BY <1>5, <1>0, <2>1, <2>2, ShowsType DEF PollContinues
  <2> QED
    BY <1>5, <1>0, <2>3, <2>4 DEF PollContinues, TypeOK
<1>6. CASE PollEnds(c)
  <2> DEFINE q == [page EXCEPT !.state = StatusPolled(@, tasks[c].deposit, deposits[tasks[c].deposit].status),
                              !.offered = IF Clears(deposits[tasks[c].deposit].status) THEN None ELSE @]
  <2>1. q \in Page
    BY <1>0, <1>4 DEF Page
  <2>2. EndPoll(q, c) \in Page
    BY <2>1, EndPollType
  <2>3. tasks' \in [Controller -> Task \cup {None}] /\ page' \in Page
    <3>1. CASE Unmount(Ended(c))
      BY <3>1, <1>0, UnmountType, EndedType
    <3>2. CASE tasks' = Ended(c) /\ Shows(c, EndPoll(q, c))
      BY <3>2, <1>0, <2>2, EndedType, ShowsType
    <3> QED
      BY <1>6, <3>1, <3>2 DEF PollEnds
  <2>4. saved' \in Record \cup {None}
    BY <1>6, <1>0, <1>2 DEF PollEnds, WithBalance, TypeOK, Record
  <2> QED
    BY <1>6, <1>0, <2>3, <2>4 DEF PollEnds, TypeOK
<1>7. CASE PollFails(c)
  <2>1. [EndPoll(page, c) EXCEPT !.warning = TRUE] \in Page
    BY <1>0, EndPollType DEF Page
  <2> QED
    BY <1>7, <1>0, <2>1, ShowsType, EndedType DEF PollFails, TypeOK
<1> QED
  BY <1>5, <1>6, <1>7 DEF PollStep

LEMMA AnchorTypes == \A d \in 1..Len(deposits) : AnchorInv /\ AnchorProgress(d) => TypeOK'
<1> SUFFICES ASSUME NEW d \in 1..Len(deposits), AnchorInv, AnchorProgress(d) PROVE TypeOK'
  OBVIOUS
<1>0. TypeOK /\ deposits[d] \in Deposit
  BY DEF AnchorInv, TypeOK
<1>1. deposits[d].status \in Status
  BY <1>0 DEF Deposit
<1>2. PICK status \in NextStatus[deposits[d].status] :
          deposits' = [deposits EXCEPT ![d].status = status] /\ UNCHANGED <<address, page, tasks, saved>>
  BY DEF AnchorProgress
<1>3. status \in Status
  BY <1>1, <1>2, Answers DEF NextStatus
<1>4. [deposits[d] EXCEPT !.status = status] \in Deposit
  BY <1>0, <1>3 DEF Deposit
<1> QED
  BY <1>0, <1>2, <1>4, DepositChanged DEF TypeOK

LEMMA TaskTypes == \A c \in Controller : AnchorInv /\ TaskStep(c) => TypeOK'
<1> SUFFICES ASSUME NEW c \in Controller, AnchorInv, TaskStep(c) PROVE TypeOK'
  OBVIOUS
<1>0. /\ TypeOK /\ PageFits /\ tasks \in [Controller -> Task \cup {None}]
      /\ page.state \in State /\ page \in Page /\ address \in Account \cup {None}
  BY DEF AnchorInv, TypeOK, Page
<1>1. tasks[c] # None /\ tasks[c] \in Task
  BY <1>0 DEF TaskStep, At, DiscoveryAnswered, PriceAnswered, SignedIn, QuoteAnswered, AnchorOpens, TicketAnswered,
              ResumeAnswered, TransferAnswered, ClaimLoaded, ClaimSigned, ClaimLands, ClaimAnswered,
              UsdcEnabled, UsdcFailed, FlowFails, AbortedReturns
<1>2. \A s \in State : [page EXCEPT !.state = s] \in Page
  BY <1>0 DEF Page
<1>3. Ended(c) \in [Controller -> Task \cup {None}]
  BY <1>0, EndedType
<1>4. \A step \in Step : Moved(c, step) \in [Controller -> Task \cup {None}]
  BY <1>0, <1>1, MovedType
<1>5. CASE DiscoveryAnswered(c)
  BY <1>5, <1>0, <1>2, <1>4, ReducerTypes, ShowsType DEF DiscoveryAnswered, Step, TypeOK
<1>6. CASE PriceAnswered(c)
  <2>1. FinishFlow([page EXCEPT !.state = Priced(@)], c) \in Page
    BY <1>0, <1>2, ReducerTypes, FinishFlowType
  <2> QED
    BY <1>6, <1>0, <1>3, <2>1, ShowsType DEF PriceAnswered, TypeOK
<1>7. CASE SignedIn(c)
  BY <1>7, <1>0, <1>2, <1>4, ReducerTypes, ShowsType DEF SignedIn, Step, TypeOK
<1>8. CASE QuoteAnswered(c)
  BY <1>8, <1>0, <1>2, <1>4, ReducerTypes, ShowsType DEF QuoteAnswered, Step, TypeOK
<1>9. CASE AnchorOpens(c)
  <2> DEFINE new == [account |-> tasks[c].account, status |-> "waiting", claimed |-> FALSE]
  <2>1. tasks[c].account \in Account
    BY <1>1, InFlight
  <2>2. new \in Deposit
    BY <2>1, Answers DEF Deposit
  <2>3. deposits' = Append(deposits, new) /\ Len(deposits) < MaxDeposits
    BY <1>9 DEF AnchorOpens
  <2>4. deposits' \in Seq(Deposit) /\ Len(deposits') = Len(deposits) + 1 /\ Len(deposits) \in Nat
    <3> HIDE DEF new
    <3> QED
      BY <1>0, <2>2, <2>3 DEF TypeOK
  <2>5. Len(deposits') \in DepositId /\ Len(deposits') <= MaxDeposits
    BY <2>3, <2>4, AnchorAssumption
  <2>6. [tasks EXCEPT ![c].step = "ticket", ![c].deposit = Len(deposits')] \in [Controller -> Task \cup {None}]
    BY <1>0, <1>1, <2>5 DEF Task, Step
  <2>7. tasks' \in [Controller -> Task \cup {None}]
    BY <1>9, <1>3, <2>6 DEF AnchorOpens
  <2> QED
    BY <1>9, <1>0, <2>4, <2>5, <2>7 DEF AnchorOpens, TypeOK
<1>10. CASE TicketAnswered(c)
  <2> DEFINE record == [deposit |-> tasks[c].deposit, account |-> tasks[c].account, balance |-> None]
             q == [page EXCEPT !.state = DepositStarted(@, tasks[c].deposit), !.offered = record]
  <2>1. tasks[c].deposit \in DepositId /\ tasks[c].account \in Account
    BY <1>10, <1>1, InFlight DEF TicketAnswered, At
  <2>2. record \in Record
    BY <2>1 DEF Record
  <2>3. q \in Page
    BY <1>0, <2>1, <2>2, ReducerTypes DEF Page
  <2>4. address # None
    BY <1>10, <1>1, InFlight, AnchorAssumption DEF TicketAnswered, At, AnchorInv, TasksFit, PageFits
  <2>5. BeginPoll(FinishFlow(q, c), c, "poll", tasks[c].deposit) /\ saved' = record /\ UNCHANGED <<address, deposits>>
    BY <1>10 DEF TicketAnswered
  <2>6. FinishFlow(q, c) \in Page
    BY <2>3, FinishFlowType
  <2> HIDE DEF record, q
  <2>7. page' \in Page /\ tasks' \in [Controller -> Task \cup {None}]
    BY <1>0, <2>1, <2>4, <2>5, <2>6, BeginPollType
  <2> QED
    BY <1>0, <2>2, <2>5, <2>7 DEF TypeOK
<1>11. CASE ResumeAnswered(c)
  <2> DEFINE shown == FinishFlow([page EXCEPT !.state = Resumed(tasks[c].deposit, tasks[c].balance)], c)
  <2>1. tasks[c].deposit \in DepositId /\ tasks[c].balance \in DepositId \cup {None}
    BY <1>11, <1>1, InFlight DEF ResumeAnswered, At, Task
  <2>2. shown \in Page
    BY <1>2, <2>1, FreshStates, FinishFlowType
  <2>3. address # None
    BY <1>11, <1>1, InFlight, AnchorAssumption DEF ResumeAnswered, At, AnchorInv, TasksFit, PageFits
  <2>4. page' \in Page /\ tasks' \in [Controller -> Task \cup {None}]
    <3>1. CASE BeginPoll(shown, c, "poll", tasks[c].deposit)
      <4> HIDE DEF shown
      <4> QED
        BY <3>1, <1>0, <2>1, <2>2, <2>3, BeginPollType
    <3>2. CASE Shows(c, shown) /\ tasks' = Ended(c)
      BY <3>2, <1>0, <1>3, <2>2, ShowsType
    <3> QED
      BY <1>11, <3>1, <3>2 DEF ResumeAnswered
  <2> QED
    BY <1>11, <1>0, <2>4 DEF ResumeAnswered, TypeOK
<1>12. CASE TransferAnswered(c)
  BY <1>12, <1>0, <1>3, FinishFlowType, ShowsType DEF TransferAnswered, TypeOK
<1>13. CASE ClaimLoaded(c) \/ ClaimSigned(c)
  BY <1>13, <1>0, <1>4 DEF ClaimLoaded, ClaimSigned, Step, TypeOK
<1>14. CASE ClaimLands(c)
  <2>1. tasks[c].balance \in 1..Len(deposits) /\ deposits[tasks[c].balance] \in Deposit
    BY <1>14, <1>1, InFlight DEF ClaimLands, At
  <2>2. [deposits[tasks[c].balance] EXCEPT !.claimed = TRUE] \in Deposit
    BY <2>1 DEF Deposit
  <2>3. deposits' \in Seq(Deposit) /\ Len(deposits') = Len(deposits)
    BY <1>14, <1>0, <2>1, <2>2, DepositChanged DEF ClaimLands
  <2> QED
    BY <1>14, <1>0, <1>4, <2>3 DEF ClaimLands, Step, TypeOK
<1>15. CASE ClaimAnswered(c)
  BY <1>15, <1>0, <1>3, UnmountType DEF ClaimAnswered, TypeOK
<1>16. CASE UsdcEnabled(c)
  <2>1. CASE tasks[c].live
    <3>1. address # None /\ tasks[c].deposit \in DepositId
      BY <1>16, <2>1, <1>1, InFlight, AnchorAssumption DEF UsdcEnabled, At
    <3> QED
      BY <1>16, <1>0, <2>1, <3>1, BeginPollType DEF UsdcEnabled, TypeOK
  <2>2. CASE ~tasks[c].live
    BY <1>16, <2>2, <1>0, <1>4 DEF UsdcEnabled, Step, TypeOK
  <2> QED
    BY <2>1, <2>2
<1>17. CASE UsdcFailed(c)
  BY <1>17, <1>0, <1>3 DEF UsdcFailed, TypeOK
<1>18. CASE FlowFails(c)
  <2> DEFINE q == [page EXCEPT
               !.state = IF tasks[c].kind \in {"price", "open", "resume"} THEN Errored(@) ELSE @,
               !.warning = @ \/ tasks[c].kind = "transfer"]
  <2>1. q \in Page
    BY <1>0, ReducerTypes DEF Page
  <2>2. FinishFlow(q, c) \in Page
    BY <2>1, FinishFlowType
  <2> QED
    BY <1>18, <1>0, <1>3, <2>2, ShowsType DEF FlowFails, TypeOK
<1>19. CASE AbortedReturns(c)
  <2>1. EndPoll(FinishFlow(page, c), c) \in Page
    BY <1>0, FinishFlowType, EndPollType
  <2> QED
    BY <1>19, <1>0, <1>3, <2>1, ShowsType DEF AbortedReturns, TypeOK
<1> QED
  BY <1>5, <1>6, <1>7, <1>8, <1>9, <1>10, <1>11, <1>12, <1>13, <1>14, <1>15, <1>16, <1>17, <1>18, <1>19
     DEF TaskStep

-----------------------------------------------------------------------------
(* The invariant: a component that goes *)

LEMMA AbortingKeeps ==
    ASSUME TypeOK, NEW cs, NEW x \in Controller
    PROVE  /\ Aborting(cs)[x] = None <=> tasks[x] = None
           /\ tasks[x] # None =>
                /\ Aborting(cs)[x].kind = tasks[x].kind /\ Aborting(cs)[x].step = tasks[x].step
                /\ Aborting(cs)[x].account = tasks[x].account /\ Aborting(cs)[x].live = tasks[x].live
                /\ Aborting(cs)[x].deposit = tasks[x].deposit /\ Aborting(cs)[x].balance = tasks[x].balance
                /\ Aborting(cs)[x].aborted <=> tasks[x].aborted \/ x \in cs
<1>1. tasks[x] \in Task \cup {None}
  BY DEF TypeOK
<1>2. CASE tasks[x] = None
  BY <1>2 DEF Aborting
<1>3. CASE tasks[x] # None /\ x \in cs
  <2>1. Aborting(cs)[x] = [tasks[x] EXCEPT !.aborted = TRUE]
    BY <1>3 DEF Aborting
  <2>2. Aborting(cs)[x] \in Task
    BY <1>1, <1>3, <2>1 DEF Task
  <2> QED
    BY <1>1, <1>3, <2>1, <2>2, NoneAssumption DEF Task
<1>4. CASE tasks[x] # None /\ x \notin cs
  BY <1>4 DEF Aborting
<1> QED
  BY <1>2, <1>3, <1>4

\* What is left of the tasks of a component that goes.
LEMMA UnmountKeeps ==
    ASSUME TypeOK, NEW ts, Unmount(ts), NEW x \in Controller, ts[x] \in {tasks[x], None}, tasks'[x] # None
    PROVE  /\ tasks[x] # None /\ Survives(tasks[x]) /\ ~tasks'[x].live
           /\ tasks'[x].kind = tasks[x].kind /\ tasks'[x].step = tasks[x].step
           /\ tasks'[x].account = tasks[x].account
           /\ tasks'[x].deposit = tasks[x].deposit /\ tasks'[x].balance = tasks[x].balance
<1>1. ts[x] # None /\ ts[x] = tasks[x] /\ Survives(tasks[x])
  BY DEF Unmount
<1>2. tasks'[x] = [tasks[x] EXCEPT !.live = FALSE, !.aborted = @ \/ x \in {page.flow, page.polling}]
  BY <1>1 DEF Unmount
<1>3. tasks[x] \in Task
  BY <1>1 DEF TypeOK
<1> QED
  BY <1>1, <1>2, <1>3 DEF Task

LEMMA UnmountPreserves ==
    ASSUME AnchorInv, TypeOK', NEW ts, \A x \in Controller : ts[x] \in {tasks[x], None}, Unmount(ts),
           saved' \in {saved, None}, deposits' = deposits
    PROVE  AnchorInv'
<1>1. page' = Blank(FALSE, None) /\ TypeOK
  BY DEF Unmount, AnchorInv
<1>2. /\ ~page'.mounted /\ ~page'.busy /\ page'.flow = None /\ page'.polling = None /\ page'.offered = None
      /\ page'.state.name = "IDLE" /\ ~page'.state.priced /\ ~page'.state.ticket
      /\ page'.state.deposit = None /\ page'.state.balance = None
  BY <1>1 DEF Blank, Initial
<1>3. \A x \in Controller : tasks'[x] # None =>
        /\ tasks[x] # None /\ Survives(tasks[x]) /\ ~tasks'[x].live
        /\ tasks'[x].kind = tasks[x].kind /\ tasks'[x].step = tasks[x].step
        /\ tasks'[x].account = tasks[x].account
        /\ tasks'[x].deposit = tasks[x].deposit /\ tasks'[x].balance = tasks[x].balance
  BY <1>1, UnmountKeeps
<1>4. PageFits'
  BY <1>1, <1>2 DEF PageFits
<1>5. TasksFit'
  BY <1>3 DEF AnchorInv, TasksFit, Survives
<1>6. DepositsKnown'
  BY <1>2, <1>3 DEF AnchorInv, DepositsKnown, TrueRecord, Opened, Claimable
<1>7. FlowRef' /\ PollRef' /\ ScreenFits' /\ ClaimFits'
  BY <1>2, <1>3 DEF FlowRef, PollRef, ScreenFits, ClaimFits, Running, RunningFlow, RunningPoll
<1>8. StateFits'
  BY <1>2 DEF StateFits, Waits, Waiting
<1> QED
  BY <1>4, <1>5, <1>6, <1>7, <1>8 DEF AnchorInv

-----------------------------------------------------------------------------
(* The invariant: a flow begins *)

\* A new task in a free controller, with some others aborted.
LEMMA TaskAdded ==
    ASSUME TypeOK, NEW cs, NEW n \in Controller, NEW t \in Task, tasks' = [Aborting(cs) EXCEPT ![n] = t]
    PROVE  /\ tasks'[n] = t /\ tasks'[n] # None
           /\ \A x \in Controller \ {n} :
                /\ tasks'[x] = None <=> tasks[x] = None
                /\ tasks[x] # None =>
                     /\ tasks'[x].kind = tasks[x].kind /\ tasks'[x].step = tasks[x].step
                     /\ tasks'[x].account = tasks[x].account /\ tasks'[x].live = tasks[x].live
                     /\ tasks'[x].deposit = tasks[x].deposit /\ tasks'[x].balance = tasks[x].balance
                     /\ tasks'[x].aborted <=> tasks[x].aborted \/ x \in cs
<1>1. Aborting(cs) \in [Controller -> Task \cup {None}]
  BY AbortingType
<1>2. tasks'[n] = t /\ \A x \in Controller \ {n} : tasks'[x] = Aborting(cs)[x]
  BY <1>1
<1> QED
  BY <1>2, AbortingKeeps, NoneAssumption

LEMMA ControllerIsSome == \A c \in Controller : c # None
  BY AnchorAssumption DEF Controller

LEMMA BeginFlowPreserves ==
    ASSUME AnchorInv, TypeOK',
           NEW kind \in FlowKind, NEW step \in Step, NEW next \in State,
           NEW d \in DepositId \cup {None}, NEW b \in DepositId \cup {None},
           BeginFlow(kind, step, d, b, next),
           Suits(kind, step), step \notin {"ticket", "landed"},
           kind \notin {"price", "open"} => d # None,
           kind = "claim" => b # None /\ d = page.state.deposit /\ page.state.name = "CLAIM_REQUIRED",
           kind = "resume" /\ saved # None => d = saved.deposit /\ saved.account = address,
           Opened(d), Claimable(b),
           next = [page.state EXCEPT !.name = next.name],
           StateIsFlows(next.name, next.priced, kind, step),
           kind \in {"price", "open"} \/ next.name = page.state.name,
           kind \in {"price", "open"} =>
               /\ page.state.name \in {"IDLE", "PRICING"}
               /\ next.name \in {"DISCOVERING", "AUTHENTICATING"}
               /\ next.name = "DISCOVERING" => ~page.state.priced
    PROVE  AnchorInv'
<1> DEFINE n == NextController
<1>0. /\ TypeOK /\ page \in Page /\ page.state \in State
      /\ PageFits /\ TasksFit /\ DepositsKnown /\ FlowRef /\ PollRef /\ StateFits /\ ScreenFits /\ ClaimFits
  BY DEF AnchorInv, TypeOK, Page
<1>1. n \in Controller /\ tasks[n] = None
  BY FreeTask DEF BeginFlow
<1>2. page.mounted /\ ~page.busy /\ address # None /\ UNCHANGED <<address, saved, deposits>>
  BY <1>0 DEF BeginFlow, PageFits
<1>3. /\ page'.mounted = page.mounted /\ page'.flow = n /\ page'.busy = TRUE /\ page'.state = next
      /\ page'.polling = page.polling /\ page'.offered = page.offered /\ page'.warning = page.warning
  BY <1>0 DEF BeginFlow, Page
<1>4. /\ next.deposit = page.state.deposit /\ next.balance = page.state.balance /\ next.ticket = page.state.ticket
      /\ next.priced = page.state.priced
  BY <1>0 DEF State
<1>5. NewTask(kind, step, d, b) \in Task
  BY <1>0, <1>2, NewTaskType
<1>6. tasks' = [Aborting({page.flow}) EXCEPT ![n] = NewTask(kind, step, d, b)]
  BY DEF BeginFlow
<1> HIDE DEF n
<1>7. /\ tasks'[n] # None
      /\ tasks'[n].kind = kind /\ tasks'[n].step = step /\ tasks'[n].account = address
      /\ tasks'[n].deposit = d /\ tasks'[n].balance = b /\ tasks'[n].live = TRUE /\ tasks'[n].aborted = FALSE
  <2>1. tasks'[n] = NewTask(kind, step, d, b)
    BY <1>0, <1>1, <1>6, AbortingType
  <2>2. tasks'[n] # None
    BY <2>1, <1>5, NoneAssumption
  <2> QED
    BY <2>1, <2>2 DEF NewTask
<1>8. \A x \in Controller \ {n} :
        /\ tasks'[x] = None <=> tasks[x] = None
        /\ tasks[x] # None =>
             /\ tasks'[x].kind = tasks[x].kind /\ tasks'[x].step = tasks[x].step
             /\ tasks'[x].account = tasks[x].account /\ tasks'[x].live = tasks[x].live
             /\ tasks'[x].deposit = tasks[x].deposit /\ tasks'[x].balance = tasks[x].balance
             /\ tasks'[x].aborted <=> tasks[x].aborted \/ x \in {page.flow}
  BY <1>0, <1>1, <1>5, <1>6, TaskAdded, ZenonT(40)
<1>9. \A x \in Controller : ~RunningFlow(x)
  BY <1>0, <1>2 DEF FlowRef
<1>10. PageFits' /\ TasksFit'
  BY <1>0, <1>2, <1>3, <1>7, <1>8 DEF PageFits, TasksFit
<1>11. DepositsKnown'
  <2>1. \A x \in Controller : tasks'[x] # None =>
          /\ Opened(tasks'[x].deposit) /\ Claimable(tasks'[x].balance)
          /\ tasks'[x].step = "ticket" => deposits[tasks'[x].deposit].account = tasks'[x].account
          /\ tasks'[x].step = "landed" => deposits[tasks'[x].balance].claimed
    BY <1>0, <1>7, <1>8 DEF DepositsKnown
  <2> QED
    BY <1>0, <1>2, <1>3, <1>4, <2>1 DEF DepositsKnown, TrueRecord, Opened, Claimable
<1>12. FlowRef'
  <2>1. \A x \in Controller \ {n} : ~RunningFlow(x)'
    BY <1>8, <1>9 DEF Running, RunningFlow
  <2> QED
    BY <1>1, <1>3, <1>7, <2>1, ControllerIsSome DEF FlowRef
<1>13. PollRef'
  <2>1. page.polling # n
    BY <1>0, <1>1, ControllerIsSome DEF PollRef
  <2>2. step # "poll"
    BY DEF Suits, FlowKind
  <2>3. page.polling \in Controller \cup {None}
    BY <1>0 DEF Page
  <2> QED
    BY <1>0, <1>3, <1>7, <1>8, <2>1, <2>2, <2>3 DEF PollRef, Running, RunningPoll
<1>14. StateFits'
  BY <1>0, <1>3, <1>4, <1>7 DEF StateFits, Waits, Waiting
<1>15. ScreenFits'
  <2>1. \A x \in Controller \ {n} : Running(x)' => Running(x)
    BY <1>8 DEF Running
  <2> QED
    BY <1>0, <1>2, <1>3, <1>4, <1>7, <1>8, <2>1 DEF ScreenFits, FlowKind
<1>16. ClaimFits'
  BY <1>0, <1>3, <1>7, <1>8, <1>9 DEF ClaimFits, Running, RunningFlow, FlowKind
<1> QED
  BY <1>10, <1>11, <1>12, <1>13, <1>14, <1>15, <1>16 DEF AnchorInv

\* What every proof of a step starts from.
LEMMA Known ==
    ASSUME AnchorInv
    PROVE  /\ TypeOK /\ page \in Page /\ page.state \in State /\ tasks \in [Controller -> Task \cup {None}]
           /\ PageFits /\ TasksFit /\ DepositsKnown /\ FlowRef /\ PollRef /\ StateFits /\ ScreenFits /\ ClaimFits
           /\ page.mounted => address # None
           /\ page.state.name # "IDLE" \/ page.offered # None => page.mounted
  BY DEF AnchorInv, TypeOK, Page, PageFits, Blank, Initial

LEMMA UserFlowPreserves ==
    ASSUME AnchorInv, TypeOK', CheckRate \/ OpenDeposit \/ ResumeDeposit \/ SimulateTransfer \/ ClaimBalance
    PROVE  AnchorInv'
<1>0. /\ page \in Page /\ page.state \in State /\ DepositsKnown /\ StateFits /\ ScreenFits
      /\ page.state.deposit \in DepositId \cup {None} /\ page.state.balance \in DepositId \cup {None}
  BY Known DEF State
<1>1. CASE CheckRate
  <2>1. page.state = Initial
    BY <1>0, <1>1 DEF CheckRate, StateFits, State, Initial
  <2>2. Started = [page.state EXCEPT !.name = Started.name] /\ Started.name = "DISCOVERING" /\ ~Started.priced
    BY <2>1 DEF Started, Initial
  <2>3. StateIsFlows(Started.name, Started.priced, "price", "discover")
    BY <2>2 DEF StateIsFlows
  <2> QED
    BY <1>1, <2>1, <2>2, <2>3, BeginFlowPreserves, FreshStates
       DEF CheckRate, FlowKind, Step, Suits, Opened, Claimable, Initial
<1>2. CASE OpenDeposit
  <2> DEFINE next == Authenticate(page.state)
  <2>1. next = [page.state EXCEPT !.name = "AUTHENTICATING"] /\ page.state.name = "PRICING"
    BY <1>2 DEF OpenDeposit, Authenticate
  <2>2. next \in State /\ next.name = "AUTHENTICATING" /\ next = [page.state EXCEPT !.name = next.name]
    BY <1>0, <2>1, ReducerTypes DEF State
  <2>3. BeginFlow("open", "sign_in", None, None, next)
    BY <1>2 DEF OpenDeposit
  <2> HIDE DEF next
  <2>4. StateIsFlows(next.name, next.priced, "open", "sign_in")
    BY <2>2 DEF StateIsFlows
  <2> QED
    BY <2>1, <2>2, <2>3, <2>4, BeginFlowPreserves DEF FlowKind, Step, Suits, Opened, Claimable
<1>3. CASE ResumeDeposit
  <2>1. page.state.name = "IDLE" /\ page.offered # None /\ page.offered.account = address /\ page.mounted
    BY <1>3 DEF ResumeDeposit, Resumable, BeginFlow
  <2>2. page.offered.deposit \in DepositId /\ page.offered.balance \in DepositId \cup {None}
    BY <1>0, <2>1 DEF Page, Record
  <2>3. page.offered.deposit # None
    BY <2>2, AnchorAssumption
  <2>4. Opened(page.offered.deposit) /\ Claimable(page.offered.balance)
    BY <1>0, <2>1 DEF DepositsKnown, TrueRecord
  <2>5. saved # None => page.offered.deposit = saved.deposit /\ saved.account = address
    BY <1>0, <2>1 DEF ScreenFits
  <2>6. page.state = [page.state EXCEPT !.name = page.state.name]
    BY <1>0 DEF State
  <2>7. StateIsFlows(page.state.name, page.state.priced, "resume", "discover")
    BY <2>1 DEF StateIsFlows
  <2> QED
    BY <1>0, <1>3, <2>1, <2>2, <2>3, <2>4, <2>5, <2>6, <2>7, BeginFlowPreserves
       DEF ResumeDeposit, FlowKind, Step, Suits
<1>4. CASE SimulateTransfer
  <2>1. page.state.deposit # None /\ page.state.name \notin
          {"IDLE", "DISCOVERING", "PRICING", "AUTHENTICATING", "QUOTING", "DEPOSIT_STARTED"}
    BY <1>0, <1>4 DEF SimulateTransfer, StateFits
  <2>2. Opened(page.state.deposit)
    BY <1>0 DEF DepositsKnown
  <2>3. page.state = [page.state EXCEPT !.name = page.state.name]
    BY <1>0 DEF State
  <2>4. StateIsFlows(page.state.name, page.state.priced, "transfer", "transfer")
    BY <2>1 DEF StateIsFlows
  <2> QED
    BY <1>0, <1>4, <2>1, <2>2, <2>3, <2>4, BeginFlowPreserves
       DEF SimulateTransfer, FlowKind, Step, Suits, Claimable
<1>5. CASE ClaimBalance
  <2>1. page.state.name = "CLAIM_REQUIRED" /\ page.state.balance # None /\ page.state.deposit # None
    BY <1>0, <1>5 DEF ClaimBalance, StateFits
  <2>2. Opened(page.state.deposit) /\ Claimable(page.state.balance)
    BY <1>0 DEF DepositsKnown
  <2>3. page.state = [page.state EXCEPT !.name = page.state.name]
    BY <1>0 DEF State
  <2>4. StateIsFlows(page.state.name, page.state.priced, "claim", "load")
    BY <2>1 DEF StateIsFlows
  <2> QED
    BY <1>0, <1>5, <2>1, <2>2, <2>3, <2>4, BeginFlowPreserves DEF ClaimBalance, FlowKind, Step, Suits
<1> QED
  BY <1>1, <1>2, <1>3, <1>4, <1>5

-----------------------------------------------------------------------------
(* The invariant: a poll begins *)

\* What a poll of the screen that begins in controller c does to the page and to the tasks.
LEMMA PollShown ==
    ASSUME TypeOK, NEW p \in Page, NEW c \in Controller, NEW kind \in {"enable", "poll"},
           NEW d \in DepositId, address # None, BeginPoll(p, c, kind, d)
    PROVE  /\ page'.mounted = p.mounted /\ page'.state = p.state /\ page'.busy = p.busy /\ page'.flow = p.flow
           /\ page'.offered = p.offered /\ page'.polling = c
  BY DEF BeginPoll, Page

LEMMA PollTask ==
    ASSUME TypeOK, NEW p \in Page, NEW c \in Controller, NEW kind \in {"enable", "poll"},
           NEW d \in DepositId, address # None, BeginPoll(p, c, kind, d)
    PROVE  /\ tasks'[c] # None
           /\ tasks'[c].kind = kind /\ tasks'[c].step = "poll" /\ tasks'[c].account = address
           /\ tasks'[c].deposit = d /\ tasks'[c].balance = None /\ tasks'[c].live = TRUE /\ tasks'[c].aborted = FALSE
<1>1. NewTask(kind, "poll", d, None) \in Task
  BY NewTaskType DEF Step
<1>2. tasks'[c] = NewTask(kind, "poll", d, None)
  BY AbortingType DEF BeginPoll
<1>3. tasks'[c] # None
  BY <1>1, <1>2, NoneAssumption
<1> QED
  BY <1>2, <1>3 DEF NewTask

LEMMA PollBeside ==
    ASSUME TypeOK, NEW p \in Page, NEW c \in Controller, NEW kind \in {"enable", "poll"},
           NEW d \in DepositId, address # None, BeginPoll(p, c, kind, d)
    PROVE  \A x \in Controller \ {c} :
             /\ tasks'[x] = None <=> tasks[x] = None
             /\ tasks[x] # None =>
                  /\ tasks'[x].kind = tasks[x].kind /\ tasks'[x].step = tasks[x].step
                  /\ tasks'[x].account = tasks[x].account /\ tasks'[x].live = tasks[x].live
                  /\ tasks'[x].deposit = tasks[x].deposit /\ tasks'[x].balance = tasks[x].balance
                  /\ tasks'[x].aborted <=> tasks[x].aborted \/ x \in {p.polling}
<1>1. NewTask(kind, "poll", d, None) \in Task
  BY NewTaskType DEF Step
<1>2. tasks' = [Aborting({p.polling}) EXCEPT ![c] = NewTask(kind, "poll", d, None)]
  BY DEF BeginPoll
<1> QED
  BY <1>1, <1>2, TaskAdded

\* The saved record after the step is true, and it is the one that p offers.
RecordFits(p) ==
    /\ TrueRecord(saved)' /\ TrueRecord(p.offered)
    /\ saved' # None =>
         p.offered # None /\ p.offered.deposit = saved'.deposit /\ p.offered.account = saved'.account

\* A poll beside the flow: of a paused page, or of a trustline's callback.
PollIsAdded(p, c, kind, d) ==
    /\ page.flow # c /\ p.flow = page.flow /\ p.busy = page.busy /\ p.state = page.state
    /\ saved' = saved /\ (kind = "poll" => d = page.state.deposit)

\* The running flow ends as a poll, of the deposit it has brought onto the screen.
FlowTurnsIntoPoll(p, c, d) ==
    /\ RunningFlow(c) /\ p.flow = None /\ ~p.busy /\ p.state.name = "AWAITING_BANK_TRANSFER"
    /\ p.state.deposit = d /\ p.state.balance = None
    /\ saved' # None => saved'.deposit = d /\ saved'.account = address

LEMMA BeginPollPreserves ==
    ASSUME AnchorInv, TypeOK', NEW p \in Page, NEW c \in Controller, NEW kind \in {"enable", "poll"},
           NEW d \in DepositId, BeginPoll(p, c, kind, d), UNCHANGED <<address, deposits>>,
           page.mounted, p.mounted, p.polling = page.polling, page.polling # c, Opened(d),
           RecordFits(p), PollIsAdded(p, c, kind, d) \/ FlowTurnsIntoPoll(p, c, d)
    PROVE  AnchorInv'
<1>0. /\ TypeOK /\ page \in Page /\ page.state \in State
      /\ PageFits /\ TasksFit /\ DepositsKnown /\ FlowRef /\ PollRef /\ StateFits /\ ScreenFits /\ ClaimFits
      /\ address # None
  BY Known
<1>1. /\ page'.mounted = p.mounted /\ page'.state = p.state /\ page'.busy = p.busy /\ page'.flow = p.flow
      /\ page'.offered = p.offered /\ page'.polling = c
  BY <1>0, PollShown
<1>2. /\ tasks'[c] # None
      /\ tasks'[c].kind = kind /\ tasks'[c].step = "poll" /\ tasks'[c].account = address
      /\ tasks'[c].deposit = d /\ tasks'[c].balance = None /\ tasks'[c].live = TRUE /\ tasks'[c].aborted = FALSE
  BY <1>0, PollTask, ZenonT(40)
<1>3. \A x \in Controller \ {c} :
        /\ tasks'[x] = None <=> tasks[x] = None
        /\ tasks[x] # None =>
             /\ tasks'[x].kind = tasks[x].kind /\ tasks'[x].step = tasks[x].step
             /\ tasks'[x].account = tasks[x].account /\ tasks'[x].live = tasks[x].live
             /\ tasks'[x].deposit = tasks[x].deposit /\ tasks'[x].balance = tasks[x].balance
             /\ tasks'[x].aborted <=> tasks[x].aborted \/ x \in {p.polling}
  BY <1>0, PollBeside
<1>4. d # None /\ c # None
  BY ControllerIsSome, AnchorAssumption
<1>5. \A x \in Controller \ {c} : Running(x)' => Running(x) /\ page.polling # x
  BY <1>3 DEF Running
<1>6. \A x \in Controller \ {c} : tasks'[x] # None /\ tasks'[x].step = "poll" => ~Running(x)'
  BY <1>0, <1>3, <1>5 DEF PollRef, RunningPoll, Running
<1>7. PollIsAdded(p, c, kind, d) \/ FlowTurnsIntoPoll(p, c, d)
  OBVIOUS
<1>8. FlowTurnsIntoPoll(p, c, d) => \A x \in Controller \ {c} : ~RunningFlow(x)
  BY <1>0 DEF FlowRef, FlowTurnsIntoPoll
<1>9. PageFits' /\ TasksFit'
  BY <1>0, <1>1, <1>2, <1>3, <1>4 DEF PageFits, TasksFit, Suits
<1>10. DepositsKnown'
  <2>1. Opened(p.state.deposit) /\ Claimable(p.state.balance)
    BY <1>0, <1>7 DEF PollIsAdded, FlowTurnsIntoPoll, DepositsKnown, Claimable
  <2>2. \A x \in Controller : tasks'[x] # None =>
          /\ Opened(tasks'[x].deposit) /\ Claimable(tasks'[x].balance)
          /\ tasks'[x].step = "ticket" => deposits[tasks'[x].deposit].account = tasks'[x].account
          /\ tasks'[x].step = "landed" => deposits[tasks'[x].balance].claimed
    BY <1>0, <1>2, <1>3 DEF DepositsKnown, Claimable
  <2> QED
    BY <1>1, <2>1, <2>2 DEF RecordFits, DepositsKnown, TrueRecord, Opened, Claimable
<1>11. FlowRef'
  <2>1. CASE PollIsAdded(p, c, kind, d)
    <3>1. page.flow # None => tasks'[page.flow] # None /\ tasks'[page.flow].live /\ tasks'[page.flow].kind \in FlowKind
                              /\ (tasks'[page.flow].aborted <=> tasks[page.flow].aborted)
      <4>1. page.flow # None => page.flow \in Controller \ {c} /\ tasks[page.flow].kind \in FlowKind
        BY <1>0, <2>1 DEF PollIsAdded, FlowRef, Page
      <4>2. page.flow # None => page.flow # page.polling
        BY <1>0, <4>1 DEF FlowRef, PollRef, TasksFit, Suits, FlowKind
      <4> QED
        BY <1>0, <1>3, <4>1, <4>2 DEF FlowRef
    <3>2. \A x \in Controller : RunningFlow(x)' => x # c /\ RunningFlow(x)
      BY <1>2, <1>3, <1>5 DEF RunningFlow, Running, FlowKind
    <3>3. page'.flow = page.flow /\ page'.busy = page.busy
      BY <1>1, <2>1 DEF PollIsAdded
    <3> QED
      BY <1>0, <3>1, <3>2, <3>3 DEF FlowRef
  <2>2. CASE FlowTurnsIntoPoll(p, c, d)
    <3>1. \A x \in Controller : ~RunningFlow(x)'
      BY <1>2, <1>3, <1>5, <1>8, <2>2 DEF RunningFlow, Running, FlowKind
    <3>2. page'.flow = None /\ ~page'.busy
      BY <1>1, <2>2 DEF FlowTurnsIntoPoll
    <3> QED
      BY <3>1, <3>2 DEF FlowRef
  <2> QED
    BY <1>7, <2>1, <2>2
<1>12. PollRef'
  BY <1>1, <1>2, <1>3, <1>6 DEF PollRef, RunningPoll, Running
<1>13. StateFits'
  <2>1. CASE PollIsAdded(p, c, kind, d)
    <3>1. page.busy => page.flow \in Controller \ {c} /\ tasks[page.flow] # None
      BY <1>0, <2>1 DEF PollIsAdded, FlowRef, Page
    <3>2. page.busy => tasks'[page.flow].kind = tasks[page.flow].kind /\ tasks'[page.flow].step = tasks[page.flow].step
      BY <1>3, <3>1
    <3> QED
      BY <1>0, <1>1, <2>1, <3>2 DEF PollIsAdded, StateFits
  <2>2. CASE FlowTurnsIntoPoll(p, c, d)
    BY <1>1, <1>4, <2>2 DEF FlowTurnsIntoPoll, StateFits, Waits
  <2> QED
    BY <1>7, <2>1, <2>2
<1>14. ScreenFits'
  <2>1. CASE PollIsAdded(p, c, kind, d)
    BY <1>0, <1>1, <1>2, <1>3, <1>5, <2>1 DEF PollIsAdded, RecordFits, ScreenFits, FlowKind
  <2>2. CASE FlowTurnsIntoPoll(p, c, d)
    <3>1. \A x \in Controller \ {c} : Running(x)' => tasks'[x].kind \notin {"poll", "claim", "resume"}
      BY <1>0, <1>3, <1>5, <1>6, <1>8, <2>2 DEF Running, RunningFlow, FlowKind, TasksFit, Suits
    <3> QED
      BY <1>1, <1>2, <2>2, <3>1 DEF FlowTurnsIntoPoll, RecordFits, ScreenFits
  <2> QED
    BY <1>7, <2>1, <2>2
<1>15. ClaimFits'
  <2>1. \A x \in Controller \ {c} : tasks[x] # None /\ tasks[x].live /\ tasks[x].kind = "claim" => x # page.polling
    BY <1>0, ControllerIsSome DEF PollRef, TasksFit, Suits
  <2>2. CASE PollIsAdded(p, c, kind, d)
    BY <1>0, <1>1, <1>2, <1>3, <2>1, <2>2 DEF PollIsAdded, ClaimFits
  <2>3. CASE FlowTurnsIntoPoll(p, c, d)
    BY <1>0, <1>2, <1>3, <1>8, <2>3 DEF ClaimFits, RunningFlow, Running, FlowKind
  <2> QED
    BY <1>7, <2>2, <2>3
<1> QED
  BY <1>9, <1>10, <1>11, <1>12, <1>13, <1>14, <1>15 DEF AnchorInv

-----------------------------------------------------------------------------
(* The invariant: a task ends *)

\* What is never taken back of a deposit.
DepositsKept ==
    /\ Len(deposits) \in Nat /\ Len(deposits') \in Nat /\ Len(deposits) <= Len(deposits')
    /\ \A d \in 1..Len(deposits) :
         /\ deposits'[d].account = deposits[d].account
         /\ deposits[d].status = "claimable" => deposits'[d].status = "claimable"
         /\ deposits[d].claimed => deposits'[d].claimed

LEMMA KnownStays ==
    ASSUME DepositsKept, NEW d
    PROVE  /\ Opened(d) => Opened(d)'
           /\ Claimable(d) => Claimable(d)'
           /\ Opened(d) /\ d # None => deposits'[d].account = deposits[d].account
           /\ Claimable(d) /\ d # None /\ deposits[d].claimed => deposits'[d].claimed
  BY DEF DepositsKept, Opened, Claimable

LEMMA DepositsSame == ASSUME TypeOK, deposits' = deposits PROVE DepositsKept
  BY DEF TypeOK, DepositsKept

\* The refs of the component let go of a task that ends.
RefsLetGo(c) ==
    /\ page'.mounted = page.mounted
    /\ page'.flow = IF page.flow = c THEN None ELSE page.flow
    /\ page'.busy = IF page.flow = c THEN FALSE ELSE page.busy
    /\ page'.polling = IF page.polling = c THEN None ELSE page.polling

LEMMA EndedTask ==
    ASSUME TypeOK, NEW c \in Controller, tasks' = Ended(c)
    PROVE  tasks'[c] = None /\ \A x \in Controller \ {c} : tasks'[x] = tasks[x]
  BY DEF TypeOK, Ended

LEMMA EndedRefs ==
    ASSUME AnchorInv, NEW c \in Controller, tasks' = Ended(c), RefsLetGo(c), UNCHANGED address,
           page.mounted \/ page' = page
    PROVE  PageFits' /\ TasksFit' /\ FlowRef' /\ PollRef'
<1>0. TypeOK /\ page \in Page /\ PageFits /\ TasksFit /\ FlowRef /\ PollRef
  BY Known
<1>1. tasks'[c] = None /\ \A x \in Controller \ {c} : tasks'[x] = tasks[x]
  BY <1>0, EndedTask
<1>2. page.flow \in Controller \cup {None} /\ page.polling \in Controller \cup {None}
  BY <1>0 DEF Page
<1>3. PageFits' /\ TasksFit'
  BY <1>0, <1>1, ZenonT(40) DEF RefsLetGo, PageFits, TasksFit
<1>4. FlowRef'
  BY <1>0, <1>1, <1>2 DEF RefsLetGo, FlowRef, RunningFlow, Running
<1>5. PollRef'
  BY <1>0, <1>1, <1>2 DEF RefsLetGo, PollRef, RunningPoll, Running
<1> QED
  BY <1>3, <1>4, <1>5

\* A deposit that tasks remember is known, whatever task ends.
LEMMA EndedDeposits ==
    ASSUME AnchorInv, NEW c \in Controller, tasks' = Ended(c), DepositsKept,
           TrueRecord(saved)', TrueRecord(page.offered)', Opened(page.state.deposit)', Claimable(page.state.balance)'
    PROVE  DepositsKnown'
<1>0. TypeOK /\ TasksFit /\ DepositsKnown
  BY Known
<1>1. tasks'[c] = None /\ \A x \in Controller \ {c} : tasks'[x] = tasks[x]
  BY <1>0, EndedTask
<1>2. ASSUME NEW x \in Controller, tasks'[x] # None
      PROVE  /\ Opened(tasks[x].deposit)' /\ Claimable(tasks[x].balance)'
             /\ tasks'[x].step = "ticket" => deposits'[tasks'[x].deposit].account = tasks'[x].account
             /\ tasks'[x].step = "landed" => deposits'[tasks'[x].balance].claimed
  <2>1. tasks'[x] = tasks[x] /\ tasks[x] # None
    BY <1>1, <1>2
  <2>2. /\ Opened(tasks[x].deposit) /\ Claimable(tasks[x].balance)
        /\ tasks[x].step = "ticket" => deposits[tasks[x].deposit].account = tasks[x].account
        /\ tasks[x].step = "landed" => deposits[tasks[x].balance].claimed
    BY <1>0, <2>1 DEF DepositsKnown
  <2>3. (tasks[x].step = "ticket" => tasks[x].deposit # None) /\ (tasks[x].step = "landed" => tasks[x].balance # None)
    BY <1>0, <2>1 DEF TasksFit, Suits
  <2> QED
    BY <2>1, <2>2, <2>3 DEF DepositsKept, Opened, Claimable
<1> QED
  BY <1>2 DEF DepositsKnown

LEMMA KnownPage ==
    ASSUME AnchorInv, DepositsKept, saved' = saved, page'.offered = page.offered, page'.state = page.state
    PROVE  /\ TrueRecord(saved)' /\ TrueRecord(page.offered)'
           /\ Opened(page.state.deposit)' /\ Claimable(page.state.balance)'
<1>1. DepositsKnown /\ TypeOK
  BY Known
<1>2. \A r \in Record \cup {None} : TrueRecord(r) => TrueRecord(r)'
  <2> SUFFICES ASSUME NEW r \in Record, TrueRecord(r), r # None PROVE TrueRecord(r)'
    BY DEF TrueRecord
  <2>1. r.deposit # None
    BY AnchorAssumption DEF Record
  <2> QED
    BY <2>1 DEF TrueRecord, DepositsKept, Opened, Claimable
<1>3. saved \in Record \cup {None} /\ page.offered \in Record \cup {None}
  BY <1>1 DEF TypeOK, Page
<1>4. TrueRecord(saved) /\ TrueRecord(page.offered) /\ Opened(page.state.deposit) /\ Claimable(page.state.balance)
  BY <1>1 DEF DepositsKnown
<1>5. TrueRecord(saved)' /\ TrueRecord(page.offered)'
  BY <1>2, <1>3, <1>4 DEF TrueRecord
<1>6. Opened(page.state.deposit)' /\ Claimable(page.state.balance)'
  BY <1>4 DEF DepositsKept, Opened, Claimable
<1> QED
  BY <1>5, <1>6

\* A task ends and leaves the state and the record as they are.
LEMMA EndsQuietly ==
    ASSUME AnchorInv, TypeOK', NEW c \in Controller, tasks[c] # None, tasks' = Ended(c), RefsLetGo(c),
           DepositsKept, UNCHANGED <<address, saved>>,
           page'.offered = page.offered, page'.state = page.state, page.mounted \/ page' = page,
           page.flow = c => tasks[c].aborted \/ tasks[c].kind \notin {"price", "open"}
    PROVE  AnchorInv'
<1>0. TypeOK /\ page \in Page /\ FlowRef /\ StateFits /\ ScreenFits /\ ClaimFits
  BY Known
<1>1. tasks'[c] = None /\ \A x \in Controller \ {c} : tasks'[x] = tasks[x]
  BY <1>0, EndedTask
<1>2. PageFits' /\ TasksFit' /\ FlowRef' /\ PollRef'
  BY EndedRefs
<1>3. DepositsKnown'
  BY KnownPage, EndedDeposits
<1>4. StateFits'
  <2>1. page.flow \in Controller \cup {None}
    BY <1>0 DEF Page
  <2>2. CASE page.flow = c
    <3>1. ~page'.busy
      BY <2>2 DEF RefsLetGo
    <3>2. ~Waits(page.state.name, page.state.priced)
      BY <1>0, <2>2 DEF FlowRef, StateFits, StateIsFlows, Waits
    <3> QED
      BY <1>0, <3>1, <3>2 DEF StateFits, Waits
  <2>3. CASE page.flow # c
    <3>1. page'.busy = page.busy /\ page'.flow = page.flow /\ (page.busy => tasks'[page.flow] = tasks[page.flow])
      BY <1>0, <1>1, <2>1, <2>3 DEF RefsLetGo, FlowRef
    <3> QED
      BY <1>0, <3>1 DEF StateFits, Waits
  <2> QED
    BY <2>2, <2>3
<1>5. ScreenFits' /\ ClaimFits'
  BY <1>0, <1>1 DEF RefsLetGo, ScreenFits, ClaimFits, Running
<1> QED
  BY <1>2, <1>3, <1>4, <1>5 DEF AnchorInv

\* The refs after a finally clause, and those of a component that is gone.
LEMMA FinishFlowIs ==
    ASSUME NEW p \in Page, NEW c \in Controller
    PROVE  /\ FinishFlow(p, c) \in Page
           /\ FinishFlow(p, c).mounted = p.mounted /\ FinishFlow(p, c).state = p.state
           /\ FinishFlow(p, c).offered = p.offered /\ FinishFlow(p, c).polling = p.polling
           /\ FinishFlow(p, c).flow = IF p.flow = c THEN None ELSE p.flow
           /\ FinishFlow(p, c).busy = IF p.flow = c THEN FALSE ELSE p.busy
  BY DEF FinishFlow, Page

LEMMA EndPollIs ==
    ASSUME NEW p \in Page, NEW c \in Controller
    PROVE  /\ EndPoll(p, c) \in Page
           /\ EndPoll(p, c).mounted = p.mounted /\ EndPoll(p, c).state = p.state
           /\ EndPoll(p, c).offered = p.offered /\ EndPoll(p, c).flow = p.flow /\ EndPoll(p, c).busy = p.busy
           /\ EndPoll(p, c).polling = IF p.polling = c THEN None ELSE p.polling
  BY DEF EndPoll, Page

LEMMA RefsOfDead ==
    ASSUME AnchorInv, NEW c \in Controller, tasks[c] # None, ~tasks[c].live, page' = page
    PROVE  RefsLetGo(c) /\ page.flow # c /\ page.polling # c
<1>1. page.flow # c /\ page.polling # c
  BY ControllerIsSome DEF AnchorInv, FlowRef, PollRef
<1> QED
  BY <1>1 DEF RefsLetGo

LEMMA OtherRef ==
    ASSUME AnchorInv, NEW c \in Controller, tasks[c] # None
    PROVE  /\ tasks[c].step # "poll" => page.polling # c
           /\ tasks[c].kind \notin FlowKind => page.flow # c
           /\ tasks[c].live => page.mounted
  BY ControllerIsSome DEF AnchorInv, FlowRef, PollRef, TasksFit

LEMMA QuietPreserves ==
    ASSUME AnchorInv, TypeOK', NEW c \in Controller,
           \/ TransferAnswered(c) \/ UsdcFailed(c) \/ AbortedReturns(c) \/ PollFails(c)
           \/ FlowFails(c) /\ ~(tasks[c].live /\ tasks[c].kind \in {"price", "open", "resume"})
    PROVE  AnchorInv'
<1>0. TypeOK /\ page \in Page
  BY Known
<1>1. CASE TransferAnswered(c)
  <2>1. tasks[c] # None /\ tasks[c].kind = "transfer" /\ tasks[c].step = "transfer"
    BY <1>1 DEF TransferAnswered, At
  <2>2. tasks[c].live /\ page.mounted
    BY <2>1 DEF AnchorInv, TasksFit
  <2>3. page' = FinishFlow(page, c) /\ tasks' = Ended(c) /\ UNCHANGED <<address, saved, deposits>>
    BY <1>1, <2>2 DEF TransferAnswered, Shows
  <2>4. page.polling # c
    BY <2>1, OtherRef
  <2>5. RefsLetGo(c) /\ page'.state = page.state /\ page'.offered = page.offered
    BY <1>0, <2>3, <2>4, FinishFlowIs DEF RefsLetGo
  <2>6. DepositsKept
    BY <1>0, <2>3, DepositsSame
  <2> QED
    BY <2>1, <2>2, <2>3, <2>5, <2>6, EndsQuietly
<1>2. CASE UsdcFailed(c)
  <2>1. tasks[c] # None /\ tasks[c].kind = "enable" /\ tasks[c].step = "enable" /\ tasks' = Ended(c)
        /\ UNCHANGED <<address, page, saved, deposits>>
    BY <1>2 DEF UsdcFailed, At
  <2>2. page.polling # c /\ page.flow # c
    BY <2>1, OtherRef DEF FlowKind
  <2>3. RefsLetGo(c) /\ DepositsKept
    BY <1>0, <2>1, <2>2, DepositsSame DEF RefsLetGo
  <2> QED
    BY <2>1, <2>3, EndsQuietly
<1>3. CASE AbortedReturns(c)
  <2>1. tasks[c] # None /\ tasks[c].aborted /\ tasks' = Ended(c) /\ UNCHANGED <<address, saved, deposits>>
    BY <1>3 DEF AbortedReturns
  <2>2. /\ RefsLetGo(c) /\ page'.state = page.state /\ page'.offered = page.offered
        /\ page.mounted \/ page' = page
    <3>1. CASE tasks[c].live
      <4> DEFINE q == FinishFlow(page, c)
      <4>1. page' = EndPoll(q, c) /\ page.mounted
        BY <1>3, <2>1, <3>1, OtherRef DEF AbortedReturns, Shows
      <4>2. /\ q \in Page /\ q.mounted = page.mounted /\ q.state = page.state /\ q.offered = page.offered
            /\ q.polling = page.polling /\ q.flow = (IF page.flow = c THEN None ELSE page.flow)
            /\ q.busy = (IF page.flow = c THEN FALSE ELSE page.busy)
        BY <1>0, FinishFlowIs
      <4> HIDE DEF q
      <4>3. /\ page'.mounted = q.mounted /\ page'.state = q.state /\ page'.offered = q.offered
            /\ page'.flow = q.flow /\ page'.busy = q.busy
            /\ page'.polling = (IF q.polling = c THEN None ELSE q.polling)
        BY <4>1, <4>2, EndPollIs
      <4> QED
        BY <4>1, <4>2, <4>3 DEF RefsLetGo
    <3>2. CASE ~tasks[c].live
      BY <1>3, <2>1, <3>2, RefsOfDead DEF AbortedReturns, Shows
    <3> QED
      BY <3>1, <3>2
  <2> QED
    BY <1>0, <2>1, <2>2, DepositsSame, EndsQuietly
<1>4. CASE PollFails(c)
  <2>1. tasks[c] # None /\ tasks[c].step = "poll" /\ tasks' = Ended(c) /\ UNCHANGED <<address, saved, deposits>>
    BY <1>4 DEF PollFails, Polling
  <2>2. tasks[c].kind \notin FlowKind
    BY <2>1, InFlight DEF Suits, FlowKind
  <2>3. /\ RefsLetGo(c) /\ page'.state = page.state /\ page'.offered = page.offered
        /\ page.mounted \/ page' = page
    <3>1. CASE tasks[c].live
      <4>1. page' = [EndPoll(page, c) EXCEPT !.warning = TRUE] /\ EndPoll(page, c) \in Page
        BY <1>0, <1>4, <3>1, EndPollType DEF PollFails, Shows
      <4>2. /\ page'.mounted = EndPoll(page, c).mounted /\ page'.flow = EndPoll(page, c).flow
            /\ page'.busy = EndPoll(page, c).busy /\ page'.polling = EndPoll(page, c).polling
            /\ page'.state = EndPoll(page, c).state /\ page'.offered = EndPoll(page, c).offered
        BY <4>1 DEF Page
      <4>3. page.flow # c
        BY <2>1, <2>2, OtherRef
      <4> QED
        BY <1>0, <2>1, <3>1, <4>2, <4>3, EndPollIs, OtherRef DEF RefsLetGo
    <3>2. CASE ~tasks[c].live
      BY <1>4, <2>1, <3>2, RefsOfDead DEF PollFails, Shows
    <3> QED
      BY <3>1, <3>2
  <2> QED
    BY <1>0, <2>1, <2>2, <2>3, DepositsSame, EndsQuietly DEF FlowKind
<1>5. CASE FlowFails(c) /\ ~(tasks[c].live /\ tasks[c].kind \in {"price", "open", "resume"})
  <2>1. /\ tasks[c] # None /\ tasks[c].kind \in FlowKind /\ tasks' = Ended(c)
        /\ UNCHANGED <<address, saved, deposits>>
    BY <1>5 DEF FlowFails
  <2>2. /\ RefsLetGo(c) /\ page'.state = page.state /\ page'.offered = page.offered
        /\ page.mounted \/ page' = page
        /\ page.flow = c => tasks[c].kind \notin {"price", "open"}
    <3>1. CASE tasks[c].live
      <4> DEFINE q == [page EXCEPT !.state = page.state, !.warning = page.warning \/ tasks[c].kind = "transfer"]
      <4>1. tasks[c].kind \notin {"price", "open", "resume"}
        BY <1>5, <3>1
      <4>2. page' = FinishFlow(q, c)
        BY <1>5, <3>1, <4>1 DEF FlowFails, Shows
      <4>3. /\ q \in Page /\ q.mounted = page.mounted /\ q.state = page.state /\ q.offered = page.offered
            /\ q.flow = page.flow /\ q.busy = page.busy /\ q.polling = page.polling
        BY <1>0 DEF Page
      <4>4. page.polling # c
        BY <2>1, InFlight, OtherRef DEF Suits, FlowKind
      <4> HIDE DEF q
      <4> QED
        <5>1. /\ page'.mounted = q.mounted /\ page'.state = q.state /\ page'.offered = q.offered
              /\ page'.polling = q.polling /\ page'.flow = (IF q.flow = c THEN None ELSE q.flow)
              /\ page'.busy = (IF q.flow = c THEN FALSE ELSE q.busy)
          BY <4>2, <4>3, FinishFlowIs
        <5> QED
          BY <2>1, <3>1, <4>1, <4>3, <4>4, <5>1, OtherRef DEF RefsLetGo
    <3>2. CASE ~tasks[c].live
      BY <1>5, <2>1, <3>2, RefsOfDead DEF FlowFails, Shows
    <3> QED
      BY <3>1, <3>2
  <2> QED
    BY <1>0, <2>1, <2>2, DepositsSame, EndsQuietly
<1> QED
  BY <1>1, <1>2, <1>3, <1>4, <1>5

\* The state in which the running flow leaves the screen when it ends.
Settles(s) ==
    /\ s.name \in {"PRICING", "ERROR", "CLAIM_REQUIRED"}
    /\ s.name = "PRICING" => s.priced /\ s.deposit = None /\ s.balance = None /\ ~s.ticket
    /\ s.name = "CLAIM_REQUIRED" => s.deposit # None
    /\ s.deposit # None /\ saved # None => s.deposit = saved.deposit /\ saved.account = address
    /\ Opened(s.deposit) /\ Claimable(s.balance)

LEMMA FlowEndsPreserves ==
    ASSUME AnchorInv, TypeOK', NEW c \in Controller, RunningFlow(c), tasks[c].kind \in {"price", "open", "resume"},
           tasks' = Ended(c), UNCHANGED <<address, saved, deposits>>,
           NEW p \in Page, page' = FinishFlow(p, c), Settles(p.state),
           p.mounted = page.mounted, p.flow = page.flow, p.busy = page.busy, p.polling = page.polling,
           p.offered = page.offered
    PROVE  AnchorInv'
<1>0. /\ TypeOK /\ page \in Page /\ TasksFit /\ DepositsKnown /\ FlowRef /\ PollRef
      /\ StateFits /\ ScreenFits /\ ClaimFits
  BY Known
<1>1. tasks'[c] = None /\ \A x \in Controller \ {c} : tasks'[x] = tasks[x]
  BY <1>0, EndedTask
<1>2. page.flow = c /\ page.busy /\ page.mounted /\ tasks[c] # None
  BY <1>0 DEF FlowRef, TasksFit, RunningFlow, Running
<1>3. page.polling # c
  BY <1>2, InFlight, OtherRef DEF Suits
<1>4. /\ page'.mounted = page.mounted /\ page'.flow = None /\ page'.busy = FALSE
      /\ page'.polling = page.polling /\ page'.offered = page.offered /\ page'.state = p.state
  BY <1>2 DEF FinishFlow, Page
<1>5. RefsLetGo(c)
  BY <1>2, <1>3, <1>4 DEF RefsLetGo
<1>6. PageFits' /\ TasksFit' /\ FlowRef' /\ PollRef'
  BY <1>2, <1>5, EndedRefs
<1>7. DepositsKnown'
  <2>1. TrueRecord(saved)' /\ TrueRecord(page.offered)'
    BY <1>0, <1>4 DEF DepositsKnown, TrueRecord, Opened, Claimable
  <2>2. Opened(page.state.deposit)' /\ Claimable(page.state.balance)'
    BY <1>4 DEF Settles, Opened, Claimable
  <2> QED
    BY <1>0, <2>1, <2>2, DepositsSame, EndedDeposits
<1>8. StateFits'
  BY <1>4 DEF Settles, StateFits, Waits, Waiting
<1>9. \A x \in Controller : ~RunningFlow(x)'
  BY <1>0, <1>1, <1>2 DEF FlowRef, RunningFlow, Running
<1>10. page.state.deposit = None
  <2>1. page.state.name \in {"IDLE", "DISCOVERING", "PRICING", "AUTHENTICATING", "QUOTING", "DEPOSIT_STARTED"}
    BY <1>0, <1>2, InFlight DEF StateFits, StateIsFlows, Suits
  <2> QED
    BY <1>0, <2>1 DEF StateFits
<1>11. \A x \in Controller : Running(x)' => tasks'[x].kind = "enable"
  <2> SUFFICES ASSUME NEW x \in Controller, Running(x)' PROVE tasks'[x].kind = "enable"
    OBVIOUS
  <2>1. tasks'[x] = tasks[x] /\ Running(x)
    BY <1>1 DEF Running
  <2>2. tasks[x].kind \notin FlowKind
    BY <1>9, <2>1 DEF RunningFlow, Running
  <2>3. tasks[x].kind # "poll"
    BY <1>0, <1>10, <2>1 DEF ScreenFits, TasksFit, Running
  <2> QED
    BY <2>1, <2>2, <2>3, InFlight DEF Suits, FlowKind, Running
<1>12. ScreenFits'
  BY <1>0, <1>4, <1>11 DEF ScreenFits, Settles
<1>13. ClaimFits'
  <2> SUFFICES ASSUME NEW x \in Controller, tasks'[x] # None, tasks'[x].live, tasks'[x].kind = "claim",
                      tasks'[x].balance = tasks'[x].deposit
               PROVE FALSE
    BY DEF ClaimFits
  <2>1. tasks'[x] = tasks[x] /\ ~tasks[x].aborted
    BY <1>0, <1>1 DEF ClaimFits
  <2> QED
    BY <1>11, <2>1 DEF Running
<1> QED
  BY <1>6, <1>7, <1>8, <1>12, <1>13 DEF AnchorInv

LEMMA FlowSettles ==
    ASSUME AnchorInv, TypeOK', NEW c \in Controller,
           \/ PriceAnswered(c)
           \/ ResumeAnswered(c) /\ tasks[c].balance # None
           \/ FlowFails(c) /\ tasks[c].live /\ tasks[c].kind \in {"price", "open", "resume"}
    PROVE  AnchorInv'
<1>0. /\ TypeOK /\ page \in Page /\ page.state \in State /\ TasksFit /\ DepositsKnown /\ FlowRef
      /\ StateFits /\ ScreenFits
  BY Known
<1>1. /\ tasks[c] # None /\ tasks[c].kind \in {"price", "open", "resume"} /\ ~tasks[c].aborted
      /\ tasks' = Ended(c) /\ UNCHANGED <<address, saved, deposits>>
  BY DEF PriceAnswered, ResumeAnswered, FlowFails, At, Proceeds
<1>2. tasks[c].live
  BY <1>0, <1>1 DEF PriceAnswered, ResumeAnswered, At, TasksFit
<1>3. RunningFlow(c) /\ page.flow = c /\ page.busy
  BY <1>0, <1>1, <1>2 DEF RunningFlow, Running, FlowKind, FlowRef
<1>4. ASSUME NEW s \in State, Settles(s), NEW w \in BOOLEAN,
             page' = FinishFlow([page EXCEPT !.state = s, !.warning = w], c)
      PROVE  AnchorInv'
  <2> DEFINE p == [page EXCEPT !.state = s, !.warning = w]
  <2>1. /\ p \in Page /\ p.mounted = page.mounted /\ p.flow = page.flow /\ p.busy = page.busy
        /\ p.polling = page.polling /\ p.offered = page.offered /\ p.state = s /\ page' = FinishFlow(p, c)
    BY <1>0, <1>4 DEF Page
  <2> HIDE DEF p
  <2> QED
    BY <1>1, <1>3, <1>4, <2>1, FlowEndsPreserves
<1>5. /\ page.state.deposit = None /\ page.state.balance = None /\ ~page.state.ticket
  <2>1. page.state.name \in {"IDLE", "DISCOVERING", "PRICING", "AUTHENTICATING", "QUOTING", "DEPOSIT_STARTED"}
    BY <1>0, <1>1, <1>3, InFlight DEF StateFits, StateIsFlows, Suits
  <2> QED
    BY <1>0, <2>1 DEF StateFits
<1>6. page.warning \in BOOLEAN
  BY <1>0 DEF Page
<1>7. CASE PriceAnswered(c)
  <2>1. page.state.name = "PRICING"
    BY <1>0, <1>3, <1>7 DEF PriceAnswered, At, StateFits, StateIsFlows
  <2>2. Settles(Priced(page.state))
    BY <1>0, <1>5, <2>1 DEF Settles, Priced, State, Opened, Claimable
  <2>3. page' = FinishFlow([page EXCEPT !.state = Priced(page.state), !.warning = page.warning], c)
    <3>1. [page EXCEPT !.state = Priced(page.state), !.warning = page.warning]
            = [page EXCEPT !.state = Priced(page.state)]
      BY <1>0 DEF Page
    <3> QED
      BY <1>2, <1>7, <3>1 DEF PriceAnswered, Shows
  <2> QED
    BY <1>0, <1>4, <1>6, <2>2, <2>3, ReducerTypes
<1>8. CASE ResumeAnswered(c) /\ tasks[c].balance # None
  <2> DEFINE s == Resumed(tasks[c].deposit, tasks[c].balance)
  <2>1. tasks[c].kind = "resume" /\ tasks[c].deposit \in DepositId /\ tasks[c].balance \in DepositId \cup {None}
    BY <1>1, <1>8, InFlight DEF ResumeAnswered, At, Task
  <2>2. s \in State
    BY <2>1, FreshStates
  <2>3. s.name = "CLAIM_REQUIRED" /\ s.deposit = tasks[c].deposit /\ s.balance = tasks[c].balance
    BY <1>8 DEF Resumed, Initial
  <2>4. Opened(tasks[c].deposit) /\ Claimable(tasks[c].balance) /\ tasks[c].deposit # None
    BY <1>0, <1>1, <2>1, AnchorAssumption DEF DepositsKnown
  <2>5. saved # None => tasks[c].deposit = saved.deposit /\ saved.account = address
    BY <1>0, <1>3, <2>1 DEF ScreenFits, RunningFlow
  <2>6. page' = FinishFlow([page EXCEPT !.state = s, !.warning = page.warning], c)
    <3>1. [page EXCEPT !.state = s, !.warning = page.warning] = [page EXCEPT !.state = s]
      BY <1>0 DEF Page
    <3> QED
      BY <1>2, <1>8, <3>1 DEF ResumeAnswered, Shows
  <2> HIDE DEF s
  <2>7. Settles(s)
    BY <2>3, <2>4, <2>5 DEF Settles
  <2> QED
    BY <1>4, <1>6, <2>2, <2>6, <2>7
<1>9. CASE FlowFails(c)
  <2>1. Settles(Errored(page.state))
    BY <1>0, <1>5 DEF Settles, Errored, State, Opened, Claimable
  <2>2. page' = FinishFlow([page EXCEPT !.state = Errored(page.state), !.warning = page.warning], c)
    <3>1. (page.warning \/ tasks[c].kind = "transfer") = page.warning
      BY <1>1, <1>6
    <3> QED
      BY <1>1, <1>2, <1>9, <3>1 DEF FlowFails, Shows
  <2> QED
    BY <1>0, <1>4, <1>6, <2>1, <2>2, ReducerTypes
<1> QED
  BY <1>7, <1>8, <1>9

-----------------------------------------------------------------------------
(* The invariant: a poll answers *)

\* What a poll shows, of a deposit that has not been paid out.
LEMMA PolledState ==
    ASSUME AnchorInv, NEW d \in 1..Len(deposits), d \in DepositId, deposits[d].status # "paid",
           NEW s \in State, s = StatusPolled(page.state, d, deposits[d].status)
    PROVE  /\ s.deposit = page.state.deposit /\ s.ticket = page.state.ticket /\ s.priced = page.state.priced
           /\ Claimable(s.balance)
           /\ \/ s = page.state
              \/ /\ page.state.name \in Waiting \cup {"CLAIM_REQUIRED"} /\ page.state.deposit = d
                 /\ s.name \in Waiting \cup {"CLAIM_REQUIRED", "ERROR"}
                 /\ deposits[d].status = "claimable" => s.name = "CLAIM_REQUIRED"
<1>0. TypeOK /\ page.state \in State /\ DepositsKnown /\ deposits[d] \in Deposit
  BY Known DEF TypeOK
<1>1. deposits[d].status \in Status /\ Claimable(page.state.balance)
  BY <1>0 DEF Deposit, DepositsKnown
<1>2. CASE s = page.state
  BY <1>1, <1>2
<1>3. CASE s # page.state
  <2>1. /\ page.state.name \in Waiting \cup {"CLAIM_REQUIRED"} /\ page.state.deposit = d
        /\ s = [page.state EXCEPT !.name = StateFor[deposits[d].status],
                                  !.balance = IF deposits[d].status \in WithClaimable THEN d ELSE @]
    BY <1>3 DEF StatusPolled
  <2>2. /\ s.deposit = page.state.deposit /\ s.ticket = page.state.ticket /\ s.priced = page.state.priced
        /\ s.name = StateFor[deposits[d].status]
        /\ s.balance = IF deposits[d].status \in WithClaimable THEN d ELSE page.state.balance
    BY <1>0, <2>1 DEF State
  <2>3. /\ s.name \in Waiting \cup {"CLAIM_REQUIRED", "ERROR"}
        /\ deposits[d].status = "claimable" => s.name = "CLAIM_REQUIRED"
    BY <1>1, <2>2, Answers DEF Waiting
  <2>4. Claimable(s.balance)
    BY <1>1, <2>2, Answers DEF Claimable
  <2> QED
    BY <2>1, <2>2, <2>3, <2>4
<1> QED
  BY <1>2, <1>3

\* The tasks of a step that neither starts nor changes one, but for its count of polls.
TasksAlike ==
    \A x \in Controller : tasks'[x] # None =>
        /\ tasks[x] # None
        /\ tasks'[x].kind = tasks[x].kind /\ tasks'[x].step = tasks[x].step
        /\ tasks'[x].account = tasks[x].account /\ tasks'[x].deposit = tasks[x].deposit
        /\ tasks'[x].balance = tasks[x].balance
        /\ tasks'[x].live = tasks[x].live /\ tasks'[x].aborted = tasks[x].aborted

RecordKept ==
    /\ TrueRecord(saved)' /\ TrueRecord(page.offered)'
    /\ saved' # None => /\ saved # None /\ page'.offered = page.offered
                        /\ saved'.deposit = saved.deposit /\ saved'.account = saved.account

ShowsPolled(c) ==
    /\ RunningPoll(c) /\ deposits[tasks[c].deposit].status # "paid"
    /\ page'.state = StatusPolled(page.state, tasks[c].deposit, deposits[tasks[c].deposit].status)

LEMMA PolledPreserves ==
    ASSUME AnchorInv, TypeOK', NEW c \in Controller, UNCHANGED <<address, deposits>>,
           page'.mounted = page.mounted, page'.flow = page.flow, page'.busy = page.busy,
           PageFits', FlowRef', PollRef', TasksAlike, RecordKept,
           page'.state = page.state \/ ShowsPolled(c)
    PROVE  AnchorInv'
<1>0. /\ TypeOK /\ page \in Page /\ page.state \in State /\ page'.state \in State
      /\ TasksFit /\ DepositsKnown /\ FlowRef /\ PollRef /\ StateFits /\ ScreenFits /\ ClaimFits
  BY Known DEF TypeOK, Page
<1>1. ShowsPolled(c) => tasks[c].deposit \in DepositId /\ tasks[c].deposit \in 1..Len(deposits)
  BY InFlight DEF ShowsPolled, RunningPoll, Running, Suits
<1>2. /\ page'.state.deposit = page.state.deposit /\ page'.state.ticket = page.state.ticket
      /\ page'.state.priced = page.state.priced /\ Claimable(page'.state.balance)
      /\ \/ page'.state = page.state
         \/ /\ page.state.name \in Waiting \cup {"CLAIM_REQUIRED"}
            /\ page'.state.name \in Waiting \cup {"CLAIM_REQUIRED", "ERROR"}
            /\ page.state.deposit \in 1..Len(deposits)
            /\ deposits[page.state.deposit].status = "claimable" => page'.state.name = "CLAIM_REQUIRED"
  BY <1>0, <1>1, PolledState DEF ShowsPolled, DepositsKnown
<1>3. TasksFit'
  BY <1>0 DEF TasksFit, TasksAlike
<1>4. DepositsKnown'
  <2>1. \A x \in Controller : tasks'[x] # None =>
          /\ Opened(tasks'[x].deposit) /\ Claimable(tasks'[x].balance)
          /\ tasks'[x].step = "ticket" => deposits[tasks'[x].deposit].account = tasks'[x].account
          /\ tasks'[x].step = "landed" => deposits[tasks'[x].balance].claimed
    BY <1>0 DEF DepositsKnown, TasksAlike
  <2> QED
    BY <1>0, <1>2, <2>1 DEF RecordKept, DepositsKnown, TrueRecord, Opened, Claimable
<1>5. StateFits'
  <2>1. page'.busy => tasks'[page'.flow].kind = tasks[page.flow].kind /\ tasks'[page'.flow].step = tasks[page.flow].step
    BY <1>0 DEF FlowRef, TasksAlike, Page
  <2> QED
    BY <1>0, <1>2, <2>1 DEF StateFits, StateIsFlows, Waits, Waiting
<1>6. ScreenFits'
  <2>1. \A x \in Controller : Running(x)' =>
          Running(x) /\ tasks'[x].kind = tasks[x].kind /\ tasks'[x].deposit = tasks[x].deposit
    BY DEF Running, TasksAlike
  <2> QED
    BY <1>0, <1>2, <2>1 DEF ScreenFits, RecordKept
<1>7. ClaimFits'
  <2> SUFFICES ASSUME NEW x \in Controller, tasks'[x] # None, tasks'[x].live, tasks'[x].kind = "claim",
                      tasks'[x].balance = tasks'[x].deposit
               PROVE ~tasks'[x].aborted /\ page'.state.name = "CLAIM_REQUIRED"
    BY DEF ClaimFits
  <2>1. /\ tasks[x] # None /\ tasks[x].live /\ tasks[x].kind = "claim" /\ tasks[x].balance = tasks[x].deposit
        /\ tasks'[x].aborted = tasks[x].aborted
    BY DEF TasksAlike
  <2>2. ~tasks[x].aborted /\ page.state.name = "CLAIM_REQUIRED"
    BY <1>0, <2>1 DEF ClaimFits
  <2>3. tasks[x].deposit = page.state.deposit
    BY <1>0, <2>1, <2>2 DEF ScreenFits, Running
  <2>4. deposits[page.state.deposit].status = "claimable"
    BY <2>1, <2>3, InFlight
  <2> QED
    BY <1>2, <2>1, <2>2, <2>4
<1> QED
  BY <1>3, <1>4, <1>5, <1>6, <1>7 DEF AnchorInv

LEMMA EndedAlike == ASSUME TypeOK, NEW c \in Controller, tasks' = Ended(c) PROVE TasksAlike
  BY EndedTask DEF TasksAlike

LEMMA SameRecord ==
    ASSUME AnchorInv, UNCHANGED <<saved, deposits>>, page'.offered = page.offered PROVE RecordKept
<1>1. TrueRecord(saved) /\ TrueRecord(page.offered)
  BY DEF AnchorInv, DepositsKnown
<1> QED
  BY <1>1 DEF RecordKept, TrueRecord, Opened, Claimable

LEMMA PollContinuesPreserves ==
    ASSUME AnchorInv, TypeOK', NEW c \in Controller, PollContinues(c)
    PROVE  AnchorInv'
<1> DEFINE d == tasks[c].deposit
           q == [page EXCEPT !.state = StatusPolled(page.state, d, deposits[d].status)]
<1>0. /\ TypeOK /\ page \in Page /\ page.state \in State /\ PageFits /\ FlowRef /\ PollRef
      /\ page.flow \in Controller \cup {None} /\ page.polling \in Controller \cup {None}
  BY Known DEF Page
<1>1. /\ tasks[c] # None /\ tasks[c].step = "poll" /\ ~tasks[c].aborted
      /\ deposits[d].status \notin TerminalStatus /\ UNCHANGED <<address, saved, deposits>>
  BY DEF PollContinues, Polling, Proceeds
<1>2. deposits[d].status # "paid" /\ page.flow # c
  BY <1>1, InFlight, OtherRef, Answers DEF Suits, FlowKind
<1>3. q \in Page /\ q.state = StatusPolled(page.state, d, deposits[d].status)
      /\ q.mounted = page.mounted /\ q.flow = page.flow /\ q.busy = page.busy /\ q.polling = page.polling
      /\ q.offered = page.offered
  <2>1. d \in DepositId /\ deposits[d].status \in Status
    BY <1>1, InFlight DEF Suits, Deposit
  <2> QED
    BY <1>0, <2>1, ReducerTypes DEF Page
<1> HIDE DEF q
<1>4. CASE /\ NextAttempt(tasks[c].polls) < MaxPolls
           /\ tasks' = [tasks EXCEPT ![c].polls = NextAttempt(tasks[c].polls)] /\ Shows(c, q)
  <2>1. /\ page'.mounted = page.mounted /\ page'.flow = page.flow /\ page'.busy = page.busy
        /\ page'.polling = page.polling /\ page'.offered = page.offered
        /\ page'.state = page.state \/ (tasks[c].live /\ page'.state = q.state)
        /\ ~tasks[c].live => page' = page
    BY <1>3, <1>4 DEF Shows
  <2>2. /\ tasks'[c] # None
        /\ tasks'[c].kind = tasks[c].kind /\ tasks'[c].step = tasks[c].step
        /\ tasks'[c].account = tasks[c].account /\ tasks'[c].deposit = tasks[c].deposit
        /\ tasks'[c].balance = tasks[c].balance
        /\ tasks'[c].live = tasks[c].live /\ tasks'[c].aborted = tasks[c].aborted
    <3>1. tasks'[c] = [tasks[c] EXCEPT !.polls = NextAttempt(tasks[c].polls)] /\ tasks[c] \in Task
      BY <1>0, <1>1, <1>4 DEF TypeOK
    <3>2. NextAttempt(tasks[c].polls) \in 0..MaxPolls
      BY <1>4, <3>1, AnchorAssumption DEF Task, NextAttempt
    <3>3. tasks'[c] \in Task
      BY <3>1, <3>2 DEF Task
    <3>4. tasks'[c] # None
      BY <3>3, NoneAssumption
    <3> QED
      BY <3>1, <3>4 DEF Task
  <2>3. \A x \in Controller \ {c} : tasks'[x] = tasks[x]
    BY <1>0, <1>4 DEF TypeOK
  <2>4. TasksAlike
    <3> SUFFICES ASSUME NEW x \in Controller, tasks'[x] # None
                 PROVE  /\ tasks[x] # None
                        /\ tasks'[x].kind = tasks[x].kind /\ tasks'[x].step = tasks[x].step
                        /\ tasks'[x].account = tasks[x].account /\ tasks'[x].deposit = tasks[x].deposit
                        /\ tasks'[x].balance = tasks[x].balance
                        /\ tasks'[x].live = tasks[x].live /\ tasks'[x].aborted = tasks[x].aborted
      BY DEF TasksAlike
    <3>1. CASE x = c
      BY <1>1, <2>2, <3>1
    <3>2. CASE x # c
      BY <2>3, <3>2
    <3> QED
      BY <3>1, <3>2
  <2>5. PageFits'
    BY <1>0, <1>1, <2>1, OtherRef DEF PageFits
  <2>6. FlowRef' /\ PollRef'
    BY <1>0, <1>1, <1>2, <2>1, <2>2, <2>3 DEF FlowRef, PollRef, RunningFlow, RunningPoll, Running
  <2>7. page'.state = page.state \/ ShowsPolled(c)
    BY <1>1, <1>2, <1>3, <2>1 DEF ShowsPolled, RunningPoll, Running
  <2> QED
    BY <1>1, <2>1, <2>4, <2>5, <2>6, <2>7, SameRecord, PolledPreserves
<1>5. CASE tasks' = Ended(c) /\ Shows(c, Paused(EndPoll(q, c)))
  <2>1. /\ page'.mounted = page.mounted /\ page'.flow = page.flow /\ page'.busy = page.busy
        /\ page'.offered = page.offered
        /\ page'.state = page.state \/ (tasks[c].live /\ page'.state = q.state)
        /\ ~tasks[c].live => page' = page
        /\ RefsLetGo(c)
    <3>1. CASE tasks[c].live
      <4>1. page' = [EndPoll(q, c) EXCEPT !.warning = TRUE] /\ EndPoll(q, c) \in Page
        BY <1>3, <1>5, <3>1, EndPollType DEF Shows, Paused
      <4>2. /\ page'.mounted = EndPoll(q, c).mounted /\ page'.flow = EndPoll(q, c).flow
            /\ page'.busy = EndPoll(q, c).busy /\ page'.polling = EndPoll(q, c).polling
            /\ page'.state = EndPoll(q, c).state /\ page'.offered = EndPoll(q, c).offered
        BY <4>1 DEF Page
      <4> QED
        BY <1>2, <1>3, <3>1, <4>2, EndPollIs DEF RefsLetGo
    <3>2. CASE ~tasks[c].live
      BY <1>1, <1>5, <3>2, RefsOfDead DEF Shows
    <3> QED
      BY <3>1, <3>2
  <2>2. PageFits' /\ TasksFit' /\ FlowRef' /\ PollRef'
    BY <1>1, <1>5, <2>1, OtherRef, EndedRefs
  <2>3. page'.state = page.state \/ ShowsPolled(c)
    BY <1>1, <1>2, <1>3, <2>1 DEF ShowsPolled, RunningPoll, Running
  <2> QED
    BY <1>0, <1>1, <1>5, <2>1, <2>2, <2>3, SameRecord, EndedAlike, PolledPreserves
<1> QED
  BY <1>4, <1>5 DEF PollContinues, q

LEMMA PollEndsPreserves ==
    ASSUME AnchorInv, TypeOK', NEW c \in Controller, PollEnds(c)
    PROVE  AnchorInv'
<1> DEFINE d == tasks[c].deposit
           q == [page EXCEPT !.state = StatusPolled(page.state, d, deposits[d].status),
                             !.offered = IF Clears(deposits[d].status) THEN None ELSE page.offered]
<1>0. /\ TypeOK /\ page \in Page /\ page.state \in State /\ PageFits /\ FlowRef /\ PollRef
      /\ TrueRecord(saved) /\ TrueRecord(page.offered)
  BY Known DEF DepositsKnown
<1>1. /\ tasks[c] # None /\ tasks[c].step = "poll" /\ ~tasks[c].aborted
      /\ deposits[d].status \in TerminalStatus /\ UNCHANGED <<address, deposits>>
  BY DEF PollEnds, Polling, Proceeds
<1>2. page.flow # c /\ d \in DepositId /\ d \in 1..Len(deposits)
  BY <1>1, InFlight, OtherRef DEF Suits, FlowKind
<1>3. /\ saved' = IF deposits[d].status = "claimable" THEN WithBalance(saved, d)
                  ELSE IF Clears(deposits[d].status) THEN None ELSE saved
      /\ Clears(deposits[d].status) => deposits[d].status # "claimable"
  BY <1>1, Answers DEF PollEnds
<1>4. CASE deposits[d].status = "paid" /\ tasks[c].live
  <2>1. Unmount(Ended(c)) /\ saved' = None
    BY <1>1, <1>3, <1>4, Answers DEF PollEnds
  <2>2. \A x \in Controller : Ended(c)[x] \in {tasks[x], None}
    BY <1>0 DEF TypeOK, Ended
  <2> QED
    BY <1>1, <2>1, <2>2, UnmountPreserves
<1>5. CASE ~(deposits[d].status = "paid" /\ tasks[c].live)
  <2>1. tasks' = Ended(c) /\ Shows(c, EndPoll(q, c))
    BY <1>1, <1>5, Answers DEF PollEnds
  <2>2. q \in Page /\ q.state = StatusPolled(page.state, d, deposits[d].status)
        /\ q.mounted = page.mounted /\ q.flow = page.flow /\ q.busy = page.busy /\ q.polling = page.polling
        /\ q.offered = IF Clears(deposits[d].status) THEN None ELSE page.offered
    <3>1. deposits[d].status \in Status
      BY <1>1, InFlight DEF Suits, Deposit
    <3> QED
      BY <1>0, <1>2, <3>1, ReducerTypes DEF Page
  <2> HIDE DEF q
  <2>3. /\ page'.mounted = page.mounted /\ page'.flow = page.flow /\ page'.busy = page.busy
        /\ page'.offered \in {None, page.offered}
        /\ ~Clears(deposits[d].status) => page'.offered = page.offered
        /\ page'.state = page.state \/ (tasks[c].live /\ page'.state = q.state)
        /\ ~tasks[c].live => page' = page
        /\ RefsLetGo(c)
    <3>1. CASE tasks[c].live
      BY <1>2, <2>1, <2>2, <3>1, EndPollIs DEF Shows, RefsLetGo
    <3>2. CASE ~tasks[c].live
      BY <1>1, <2>1, <3>2, RefsOfDead DEF Shows
    <3> QED
      BY <3>1, <3>2
  <2>4. PageFits' /\ TasksFit' /\ FlowRef' /\ PollRef'
    BY <1>1, <2>1, <2>3, OtherRef, EndedRefs
  <2>5. page'.state = page.state \/ ShowsPolled(c)
    BY <1>1, <1>5, <2>2, <2>3 DEF ShowsPolled, RunningPoll, Running
  <2>6. RecordKept
    <3>1. saved' # None => /\ saved # None /\ page'.offered = page.offered
                           /\ saved'.deposit = saved.deposit /\ saved'.account = saved.account
                           /\ saved'.balance = saved.balance
                              \/ (saved'.balance = d /\ deposits[d].status = "claimable")
      <4>1. CASE deposits[d].status = "claimable" /\ saved # None
        <5>1. saved' = [saved EXCEPT !.balance = d] /\ page'.offered = page.offered /\ saved \in Record
          BY <1>0, <1>3, <2>3, <4>1 DEF WithBalance, TypeOK
        <5> QED
          BY <4>1, <5>1 DEF Record
      <4>2. CASE deposits[d].status # "claimable" \/ saved = None
        <5>1. saved' = None \/ (saved' = saved /\ ~Clears(deposits[d].status))
          BY <1>3, <4>2 DEF WithBalance
        <5> QED
          BY <2>3, <5>1
      <4> QED
        BY <4>1, <4>2
    <3>2. TrueRecord(saved)'
      BY <1>0, <1>1, <1>2, <3>1 DEF TrueRecord, Opened, Claimable
    <3>3. TrueRecord(page.offered)'
      BY <1>0, <1>1, <2>3 DEF TrueRecord, Opened, Claimable
    <3> QED
      BY <3>1, <3>2, <3>3 DEF RecordKept
  <2> QED
    BY <1>0, <1>1, <2>1, <2>3, <2>4, <2>5, <2>6, EndedAlike, PolledPreserves
<1> QED
  BY <1>4, <1>5

-----------------------------------------------------------------------------
(* The invariant: a task goes on to its next await *)

\* Task c is at another step, and all the other tasks are as they were.
StepsOn(c) ==
    /\ tasks[c] # None /\ tasks'[c] # None /\ tasks[c].step # "poll" /\ \A x \in Controller \ {c} : tasks'[x] = tasks[x]
    /\ tasks'[c].kind = tasks[c].kind /\ tasks'[c].account = tasks[c].account
    /\ tasks'[c].balance = tasks[c].balance
    /\ tasks'[c].live = tasks[c].live /\ tasks'[c].aborted = tasks[c].aborted
    /\ tasks'[c].kind # "open" => tasks'[c].deposit = tasks[c].deposit
    /\ Opened(tasks[c].deposit)'
    /\ Suits(tasks'[c].kind, tasks'[c].step)
    /\ tasks'[c].live => tasks'[c].step # "poll"
    /\ ~tasks'[c].live => tasks'[c].kind = "enable" \/ tasks'[c].step \in {"submit", "landed"}
    /\ tasks'[c].step = "ticket" =>
         tasks'[c].deposit # None /\ deposits'[tasks'[c].deposit].account = tasks'[c].account
    /\ tasks'[c].step = "landed" => deposits'[tasks'[c].balance].claimed

\* A running price or opening leads the state along.
LeadsOn(c) ==
    /\ RunningFlow(c) /\ tasks[c].kind \in {"price", "open"}
    /\ page.mounted /\ page'.offered = page.offered /\ page'.mounted = page.mounted
    /\ page'.flow = page.flow /\ page'.busy = page.busy /\ page'.polling = page.polling
    /\ page'.state.deposit = page.state.deposit /\ page'.state.balance = page.state.balance
    /\ page'.state.ticket = page.state.ticket /\ page'.state.priced = page.state.priced
    /\ page'.state.name \in {"PRICING", "QUOTING", "DEPOSIT_STARTED"}
    /\ StateIsFlows(page'.state.name, page'.state.priced, tasks'[c].kind, tasks'[c].step)

LEMMA MovedPreserves ==
    ASSUME AnchorInv, TypeOK', NEW c \in Controller, UNCHANGED <<address, saved>>, DepositsKept, StepsOn(c),
           \/ page' = page /\ (tasks[c].kind \in {"price", "open"} =>
                                 tasks[c].kind = "open" /\ tasks[c].step \in {"request", "ticket"}
                                                        /\ tasks'[c].step \in {"request", "ticket"})
           \/ LeadsOn(c)
    PROVE  AnchorInv'
<1>0. /\ TypeOK /\ page \in Page /\ PageFits /\ TasksFit /\ DepositsKnown /\ FlowRef /\ PollRef
      /\ StateFits /\ ScreenFits /\ ClaimFits
      /\ page.flow \in Controller \cup {None} /\ page.polling \in Controller \cup {None}
  BY Known DEF Page
<1>1. /\ page'.mounted = page.mounted /\ page'.flow = page.flow /\ page'.busy = page.busy
      /\ page'.polling = page.polling /\ page'.offered = page.offered
      /\ page'.state.deposit = page.state.deposit /\ page'.state.balance = page.state.balance
      /\ page'.state.ticket = page.state.ticket /\ page'.state.priced = page.state.priced
      /\ page.mounted \/ page' = page
  BY DEF LeadsOn
<1>2. \A x \in Controller : tasks'[x] # None => tasks[x] # None /\ tasks'[x].kind = tasks[x].kind
        /\ tasks'[x].live = tasks[x].live /\ tasks'[x].aborted = tasks[x].aborted
        /\ tasks'[x].account = tasks[x].account /\ tasks'[x].balance = tasks[x].balance
  BY DEF StepsOn
<1>3. PageFits' /\ TasksFit'
  <2>1. tasks'[c].kind \notin {"price", "open"} => tasks'[c].deposit # None
    BY <1>0 DEF TasksFit, StepsOn
  <2>2. tasks'[c].kind = "claim" => tasks'[c].balance # None
    BY <1>0 DEF TasksFit, StepsOn
  <2>3. tasks'[c].live => page'.mounted /\ tasks'[c].account = address
    BY <1>0, <1>1 DEF TasksFit, StepsOn
  <2>4. PageFits'
    BY <1>0, <1>1 DEF PageFits
  <2>5. ASSUME NEW x \in Controller, tasks'[x] # None
        PROVE  /\ Suits(tasks'[x].kind, tasks'[x].step)
               /\ tasks'[x].live => page'.mounted /\ tasks'[x].account = address'
               /\ ~tasks'[x].live => tasks'[x].kind = "enable" \/ tasks'[x].step \in {"submit", "landed", "request"}
               /\ tasks'[x].kind \notin {"price", "open"} \/ tasks'[x].step = "ticket" => tasks'[x].deposit # None
               /\ tasks'[x].kind = "claim" => tasks'[x].balance # None
    <3>1. CASE x = c
      BY <2>1, <2>2, <2>3, <3>1 DEF StepsOn
    <3>2. CASE x # c
      BY <1>0, <1>1, <2>5, <3>2 DEF TasksFit, StepsOn
    <3> QED
      BY <3>1, <3>2
  <2> QED
    BY <2>4, <2>5 DEF TasksFit
<1>4. DepositsKnown'
  <2>1. TrueRecord(saved)' /\ TrueRecord(page.offered)'
    <3>1. \A r \in Record \cup {None} : TrueRecord(r) => TrueRecord(r)'
      <4> SUFFICES ASSUME NEW r \in Record, TrueRecord(r), r # None PROVE TrueRecord(r)'
        BY DEF TrueRecord
      <4>1. r.deposit # None
        BY AnchorAssumption DEF Record
      <4> QED
        BY <4>1 DEF TrueRecord, DepositsKept, Opened, Claimable
    <3>2. saved \in Record \cup {None} /\ page.offered \in Record \cup {None}
      BY <1>0 DEF TypeOK, Page
    <3> QED
      BY <1>0, <1>1, <3>1, <3>2 DEF DepositsKnown, TrueRecord
  <2>2. Opened(page.state.deposit)' /\ Claimable(page.state.balance)'
    BY <1>0, <1>1 DEF DepositsKnown, DepositsKept, Opened, Claimable
  <2>3. ASSUME NEW x \in Controller, tasks'[x] # None
        PROVE  /\ Opened(tasks[x].deposit)' /\ Claimable(tasks[x].balance)'
               /\ tasks'[x].step = "ticket" => deposits'[tasks'[x].deposit].account = tasks'[x].account
               /\ tasks'[x].step = "landed" => deposits'[tasks'[x].balance].claimed
    <3>1. Claimable(tasks[x].balance)'
      BY <1>0, <1>2, <2>3 DEF DepositsKnown, DepositsKept, Claimable
    <3>2. CASE x = c
      BY <3>1, <3>2 DEF StepsOn
    <3>3. CASE x # c
      <4>1. tasks'[x] = tasks[x] /\ tasks[x] # None
        BY <2>3, <3>3 DEF StepsOn
      <4>2. /\ Opened(tasks[x].deposit)
            /\ tasks[x].step = "ticket" => deposits[tasks[x].deposit].account = tasks[x].account
            /\ tasks[x].step = "landed" => deposits[tasks[x].balance].claimed
        BY <1>0, <4>1 DEF DepositsKnown
      <4>3. /\ Claimable(tasks[x].balance) /\ (tasks[x].step = "ticket" => tasks[x].deposit # None)
            /\ (tasks[x].step = "landed" => tasks[x].balance # None)
        BY <1>0, <4>1 DEF TasksFit, Suits, DepositsKnown
      <4> QED
        BY <3>1, <4>1, <4>2, <4>3 DEF DepositsKept, Opened, Claimable
    <3> QED
      BY <3>2, <3>3
  <2> QED
    BY <2>1, <2>2, <2>3 DEF DepositsKnown
<1>5. FlowRef'
  <2>1. \A x \in Controller : RunningFlow(x)' => RunningFlow(x)
    BY <1>2 DEF RunningFlow, Running
  <2>2. page.flow # None => /\ tasks'[page.flow] # None /\ tasks'[page.flow].live = tasks[page.flow].live
                            /\ tasks'[page.flow].kind = tasks[page.flow].kind
                            /\ tasks'[page.flow].aborted = tasks[page.flow].aborted
    BY <1>0, <1>2 DEF FlowRef, StepsOn
  <2> QED
    BY <1>0, <1>1, <2>1, <2>2 DEF FlowRef
<1>6. PollRef'
  <2>1. page.polling # c
    BY <1>0, ControllerIsSome DEF PollRef, StepsOn
  <2>2. \A x \in Controller : RunningPoll(x)' => x # c
    BY DEF RunningPoll, Running, StepsOn
  <2> QED
    BY <1>0, <1>1, <1>2, <2>1, <2>2 DEF PollRef, RunningPoll, Running, StepsOn
<1>7. StateFits'
  <2>1. page.busy => page.flow \in Controller
    BY <1>0 DEF FlowRef
  <2>2. CASE LeadsOn(c)
    <3>1. page.flow = c /\ page.busy
      BY <1>0, <2>2 DEF LeadsOn, FlowRef
    <3>2. page.state.deposit = None /\ page.state.balance = None /\ ~page.state.ticket
      <4>1. page.state.name \in {"IDLE", "DISCOVERING", "PRICING", "AUTHENTICATING", "QUOTING", "DEPOSIT_STARTED"}
        BY <1>0, <2>2, <3>1, InFlight DEF LeadsOn, StepsOn, StateFits, StateIsFlows, Suits
      <4> QED
        BY <1>0, <4>1 DEF StateFits
    <3> QED
      BY <1>1, <2>2, <3>1, <3>2 DEF LeadsOn, StateFits, Waiting
  <2>3. CASE page' = page /\ ~LeadsOn(c)
    <3>1. page.busy /\ page.flow = c =>
            StateIsFlows(page.state.name, page.state.priced, tasks'[c].kind, tasks'[c].step)
      <4> SUFFICES ASSUME page.busy, page.flow = c
                   PROVE  StateIsFlows(page.state.name, page.state.priced, tasks'[c].kind, tasks'[c].step)
        OBVIOUS
      <4>1. StateIsFlows(page.state.name, page.state.priced, tasks[c].kind, tasks[c].step)
        BY <1>0 DEF StateFits
      <4>2. Suits(tasks[c].kind, tasks[c].step) /\ Suits(tasks[c].kind, tasks'[c].step)
            /\ tasks'[c].kind = tasks[c].kind
        BY InFlight DEF StepsOn
      <4>3. CASE tasks[c].kind \in {"price", "open"}
        BY <2>3, <4>1, <4>2, <4>3 DEF StateIsFlows
      <4>4. CASE tasks[c].kind \notin {"price", "open"}
        BY <4>1, <4>2, <4>4 DEF StateIsFlows
      <4> QED
        BY <4>3, <4>4
    <3>2. page.busy /\ page.flow # c => tasks'[page.flow] = tasks[page.flow]
      BY <2>1 DEF StepsOn
    <3>3. page.busy' => StateIsFlows(page.state.name, page.state.priced, tasks[page.flow].kind, tasks[page.flow].step)'
      BY <1>0, <2>3, <3>1, <3>2 DEF StateFits
    <3> QED
      BY <1>0, <2>3, <3>3 DEF StateFits
  <2> QED
    BY <2>2, <2>3
<1>8. ScreenFits'
  <2>1. \A x \in Controller : Running(x)' => Running(x) /\ tasks'[x].kind = tasks[x].kind
          /\ (tasks'[x].kind # "open" => tasks'[x].deposit = tasks[x].deposit)
    BY DEF Running, StepsOn
  <2> QED
    BY <1>0, <1>1, <2>1 DEF ScreenFits
<1>9. ClaimFits'
  <2>1. \A x \in Controller : tasks'[x] # None /\ tasks'[x].kind = "claim" =>
          tasks[x].kind = "claim" /\ tasks'[x].deposit = tasks[x].deposit
    BY DEF StepsOn
  <2>2. LeadsOn(c) => \A x \in Controller : RunningFlow(x) => x = c
    BY <1>0 DEF LeadsOn, FlowRef
  <2> QED
    BY <1>0, <1>2, <2>1, <2>2 DEF ClaimFits, LeadsOn, RunningFlow, Running, FlowKind
<1> QED
  BY <1>3, <1>4, <1>5, <1>6, <1>7, <1>8, <1>9 DEF AnchorInv

LEMMA MovedTask ==
    ASSUME TypeOK, NEW c \in Controller, tasks[c] # None, NEW step \in Step, tasks' = Moved(c, step)
    PROVE  /\ tasks'[c] # None /\ \A x \in Controller \ {c} : tasks'[x] = tasks[x]
           /\ tasks'[c].kind = tasks[c].kind /\ tasks'[c].account = tasks[c].account /\ tasks'[c].step = step
           /\ tasks'[c].balance = tasks[c].balance /\ tasks'[c].deposit = tasks[c].deposit
           /\ tasks'[c].live = tasks[c].live /\ tasks'[c].aborted = tasks[c].aborted
<1>1. tasks[c] \in Task /\ tasks'[c] = [tasks[c] EXCEPT !.step = step]
      /\ \A x \in Controller \ {c} : tasks'[x] = tasks[x]
  BY DEF TypeOK, Moved
<1>2. tasks'[c] \in Task
  BY <1>1 DEF Task
<1>3. tasks'[c] # None
  BY <1>2, NoneAssumption
<1> QED
  BY <1>1, <1>3 DEF Task

LEMMA LeadPreserves ==
    ASSUME AnchorInv, TypeOK', NEW c \in Controller, DiscoveryAnswered(c) \/ SignedIn(c) \/ QuoteAnswered(c)
    PROVE  AnchorInv'
<1>0. /\ TypeOK /\ page \in Page /\ page.state \in State /\ TasksFit /\ DepositsKnown /\ FlowRef /\ StateFits
  BY Known
<1>1. /\ tasks[c] # None /\ tasks[c].kind \in {"price", "open"} /\ ~tasks[c].aborted
      /\ tasks[c].step \in {"discover", "sign_in", "quote"} /\ UNCHANGED <<address, saved, deposits>>
  BY DEF DiscoveryAnswered, SignedIn, QuoteAnswered, At, Proceeds
<1>2. tasks[c].live /\ page.mounted
  BY <1>0, <1>1 DEF TasksFit
<1>3. RunningFlow(c) /\ page.flow = c /\ page.busy
  BY <1>0, <1>1, <1>2 DEF RunningFlow, Running, FlowKind, FlowRef
<1>4. StateIsFlows(page.state.name, page.state.priced, tasks[c].kind, tasks[c].step)
  BY <1>0, <1>3 DEF StateFits
<1>5. PICK step \in Step, name \in {"PRICING", "QUOTING", "DEPOSIT_STARTED"} :
        /\ tasks' = Moved(c, step) /\ page' = [page EXCEPT !.state = [page.state EXCEPT !.name = name]]
        /\ StateIsFlows(name, page.state.priced, tasks[c].kind, step) /\ Suits(tasks[c].kind, step)
        /\ step \notin {"ticket", "landed", "poll"}
  <2>1. CASE DiscoveryAnswered(c)
    <3>1. page.state.name = "DISCOVERING" /\ tasks[c].kind = "price" /\ ~page.state.priced
      BY <1>0, <1>4, <2>1 DEF DiscoveryAnswered, At, StateIsFlows, StateFits
    <3>2. tasks' = Moved(c, "price") /\ page' = [page EXCEPT !.state = [page.state EXCEPT !.name = "PRICING"]]
      BY <1>2, <2>1, <3>1 DEF DiscoveryAnswered, Shows, Discovered
    <3> QED
      BY <3>1, <3>2 DEF Step, Suits, StateIsFlows
  <2>2. CASE SignedIn(c)
    <3>1. page.state.name = "AUTHENTICATING" /\ tasks[c].kind = "open"
      BY <1>4, <2>2 DEF SignedIn, At, StateIsFlows
    <3>2. tasks' = Moved(c, "quote") /\ page' = [page EXCEPT !.state = [page.state EXCEPT !.name = "QUOTING"]]
      BY <1>2, <2>2, <3>1 DEF SignedIn, Shows, Authenticated
    <3> QED
      BY <3>1, <3>2 DEF Step, Suits, StateIsFlows
  <2>3. CASE QuoteAnswered(c)
    <3>1. page.state.name = "QUOTING" /\ tasks[c].kind = "open"
      BY <1>4, <2>3 DEF QuoteAnswered, At, StateIsFlows
    <3>2. tasks' = Moved(c, "request")
          /\ page' = [page EXCEPT !.state = [page.state EXCEPT !.name = "DEPOSIT_STARTED"]]
      BY <1>2, <2>3, <3>1 DEF QuoteAnswered, Shows, Quoted
    <3> QED
      BY <3>1, <3>2 DEF Step, Suits, StateIsFlows
  <2> QED
    BY <2>1, <2>2, <2>3
<1>6. /\ page'.offered = page.offered /\ page'.mounted = page.mounted
      /\ page'.flow = page.flow /\ page'.busy = page.busy /\ page'.polling = page.polling
      /\ page'.state = [page.state EXCEPT !.name = name]
  BY <1>0, <1>5 DEF Page
<1>7. /\ page'.state.deposit = page.state.deposit /\ page'.state.balance = page.state.balance
      /\ page'.state.ticket = page.state.ticket /\ page'.state.priced = page.state.priced
      /\ page'.state.name = name
  BY <1>0, <1>6 DEF State
<1>8. StepsOn(c)
  <2>1. /\ tasks'[c] # None /\ \A x \in Controller \ {c} : tasks'[x] = tasks[x]
        /\ tasks'[c].kind = tasks[c].kind /\ tasks'[c].account = tasks[c].account /\ tasks'[c].step = step
        /\ tasks'[c].balance = tasks[c].balance /\ tasks'[c].deposit = tasks[c].deposit
        /\ tasks'[c].live = tasks[c].live /\ tasks'[c].aborted = tasks[c].aborted
    BY <1>0, <1>1, <1>5, MovedTask
  <2>2. Opened(tasks[c].deposit)'
    BY <1>0, <1>1, <2>1 DEF DepositsKnown, Opened
  <2> QED
    BY <1>1, <1>2, <1>5, <2>1, <2>2 DEF StepsOn
<1>9. LeadsOn(c)
  BY <1>0, <1>1, <1>2, <1>3, <1>5, <1>6, <1>7, MovedTask, ZenonT(40) DEF LeadsOn
<1> QED
  BY <1>0, <1>1, <1>8, <1>9, DepositsSame, MovedPreserves

LEMMA StepPreserves ==
    ASSUME AnchorInv, TypeOK', NEW c \in Controller,
           \/ ClaimLoaded(c) \/ ClaimSigned(c) \/ ClaimLands(c) \/ AnchorOpens(c)
           \/ UsdcEnabled(c) /\ ~tasks[c].live
    PROVE  AnchorInv'
<1>0. TypeOK /\ page \in Page /\ TasksFit /\ DepositsKnown /\ FlowRef /\ PollRef /\ Len(deposits) \in Nat
  BY Known DEF TypeOK
<1>1. CASE ClaimLoaded(c) \/ ClaimSigned(c)
  <2>1. PICK step \in {"sign", "submit"} : tasks' = Moved(c, step) /\ UNCHANGED <<address, page, saved, deposits>>
    BY <1>1 DEF ClaimLoaded, ClaimSigned
  <2>2. tasks[c] # None /\ tasks[c].kind = "claim" /\ tasks[c].step \in {"load", "sign"}
    BY <1>1 DEF ClaimLoaded, ClaimSigned, At
  <2>3. tasks[c].live
    BY <1>0, <2>2 DEF TasksFit
  <2>4. /\ tasks'[c] # None /\ \A x \in Controller \ {c} : tasks'[x] = tasks[x]
        /\ tasks'[c].kind = tasks[c].kind /\ tasks'[c].account = tasks[c].account /\ tasks'[c].step = step
        /\ tasks'[c].balance = tasks[c].balance /\ tasks'[c].deposit = tasks[c].deposit
        /\ tasks'[c].live = tasks[c].live /\ tasks'[c].aborted = tasks[c].aborted
    BY <1>0, <2>1, <2>2, MovedTask DEF Step
  <2>5. StepsOn(c)
    <3>1. Opened(tasks[c].deposit)'
      BY <1>0, <2>1, <2>2, <2>4 DEF DepositsKnown, Opened
    <3> QED
      BY <2>1, <2>2, <2>3, <2>4, <3>1 DEF StepsOn, Suits
  <2> QED
    BY <1>0, <2>1, <2>2, <2>5, DepositsSame, MovedPreserves
<1>2. CASE ClaimLands(c)
  <2> DEFINE b == tasks[c].balance
  <2>1. /\ tasks[c] # None /\ tasks[c].kind = "claim" /\ tasks[c].step = "submit"
        /\ deposits' = [deposits EXCEPT ![b].claimed = TRUE] /\ tasks' = Moved(c, "landed")
        /\ UNCHANGED <<address, page, saved>>
    BY <1>2 DEF ClaimLands, At
  <2>2. b \in 1..Len(deposits) /\ deposits[b] \in Deposit
    BY <2>1, InFlight
  <2>3. DepositsKept /\ deposits'[b].claimed /\ Len(deposits') = Len(deposits)
    BY <1>0, <2>1, <2>2 DEF DepositsKept, TypeOK, Deposit
  <2>4. /\ tasks'[c] # None /\ \A x \in Controller \ {c} : tasks'[x] = tasks[x]
        /\ tasks'[c].kind = tasks[c].kind /\ tasks'[c].account = tasks[c].account /\ tasks'[c].step = "landed"
        /\ tasks'[c].balance = tasks[c].balance /\ tasks'[c].deposit = tasks[c].deposit
        /\ tasks'[c].live = tasks[c].live /\ tasks'[c].aborted = tasks[c].aborted
    BY <1>0, <2>1, MovedTask DEF Step
  <2>5. StepsOn(c)
    <3>1. Opened(tasks[c].deposit)'
      BY <1>0, <2>1, <2>3, <2>4 DEF DepositsKnown, Opened
    <3> QED
      BY <2>1, <2>3, <2>4, <3>1 DEF StepsOn, Suits
  <2> QED
    BY <2>1, <2>3, <2>5, MovedPreserves
<1>3. CASE AnchorOpens(c)
  <2> DEFINE new == [account |-> tasks[c].account, status |-> "waiting", claimed |-> FALSE]
  <2>1. /\ tasks[c] # None /\ tasks[c].kind = "open" /\ tasks[c].step = "request"
        /\ deposits' = Append(deposits, new) /\ Len(deposits) < MaxDeposits
        /\ UNCHANGED <<address, page, saved>>
    BY <1>3 DEF AnchorOpens, At
  <2>2. /\ Len(deposits') = Len(deposits) + 1 /\ deposits'[Len(deposits')].account = tasks[c].account
        /\ \A d \in 1..Len(deposits) : deposits'[d] = deposits[d]
    BY <1>0, <2>1 DEF TypeOK
  <2>3. DepositsKept
    BY <1>0, <2>2 DEF DepositsKept
  <2>4. CASE tasks[c].live
    <3>1. PICK d \in DepositId : d = Len(deposits') /\ d # None
      BY <1>0, <2>1, <2>2, AnchorAssumption
    <3>2. tasks[c] \in Task /\ tasks' = [tasks EXCEPT ![c].step = "ticket", ![c].deposit = d]
      BY <1>0, <1>3, <2>1, <2>4, <3>1 DEF AnchorOpens, TypeOK
    <3>3. /\ tasks'[c] = [tasks[c] EXCEPT !.step = "ticket", !.deposit = d]
          /\ \A x \in Controller \ {c} : tasks'[x] = tasks[x]
      BY <1>0, <3>2 DEF TypeOK
    <3>6. PICK t \in Task :
            /\ t.kind = tasks[c].kind /\ t.account = tasks[c].account /\ t.step = "ticket"
            /\ t.balance = tasks[c].balance /\ t.live = tasks[c].live /\ t.aborted = tasks[c].aborted
            /\ tasks'[c] = [t EXCEPT !.deposit = d]
      <4>1. [tasks[c] EXCEPT !.step = "ticket"] \in Task
        BY <3>2 DEF Task, Step
      <4>2. tasks'[c] = [[tasks[c] EXCEPT !.step = "ticket"] EXCEPT !.deposit = d]
        BY <3>3
      <4> QED
        BY <3>2, <4>1, <4>2 DEF Task
    <3>4. tasks'[c] \in Task /\ tasks'[c] # None
      <4>1. tasks'[c] \in Task
        BY <3>6 DEF Task
      <4> QED
        BY <4>1, NoneAssumption
    <3>5. /\ tasks'[c].kind = tasks[c].kind /\ tasks'[c].account = tasks[c].account /\ tasks'[c].step = "ticket"
          /\ tasks'[c].balance = tasks[c].balance /\ tasks'[c].deposit = d
          /\ tasks'[c].live = tasks[c].live /\ tasks'[c].aborted = tasks[c].aborted
      BY <3>6 DEF Task
    <3>7. StepsOn(c)
      <4>1. Opened(tasks[c].deposit)'
        BY <1>0, <2>2, <3>1, <3>5 DEF Opened
      <4>2. tasks'[c].deposit # None /\ deposits'[tasks'[c].deposit].account = tasks'[c].account
        BY <2>2, <3>1, <3>5
      <4> QED
        BY <2>1, <2>4, <3>3, <3>4, <3>5, <4>1, <4>2 DEF StepsOn, Suits
    <3> QED
      BY <2>1, <2>3, <3>5, <3>7, MovedPreserves
  <2>5. CASE ~tasks[c].live
    <3>1. tasks' = Ended(c)
      BY <1>3, <2>5 DEF AnchorOpens
    <3>2. RefsLetGo(c) /\ page.flow # c
      BY <2>1, <2>5, RefsOfDead
    <3> QED
      BY <2>1, <2>3, <3>1, <3>2, EndsQuietly
  <2> QED
    BY <2>4, <2>5
<1>4. CASE UsdcEnabled(c) /\ ~tasks[c].live
  <2>1. /\ tasks[c] # None /\ tasks[c].kind = "enable" /\ tasks[c].step = "enable"
        /\ tasks' = Moved(c, "poll") /\ UNCHANGED <<address, page, saved, deposits>>
    BY <1>4 DEF UsdcEnabled, At
  <2>2. /\ tasks'[c] # None /\ \A x \in Controller \ {c} : tasks'[x] = tasks[x]
        /\ tasks'[c].kind = tasks[c].kind /\ tasks'[c].account = tasks[c].account /\ tasks'[c].step = "poll"
        /\ tasks'[c].balance = tasks[c].balance /\ tasks'[c].deposit = tasks[c].deposit
        /\ tasks'[c].live = tasks[c].live /\ tasks'[c].aborted = tasks[c].aborted
    BY <1>0, <2>1, MovedTask DEF Step
  <2>3. StepsOn(c)
    <3>1. Opened(tasks[c].deposit)'
      BY <1>0, <2>1, <2>2 DEF DepositsKnown, Opened
    <3> QED
      BY <1>4, <2>1, <2>2, <3>1 DEF StepsOn, Suits
  <2> QED
    BY <1>0, <2>1, <2>3, DepositsSame, MovedPreserves
<1> QED
  BY <1>1, <1>2, <1>3, <1>4

LEMMA PollBegins ==
    ASSUME AnchorInv, TypeOK', NEW c \in Controller,
           \/ TicketAnswered(c)
           \/ ResumeAnswered(c) /\ tasks[c].balance = None
           \/ UsdcEnabled(c) /\ tasks[c].live
    PROVE  AnchorInv'
<1>0. /\ TypeOK /\ page \in Page /\ page.state \in State /\ TasksFit /\ DepositsKnown /\ FlowRef
      /\ StateFits /\ ScreenFits
  BY Known
<1>1. CASE TicketAnswered(c)
  <2> DEFINE d == tasks[c].deposit
             record == [deposit |-> d, account |-> tasks[c].account, balance |-> None]
             q == [page EXCEPT !.state = DepositStarted(page.state, d), !.offered = record]
  <2>1. /\ tasks[c] # None /\ tasks[c].kind = "open" /\ tasks[c].step = "ticket" /\ ~tasks[c].aborted
        /\ saved' = record /\ BeginPoll(FinishFlow(q, c), c, "poll", d) /\ UNCHANGED <<address, deposits>>
    BY <1>1 DEF TicketAnswered, At, Proceeds
  <2>2. tasks[c].live
    BY <1>0, <2>1 DEF TasksFit
  <2>3. RunningFlow(c) /\ page.flow = c /\ page.busy /\ page.mounted /\ tasks[c].account = address
        /\ d \in DepositId /\ d \in 1..Len(deposits) /\ address \in Account
    BY <1>0, <2>1, <2>2, InFlight DEF RunningFlow, Running, FlowKind, FlowRef
  <2>4. page.state.name = "DEPOSIT_STARTED" /\ page.state.balance = None
    BY <1>0, <2>1, <2>3 DEF StateFits, StateIsFlows
  <2>5. record \in Record /\ record # None
    BY <2>3, NoneAssumption DEF Record
  <2>6. record.deposit = d /\ record.account = address /\ record.balance = None
    BY <2>3
  <2>7. DepositStarted(page.state, d) = [page.state EXCEPT !.name = "AWAITING_BANK_TRANSFER", !.ticket = TRUE, !.deposit = d]
    BY <2>4 DEF DepositStarted
  <2> DEFINE s == DepositStarted(page.state, d)
  <2>8. s \in State /\ s.name = "AWAITING_BANK_TRANSFER" /\ s.deposit = d /\ s.balance = None
    <3>1. s \in State
      BY <1>0, <2>3, ReducerTypes
    <3>2. s.name = "AWAITING_BANK_TRANSFER" /\ s.deposit = d /\ s.balance = page.state.balance
      BY <1>0, <2>7 DEF State
    <3> QED
      BY <2>4, <3>1, <3>2
  <2> HIDE DEF record, s
  <2>9. /\ q \in Page /\ q.mounted = page.mounted /\ q.flow = page.flow /\ q.busy = page.busy
        /\ q.polling = page.polling /\ q.state = s /\ q.offered = record
    BY <1>0, <2>5, <2>8 DEF Page, s
  <2> HIDE DEF q
  <2> DEFINE p == FinishFlow(q, c)
  <2>10. /\ p \in Page /\ p.mounted /\ p.flow = None /\ ~p.busy /\ p.polling = page.polling
         /\ p.state = s /\ p.offered = record
    BY <2>3, <2>9 DEF FinishFlow, Page
  <2>11. BeginPoll(p, c, "poll", d)
    BY <2>1
  <2> HIDE DEF p
  <2>12. page.polling # c
    BY <2>1, OtherRef
  <2>13. deposits[d].account = address /\ deposits'[d].account = address
    BY <1>0, <2>1, <2>3 DEF DepositsKnown
  <2>14. RecordFits(p)
    <3>1. saved'.deposit = d /\ saved'.account = address /\ saved'.balance = None /\ Len(deposits') = Len(deposits)
      BY <2>1, <2>6
    <3>2. TrueRecord(saved)'
      BY <2>3, <2>13, <3>1 DEF TrueRecord, Opened, Claimable
    <3>3. TrueRecord(p.offered)
      BY <2>3, <2>6, <2>10, <2>13 DEF TrueRecord, Opened, Claimable
    <3> QED
      BY <2>1, <2>5, <2>10, <3>2, <3>3 DEF RecordFits
  <2>15. FlowTurnsIntoPoll(p, c, d)
    BY <2>1, <2>3, <2>6, <2>8, <2>10 DEF FlowTurnsIntoPoll
  <2>16. Opened(d)
    BY <2>3 DEF Opened
  <2> HIDE DEF d
  <2> QED
    BY <2>1, <2>3, <2>10, <2>11, <2>12, <2>14, <2>15, <2>16, BeginPollPreserves
<1>2. CASE ResumeAnswered(c) /\ tasks[c].balance = None
  <2> DEFINE d == tasks[c].deposit
             s == Resumed(d, None)
             q == [page EXCEPT !.state = s]
             p == FinishFlow(q, c)
  <2>1. /\ tasks[c] # None /\ tasks[c].kind = "resume" /\ tasks[c].step = "discover" /\ ~tasks[c].aborted
        /\ BeginPoll(p, c, "poll", d) /\ UNCHANGED <<address, saved, deposits>>
    BY <1>2 DEF ResumeAnswered, At, Proceeds
  <2>2. tasks[c].live
    BY <1>0, <2>1 DEF TasksFit
  <2>3. RunningFlow(c) /\ page.flow = c /\ page.busy /\ page.mounted
        /\ d \in DepositId /\ d \in 1..Len(deposits) /\ address \in Account
    BY <1>0, <2>1, <2>2, InFlight DEF RunningFlow, Running, FlowKind, FlowRef
  <2>4. s \in State /\ s.name = "AWAITING_BANK_TRANSFER" /\ s.deposit = d /\ s.balance = None
    BY <2>3, FreshStates DEF Resumed, Initial
  <2> HIDE DEF s
  <2>5. /\ q \in Page /\ q.mounted = page.mounted /\ q.flow = page.flow /\ q.busy = page.busy
        /\ q.polling = page.polling /\ q.state = s /\ q.offered = page.offered
    BY <1>0, <2>4 DEF Page
  <2> HIDE DEF q
  <2>6. /\ p \in Page /\ p.mounted /\ p.flow = None /\ ~p.busy /\ p.polling = page.polling
        /\ p.state = s /\ p.offered = page.offered
    BY <2>3, <2>5 DEF FinishFlow, Page
  <2>7. BeginPoll(p, c, "poll", d)
    BY <2>1
  <2> HIDE DEF p
  <2>8. page.polling # c
    BY <2>1, OtherRef
  <2>9. RecordFits(p)
    <3>1. saved # None => page.offered # None /\ page.offered.deposit = saved.deposit /\ page.offered.account = saved.account
      BY <1>0, <2>3 DEF ScreenFits
    <3>2. TrueRecord(saved) /\ TrueRecord(page.offered)
      BY <1>0 DEF DepositsKnown
    <3> QED
      BY <2>1, <2>6, <3>1, <3>2 DEF RecordFits, TrueRecord, Opened, Claimable
  <2>10. FlowTurnsIntoPoll(p, c, d)
    <3>1. saved # None => saved.deposit = d /\ saved.account = address
      BY <1>0, <2>1, <2>3 DEF ScreenFits, RunningFlow
    <3> QED
      BY <2>1, <2>3, <2>4, <2>6, <3>1 DEF FlowTurnsIntoPoll
  <2>11. Opened(d)
    BY <2>3 DEF Opened
  <2> HIDE DEF d
  <2> QED
    BY <2>1, <2>3, <2>6, <2>7, <2>8, <2>9, <2>10, <2>11, BeginPollPreserves
<1>3. CASE UsdcEnabled(c) /\ tasks[c].live
  <2> DEFINE d == tasks[c].deposit
  <2>1. /\ tasks[c] # None /\ tasks[c].kind = "enable" /\ tasks[c].step = "enable"
        /\ BeginPoll(page, c, "enable", d) /\ UNCHANGED <<address, saved, deposits>>
    BY <1>3 DEF UsdcEnabled, At
  <2>2. d \in DepositId /\ d \in 1..Len(deposits) /\ page.mounted /\ page.polling # c /\ page.flow # c
    BY <1>3, <2>1, InFlight, OtherRef DEF FlowKind
  <2>3. RecordFits(page)
    <3>1. saved # None => page.offered # None /\ page.offered.deposit = saved.deposit /\ page.offered.account = saved.account
      BY <1>0, <2>2 DEF ScreenFits
    <3>2. TrueRecord(saved) /\ TrueRecord(page.offered)
      BY <1>0 DEF DepositsKnown
    <3> QED
      BY <2>1, <3>1, <3>2 DEF RecordFits, TrueRecord, Opened, Claimable
  <2>4. PollIsAdded(page, c, "enable", d)
    BY <2>1, <2>2 DEF PollIsAdded
  <2>5. Opened(d)
    BY <2>2 DEF Opened
  <2> HIDE DEF d
  <2> QED
    BY <1>0, <2>1, <2>2, <2>3, <2>4, <2>5, BeginPollPreserves
<1> QED
  BY <1>1, <1>2, <1>3

\* The rest of the steps of tasks: the claim is answered.
LEMMA ClaimAnsweredPreserves ==
    ASSUME AnchorInv, TypeOK', NEW c \in Controller, ClaimAnswered(c)
    PROVE  AnchorInv'
<1>0. /\ TypeOK /\ page \in Page /\ PageFits /\ TasksFit /\ DepositsKnown /\ FlowRef /\ PollRef
      /\ StateFits /\ ScreenFits /\ ClaimFits
  BY Known
<1>1. /\ tasks[c] # None /\ tasks[c].kind = "claim" /\ tasks[c].step = "landed" /\ saved' = None
      /\ UNCHANGED <<address, deposits>>
  BY DEF ClaimAnswered, At
<1>2. CASE tasks[c].live
  <2>1. Unmount(Ended(c))
    BY <1>2 DEF ClaimAnswered
  <2>2. \A x \in Controller : Ended(c)[x] \in {tasks[x], None}
    BY <1>0 DEF TypeOK, Ended
  <2> QED
    BY <1>1, <2>1, <2>2, UnmountPreserves
<1>3. CASE ~tasks[c].live
  <2>1. tasks' = Ended(c) /\ page' = page
    BY <1>3 DEF ClaimAnswered
  <2>2. RefsLetGo(c)
    BY <1>1, <1>3, <2>1, RefsOfDead
  <2>3. PageFits' /\ TasksFit' /\ FlowRef' /\ PollRef'
    BY <1>1, <2>1, <2>2, EndedRefs
  <2>4. RecordKept
    BY <1>0, <1>1, <2>1 DEF RecordKept, DepositsKnown, TrueRecord, Opened, Claimable
  <2> QED
    BY <1>0, <1>1, <2>1, <2>3, <2>4, EndedAlike, PolledPreserves
<1> QED
  BY <1>2, <1>3

LEMMA TaskPreserves ==
    ASSUME AnchorInv, NEW c \in Controller, PollStep(c) \/ TaskStep(c)
    PROVE  AnchorInv'
<1>1. TypeOK'
  BY PollTypes, TaskTypes
<1>2. CASE PollStep(c)
  BY <1>1, <1>2, PollContinuesPreserves, PollEndsPreserves, QuietPreserves DEF PollStep
<1>3. CASE DiscoveryAnswered(c) \/ SignedIn(c) \/ QuoteAnswered(c)
  BY <1>1, <1>3, LeadPreserves
<1>4. CASE ClaimLoaded(c) \/ ClaimSigned(c) \/ ClaimLands(c) \/ AnchorOpens(c)
  BY <1>1, <1>4, StepPreserves
<1>5. CASE TicketAnswered(c) \/ ResumeAnswered(c)
  BY <1>1, <1>5, PollBegins, FlowSettles
<1>6. CASE UsdcEnabled(c)
  BY <1>1, <1>6, PollBegins, StepPreserves
<1>7. CASE FlowFails(c)
  BY <1>1, <1>7, FlowSettles, QuietPreserves
<1>8. CASE PriceAnswered(c)
  BY <1>1, <1>8, FlowSettles
<1>9. CASE TransferAnswered(c) \/ UsdcFailed(c) \/ AbortedReturns(c)
  BY <1>1, <1>9, QuietPreserves
<1>10. CASE ClaimAnswered(c)
  BY <1>1, <1>10, ClaimAnsweredPreserves
<1> QED
  BY <1>2, <1>3, <1>4, <1>5, <1>6, <1>7, <1>8, <1>9, <1>10 DEF TaskStep

-----------------------------------------------------------------------------
(* The invariant: the user, the network and the anchor *)

LEMMA VisitPreserves ==
    ASSUME AnchorInv, TypeOK', (\E a \in Account : Connect(a)) \/ Disconnect \/ Mount \/ Leave \/ ReloadDocument
    PROVE  AnchorInv'
<1>0. /\ TypeOK /\ page \in Page /\ PageFits /\ TasksFit /\ DepositsKnown /\ FlowRef /\ PollRef
      /\ StateFits /\ ScreenFits /\ ClaimFits
  BY Known
<1>1. CASE \E a \in Account : Connect(a)
  <2>1. /\ address = None /\ UNCHANGED <<page, tasks, saved, deposits>> /\ ~page.mounted
    BY <1>0, <1>1 DEF Connect, PageFits
  <2>2. page.state.deposit = None /\ \A x \in Controller : ~Running(x)
    BY <1>0, <2>1 DEF PageFits, Blank, Initial, TasksFit, Running
  <2>3. PageFits' /\ TasksFit'
    BY <1>0, <2>1 DEF PageFits, TasksFit
  <2>4. DepositsKnown' /\ FlowRef' /\ PollRef' /\ StateFits' /\ ClaimFits'
    BY <1>0, <2>1 DEF DepositsKnown, TrueRecord, Opened, Claimable, FlowRef, PollRef, RunningFlow, RunningPoll,
                      Running, StateFits, ClaimFits
  <2>5. ScreenFits'
    BY <1>0, <2>1, <2>2 DEF ScreenFits, Running
  <2> QED
    BY <2>3, <2>4, <2>5 DEF AnchorInv
<1>2. CASE Disconnect \/ Leave
  <2>1. Unmount(tasks) /\ UNCHANGED <<saved, deposits>>
    BY <1>2 DEF Disconnect, Leave
  <2> QED
    BY <2>1, UnmountPreserves
<1>3. CASE Mount
  <2>1. /\ address # None /\ ~page.mounted /\ page' = Blank(TRUE, saved) /\ UNCHANGED <<address, tasks, saved, deposits>>
    BY <1>3 DEF Mount
  <2>2. /\ page'.mounted /\ ~page'.busy /\ page'.flow = None /\ page'.polling = None /\ page'.offered = saved
        /\ page'.state.name = "IDLE" /\ ~page'.state.priced /\ ~page'.state.ticket
        /\ page'.state.deposit = None /\ page'.state.balance = None
    BY <2>1 DEF Blank, Initial
  <2>3. \A x \in Controller : tasks[x] # None => ~tasks[x].live
    BY <1>0, <2>1 DEF TasksFit
  <2>4. PageFits' /\ TasksFit'
    BY <1>0, <2>1, <2>2, <2>3 DEF PageFits, TasksFit
  <2>5. DepositsKnown'
    BY <1>0, <2>1, <2>2 DEF DepositsKnown, TrueRecord, Opened, Claimable
  <2>6. FlowRef' /\ PollRef' /\ ScreenFits' /\ ClaimFits'
    BY <2>1, <2>2, <2>3 DEF FlowRef, PollRef, ScreenFits, ClaimFits, RunningFlow, RunningPoll, Running
  <2>7. StateFits'
    BY <2>2 DEF StateFits, Waits, Waiting
  <2> QED
    BY <2>4, <2>5, <2>6, <2>7 DEF AnchorInv
<1>4. CASE ReloadDocument
  <2>1. /\ page' = Blank(FALSE, None) /\ tasks' = [c \in Controller |-> None] /\ UNCHANGED <<address, saved, deposits>>
    BY <1>4 DEF ReloadDocument
  <2>2. /\ ~page'.mounted /\ ~page'.busy /\ page'.flow = None /\ page'.polling = None /\ page'.offered = None
        /\ page'.state.name = "IDLE" /\ ~page'.state.priced /\ ~page'.state.ticket
        /\ page'.state.deposit = None /\ page'.state.balance = None
    BY <2>1 DEF Blank, Initial
  <2>3. \A x \in Controller : tasks'[x] = None
    BY <2>1
  <2>4. PageFits' /\ TasksFit' /\ FlowRef' /\ PollRef' /\ ScreenFits' /\ ClaimFits'
    BY <2>1, <2>2, <2>3 DEF PageFits, TasksFit, FlowRef, PollRef, ScreenFits, ClaimFits, RunningFlow, RunningPoll, Running
  <2>5. DepositsKnown'
    BY <1>0, <2>1, <2>2, <2>3 DEF DepositsKnown, TrueRecord, Opened, Claimable
  <2>6. StateFits'
    BY <2>2 DEF StateFits, Waits, Waiting
  <2> QED
    BY <2>4, <2>5, <2>6 DEF AnchorInv
<1> QED
  BY <1>1, <1>2, <1>3, <1>4

LEMMA ResetPreserves == ASSUME AnchorInv, TypeOK', Reset PROVE AnchorInv'
<1>0. /\ TypeOK /\ page \in Page /\ PageFits /\ TasksFit /\ DepositsKnown /\ FlowRef /\ PollRef
      /\ StateFits /\ ScreenFits /\ ClaimFits
      /\ page.flow \in Controller \cup {None} /\ page.polling \in Controller \cup {None}
  BY Known DEF Page
<1>1. /\ page.state.name \in {"ERROR", "COMPLETED"} /\ saved' = None /\ UNCHANGED <<address, deposits>>
      /\ tasks' = Aborting({page.flow, page.polling})
      /\ page' = [Blank(TRUE, None) EXCEPT !.flow = page.flow, !.polling = page.polling]
  BY DEF Reset, TerminalState
<1>2. page.mounted /\ address # None
  BY <1>0, <1>1, Known
<1>3. /\ page'.mounted /\ ~page'.busy /\ page'.offered = None
      /\ page'.state.name = "IDLE" /\ ~page'.state.priced /\ ~page'.state.ticket
      /\ page'.state.deposit = None /\ page'.state.balance = None
      /\ page'.flow = page.flow /\ page'.polling = page.polling
  BY <1>1 DEF Blank, Initial
<1>4. \A x \in Controller :
        /\ tasks'[x] = None <=> tasks[x] = None
        /\ tasks[x] # None =>
             /\ tasks'[x].kind = tasks[x].kind /\ tasks'[x].step = tasks[x].step
             /\ tasks'[x].account = tasks[x].account /\ tasks'[x].live = tasks[x].live
             /\ tasks'[x].deposit = tasks[x].deposit /\ tasks'[x].balance = tasks[x].balance
             /\ tasks'[x].aborted <=> tasks[x].aborted \/ x \in {page.flow, page.polling}
  BY <1>0, <1>1, AbortingKeeps
<1>5. \A x \in Controller : Running(x)' => Running(x) /\ x # page.flow /\ x # page.polling
  BY <1>4 DEF Running
<1>6. \A x \in Controller : Running(x)' => tasks'[x].kind = "enable"
  <2> SUFFICES ASSUME NEW x \in Controller, Running(x)' PROVE tasks'[x].kind = "enable"
    OBVIOUS
  <2>1. /\ Running(x) /\ tasks'[x].kind = tasks[x].kind /\ tasks[x] # None
        /\ ~RunningFlow(x) /\ ~RunningPoll(x)
    BY <1>0, <1>4, <1>5 DEF FlowRef, PollRef, Running
  <2> QED
    BY <2>1, InFlight DEF RunningFlow, RunningPoll, Suits, FlowKind
<1>7. PageFits' /\ TasksFit'
  <2>1. PageFits'
    BY <1>1, <1>2, <1>3 DEF PageFits
  <2>2. ASSUME NEW x \in Controller, tasks'[x] # None
        PROVE  /\ Suits(tasks'[x].kind, tasks'[x].step)
               /\ tasks'[x].live => page'.mounted /\ tasks'[x].account = address'
               /\ ~tasks'[x].live => tasks'[x].kind = "enable" \/ tasks'[x].step \in {"submit", "landed", "request"}
               /\ tasks'[x].kind \notin {"price", "open"} \/ tasks'[x].step = "ticket" => tasks'[x].deposit # None
               /\ tasks'[x].kind = "claim" => tasks'[x].balance # None
    <3>1. /\ tasks[x] # None /\ tasks'[x].kind = tasks[x].kind /\ tasks'[x].step = tasks[x].step
          /\ tasks'[x].account = tasks[x].account /\ tasks'[x].live = tasks[x].live
          /\ tasks'[x].deposit = tasks[x].deposit /\ tasks'[x].balance = tasks[x].balance
      BY <1>4, <2>2
    <3>2. /\ Suits(tasks[x].kind, tasks[x].step)
          /\ tasks[x].live => tasks[x].account = address
          /\ ~tasks[x].live => tasks[x].kind = "enable" \/ tasks[x].step \in {"submit", "landed", "request"}
          /\ tasks[x].kind \notin {"price", "open"} \/ tasks[x].step = "ticket" => tasks[x].deposit # None
          /\ tasks[x].kind = "claim" => tasks[x].balance # None
      BY <1>0, <3>1 DEF TasksFit
    <3> QED
      BY <1>1, <1>3, <3>1, <3>2
  <2> QED
    BY <2>1, <2>2 DEF TasksFit
<1>8. DepositsKnown'
  <2>1. \A x \in Controller : tasks'[x] # None =>
          /\ Opened(tasks'[x].deposit) /\ Claimable(tasks'[x].balance)
          /\ tasks'[x].step = "ticket" => deposits[tasks'[x].deposit].account = tasks'[x].account
          /\ tasks'[x].step = "landed" => deposits[tasks'[x].balance].claimed
    BY <1>0, <1>4 DEF DepositsKnown
  <2> QED
    BY <1>1, <1>3, <2>1 DEF DepositsKnown, TrueRecord, Opened, Claimable
<1>9. FlowRef' /\ PollRef'
  BY <1>0, <1>3, <1>4, <1>6 DEF FlowRef, PollRef, RunningFlow, RunningPoll, Running, TasksFit, Suits, FlowKind
<1>10. StateFits'
  BY <1>3 DEF StateFits, Waits, Waiting
<1>11. ScreenFits'
  BY <1>1, <1>3, <1>6 DEF ScreenFits
<1>12. ClaimFits'
  <2> SUFFICES ASSUME NEW x \in Controller, tasks'[x] # None, tasks'[x].live, tasks'[x].kind = "claim",
                      tasks'[x].balance = tasks'[x].deposit
               PROVE FALSE
    BY DEF ClaimFits
  <2>1. tasks[x] # None /\ tasks[x].live /\ tasks[x].kind = "claim" /\ tasks[x].balance = tasks[x].deposit
    BY <1>4
  <2> QED
    BY <1>0, <1>1, <2>1 DEF ClaimFits
<1> QED
  BY <1>7, <1>8, <1>9, <1>10, <1>11, <1>12 DEF AnchorInv

LEMMA ResumePollingPreserves == ASSUME AnchorInv, TypeOK', ResumePolling PROVE AnchorInv'
<1> DEFINE n == NextController
           d == page.state.deposit
<1>0. /\ TypeOK /\ page \in Page /\ page.state \in State /\ DepositsKnown /\ FlowRef /\ PollRef /\ ScreenFits
  BY Known
<1>1. /\ page.mounted /\ d # None /\ n \in Controller /\ tasks[n] = None
      /\ BeginPoll(page, n, "poll", d) /\ UNCHANGED <<address, saved, deposits>>
  BY FreeTask DEF ResumePolling
<1>2. d \in DepositId /\ Opened(d)
  BY <1>0, <1>1 DEF State, DepositsKnown
<1>3. page.flow # n /\ page.polling # n
  BY <1>0, <1>1, ControllerIsSome DEF FlowRef, PollRef
<1>4. RecordFits(page)
  <2>1. saved # None => page.offered # None /\ page.offered.deposit = saved.deposit /\ page.offered.account = saved.account
    BY <1>0, <1>1 DEF ScreenFits
  <2>2. TrueRecord(saved) /\ TrueRecord(page.offered)
    BY <1>0 DEF DepositsKnown
  <2> QED
    BY <1>1, <2>1, <2>2 DEF RecordFits, TrueRecord, Opened, Claimable
<1>5. PollIsAdded(page, n, "poll", d)
  BY <1>1, <1>3 DEF PollIsAdded
<1> HIDE DEF n, d
<1> QED
  BY <1>0, <1>1, <1>2, <1>3, <1>4, <1>5, BeginPollPreserves

\* The task of the trustline is neither a flow nor a poll.
LEMMA EnablePreserves == ASSUME AnchorInv, TypeOK', EnableUsdc PROVE AnchorInv'
<1> DEFINE n == NextController
<1>0. /\ TypeOK /\ page \in Page /\ page.state \in State /\ PageFits /\ TasksFit /\ DepositsKnown
      /\ FlowRef /\ PollRef /\ StateFits /\ ScreenFits /\ ClaimFits
      /\ page.flow \in Controller \cup {None} /\ page.polling \in Controller \cup {None}
  BY Known DEF Page
<1>1. /\ page.state.name = "CLAIM_REQUIRED" /\ n \in Controller /\ tasks[n] = None
      /\ tasks' = [tasks EXCEPT ![n] = NewTask("enable", "enable", page.state.deposit, None)]
      /\ UNCHANGED <<address, page, saved, deposits>>
  BY FreeTask DEF EnableUsdc
<1>2. page.mounted /\ page.state.deposit # None /\ page.state.deposit \in DepositId
  BY <1>0, <1>1, Known DEF StateFits, Waiting, State
<1>3. address # None
  BY <1>0, <1>2 DEF PageFits
<1>4. NewTask("enable", "enable", page.state.deposit, None) \in Task
  BY <1>0, <1>2, <1>3, NewTaskType DEF Step
<1>5. /\ tasks'[n] = NewTask("enable", "enable", page.state.deposit, None)
      /\ \A x \in Controller \ {n} : tasks'[x] = tasks[x]
  BY <1>0, <1>1 DEF TypeOK
<1> HIDE DEF n
<1>6. /\ tasks'[n] # None /\ tasks'[n].kind = "enable" /\ tasks'[n].step = "enable" /\ tasks'[n].account = address
      /\ tasks'[n].deposit = page.state.deposit /\ tasks'[n].balance = None /\ tasks'[n].live = TRUE
  <2>1. tasks'[n] # None
    BY <1>4, <1>5, NoneAssumption
  <2> QED
    BY <1>5, <2>1 DEF NewTask
<1>7. page.flow # n /\ page.polling # n
  BY <1>0, <1>1, ControllerIsSome DEF FlowRef, PollRef
<1>8. PageFits' /\ TasksFit'
  BY <1>0, <1>1, <1>2, <1>5, <1>6 DEF PageFits, TasksFit, Suits
<1>9. DepositsKnown'
  BY <1>0, <1>1, <1>5, <1>6 DEF DepositsKnown, TrueRecord, Opened, Claimable
<1>10. FlowRef' /\ PollRef'
  BY <1>0, <1>1, <1>5, <1>6, <1>7 DEF FlowRef, PollRef, RunningFlow, RunningPoll, Running, FlowKind
<1>11. StateFits'
  <2>1. page.busy => tasks'[page.flow] = tasks[page.flow]
    BY <1>0, <1>5, <1>7 DEF FlowRef
  <2> QED
    BY <1>0, <1>1, <2>1 DEF StateFits, Waits
<1>12. ScreenFits' /\ ClaimFits'
  BY <1>0, <1>1, <1>5, <1>6 DEF ScreenFits, ClaimFits, Running
<1> QED
  BY <1>8, <1>9, <1>10, <1>11, <1>12 DEF AnchorInv

LEMMA UserPreserves == ASSUME AnchorInv, UserStep PROVE AnchorInv'
<1>1. TypeOK'
  BY UserTypes
<1> QED
  BY <1>1, VisitPreserves, ResetPreserves, UserFlowPreserves, ResumePollingPreserves, EnablePreserves DEF UserStep

\* A deposit that is claimable stays so, and its account and its claim stand.
LEMMA AnchorPreserves ==
    ASSUME AnchorInv, NEW d \in 1..Len(deposits), AnchorProgress(d)
    PROVE  AnchorInv'
<1>0. /\ TypeOK /\ page \in Page /\ PageFits /\ TasksFit /\ DepositsKnown /\ FlowRef /\ PollRef
      /\ StateFits /\ ScreenFits /\ ClaimFits /\ deposits[d] \in Deposit
  BY Known DEF TypeOK
<1>1. TypeOK'
  BY AnchorTypes
<1>2. PICK status \in NextStatus[deposits[d].status] :
          deposits' = [deposits EXCEPT ![d].status = status] /\ UNCHANGED <<address, page, tasks, saved>>
  BY DEF AnchorProgress
<1>3. deposits[d].status # "claimable"
  BY <1>2 DEF NextStatus
<1>4. DepositsKept
  BY <1>0, <1>2, <1>3 DEF DepositsKept, TypeOK, Deposit
<1>5. DepositsKnown'
  <2>1. TrueRecord(saved)' /\ TrueRecord(page.offered)' /\ Opened(page.state.deposit)' /\ Claimable(page.state.balance)'
    BY <1>2, <1>4, KnownPage
  <2>2. ASSUME NEW x \in Controller, tasks[x] # None
        PROVE  /\ Opened(tasks[x].deposit)' /\ Claimable(tasks[x].balance)'
               /\ tasks[x].step = "ticket" => deposits'[tasks[x].deposit].account = tasks[x].account
               /\ tasks[x].step = "landed" => deposits'[tasks[x].balance].claimed
    <3>1. /\ Opened(tasks[x].deposit) /\ Claimable(tasks[x].balance)
          /\ tasks[x].step = "ticket" => deposits[tasks[x].deposit].account = tasks[x].account
          /\ tasks[x].step = "landed" => deposits[tasks[x].balance].claimed
      BY <1>0, <2>2 DEF DepositsKnown
    <3>2. (tasks[x].step = "ticket" => tasks[x].deposit # None) /\ (tasks[x].step = "landed" => tasks[x].balance # None)
      BY <1>0, <2>2 DEF TasksFit, Suits
    <3> QED
      BY <1>2, <1>4, <3>1, <3>2 DEF DepositsKept, Opened, Claimable
  <2> QED
    BY <1>2, <2>1, <2>2 DEF DepositsKnown
<1>6. PageFits' /\ TasksFit' /\ FlowRef' /\ PollRef'
  BY <1>0, <1>2 DEF PageFits, TasksFit, FlowRef, PollRef, RunningFlow, RunningPoll, Running
<1>7. StateFits' /\ ScreenFits' /\ ClaimFits'
  BY <1>0, <1>2 DEF StateFits, Waits, ScreenFits, ClaimFits, RunningFlow, RunningPoll, Running
<1> QED
  BY <1>1, <1>5, <1>6, <1>7 DEF AnchorInv

LEMMA InitFits == Init => AnchorInv
<1> SUFFICES ASSUME Init PROVE AnchorInv
  OBVIOUS
<1>1. \A x \in Controller : tasks[x] = None
  BY DEF Init
<1>2. TypeOK
  <2>1. page \in Page
    BY BlankType DEF Init
  <2>2. deposits \in Seq(Deposit) /\ Len(deposits) = 0
    BY DEF Init
  <2>3. Len(deposits) <= MaxDeposits
    BY <2>2, AnchorAssumption
  <2> QED
    BY <2>1, <2>2, <2>3 DEF Init, TypeOK
<1>3. PageFits /\ TasksFit /\ DepositsKnown /\ FlowRef /\ PollRef /\ StateFits /\ ScreenFits /\ ClaimFits
  BY <1>1 DEF Init, PageFits, TasksFit, DepositsKnown, TrueRecord, Opened, Claimable, FlowRef, PollRef, RunningFlow,
              RunningPoll, Running, StateFits, Waits, Waiting, ScreenFits, ClaimFits, Blank, Initial
<1> QED
  BY <1>2, <1>3 DEF AnchorInv

LEMMA NextPreserves == AnchorInv /\ [Next]_vars => AnchorInv'
<1> SUFFICES ASSUME AnchorInv, [Next]_vars PROVE AnchorInv'
  OBVIOUS
<1>1. CASE UserStep
  BY <1>1, UserPreserves
<1>2. CASE \E c \in Controller : PollStep(c) \/ TaskStep(c)
  BY <1>2, TaskPreserves
<1>3. CASE \E d \in 1..Len(deposits) : AnchorProgress(d)
  BY <1>3, AnchorPreserves
<1>4. CASE UNCHANGED vars
  BY <1>4 DEF vars, AnchorInv, TypeOK, PageFits, TasksFit, DepositsKnown, TrueRecord, Opened, Claimable,
              FlowRef, PollRef, RunningFlow, RunningPoll, Running, StateFits, Waits, ScreenFits, ClaimFits, Blank
<1> QED
  BY <1>1, <1>2, <1>3, <1>4 DEF Next

\* Whatever the user, the anchor, the network and the tasks left behind do, the
\* refs, the tasks, the record and the screen agree as AnchorInv says.
THEOREM AnchorInvariant == Spec => []AnchorInv
  BY InitFits, NextPreserves, PTL DEF Spec

-----------------------------------------------------------------------------
(* The properties *)

\* The component, its tasks, the record and the anchor's deposits keep to their types.
THEOREM AnchorTypeOK == Spec => []TypeOK
<1>1. AnchorInv => TypeOK
  BY DEF AnchorInv
<1> QED
  BY <1>1, AnchorInvariant, PTL

\* flowBusy, flow.current and polling.current are those of the one flow and the
\* one poll that run, and no state waits for a flow that is gone.
THEOREM FlowsAreExclusive == Spec => []FlowsExclusive
<1>1. AnchorInv => FlowsExclusive
  <2> SUFFICES ASSUME AnchorInv PROVE FlowsExclusive
    OBVIOUS
  <2>1. /\ page.flow \in Controller \cup {None}
        /\ FlowRef /\ PollRef /\ StateFits
    BY Known DEF Page
  <2>2. page.busy => RunningFlow(page.flow) /\ page.flow \in Controller
    BY <2>1 DEF FlowRef, RunningFlow, Running
  <2> QED
    BY <2>1, <2>2 DEF FlowsExclusive, FlowRef, PollRef, StateFits, Waits
<1> QED
  BY <1>1, AnchorInvariant, PTL

\* What runs on the screen works for the record of the connected account.
THEOREM RecordsOfTheScreen == Spec => []RecordOfTheScreen
<1>1. AnchorInv => RecordOfTheScreen
  <2> SUFFICES ASSUME AnchorInv, NEW c \in Controller, Running(c), tasks[c].kind \in {"poll", "claim"}, saved # None
               PROVE  /\ saved.deposit = tasks[c].deposit /\ saved.account = address
                      /\ deposits[saved.deposit].account = address
    BY DEF RecordOfTheScreen
  <2>1. tasks[c].deposit = page.state.deposit /\ tasks[c].deposit # None
    BY Known DEF ScreenFits, TasksFit, Running
  <2>2. page.state.deposit = saved.deposit /\ saved.account = address
    BY <2>1, Known DEF ScreenFits
  <2>3. deposits[saved.deposit].account = saved.account
    BY Known DEF DepositsKnown, TrueRecord
  <2> QED
    BY <2>1, <2>2, <2>3
<1> QED
  BY <1>1, AnchorInvariant, PTL

\* WithBalance changes a record, it does not drop one.
LEMMA BalanceKeepsRecord ==
    ASSUME NEW r \in Record, NEW d \in DepositId PROVE WithBalance(r, d) # None
<1>1. r # None /\ [r EXCEPT !.balance = d] \in Record
  BY NoneAssumption DEF Record
<1> QED
  BY <1>1, NoneAssumption DEF WithBalance

\* The record is dropped by the button of the error state, by the answer to a
\* claim and by the end of a poll.
LEMMA RecordDropped ==
    ASSUME AnchorInv, Next, saved # None, saved' = None
    PROVE  \/ Reset
           \/ \E c \in Controller : ClaimAnswered(c)
           \/ \E c \in Controller : PollEnds(c) /\ Clears(deposits[tasks[c].deposit].status)
<1>0. TypeOK
  BY Known
<1>1. CASE UserStep
  BY <1>1 DEF UserStep, Connect, Disconnect, Mount, Leave, ReloadDocument, CheckRate, OpenDeposit, ResumeDeposit,
              SimulateTransfer, ResumePolling, ClaimBalance, EnableUsdc, BeginFlow
<1>2. ASSUME NEW c \in Controller, PollStep(c)
      PROVE  PollEnds(c) /\ Clears(deposits[tasks[c].deposit].status)
  <2>1. PollEnds(c)
    BY <1>2 DEF PollStep, PollContinues, PollFails
  <2> DEFINE status == deposits[tasks[c].deposit].status
  <2>2. saved' = CASE status \in WithClaimable -> WithBalance(saved, tasks[c].deposit)
                   [] Clears(status) -> None
                   [] OTHER -> saved
    BY <2>1 DEF PollEnds
  <2>3. saved \in Record /\ tasks[c].deposit \in DepositId
    BY <1>0, <2>1, InFlight DEF PollEnds, Polling, Suits, TypeOK
  <2>4. ASSUME status \in WithClaimable PROVE FALSE
    <3>1. ~Clears(status)
      BY <2>4 DEF Clears
    <3>2. saved' = WithBalance(saved, tasks[c].deposit)
      BY <2>2, <2>4, <3>1
    <3> QED
      BY <2>3, <3>2, BalanceKeepsRecord
  <2>5. Clears(status)
    BY <2>2, <2>4
  <2> QED
    BY <2>1, <2>5
<1>3. ASSUME NEW c \in Controller, TaskStep(c) PROVE ClaimAnswered(c)
  <2>1. CASE TicketAnswered(c)
    <3>1. tasks[c] # None /\ tasks[c].step = "ticket"
          /\ saved' = [deposit |-> tasks[c].deposit, account |-> tasks[c].account, balance |-> None]
      BY <2>1 DEF TicketAnswered, At
    <3>2. tasks[c].deposit \in DepositId /\ tasks[c].account \in Account
      BY <3>1, InFlight
    <3>3. saved' \in Record
      BY <3>1, <3>2 DEF Record
    <3> QED
      BY <3>3, NoneAssumption
  <2> QED
    BY <1>3, <2>1 DEF TaskStep, DiscoveryAnswered, PriceAnswered, SignedIn, QuoteAnswered, AnchorOpens, ResumeAnswered,
                      TransferAnswered, ClaimLoaded, ClaimSigned, ClaimLands, UsdcEnabled, UsdcFailed, FlowFails,
                      AbortedReturns
<1>4. CASE \E d \in 1..Len(deposits) : AnchorProgress(d)
  BY <1>4 DEF AnchorProgress
<1> QED
  BY <1>1, <1>2, <1>3, <1>4 DEF Next

\* Nothing but the button of the error state, and the tasks of another component
\* or of another deposit, drops the record of a deposit that is still unsettled.
THEOREM RecordIsKept == Spec => RecordKeptWhileWatched
<1>1. AnchorInv /\ [Next]_vars => [KeepsRecord]_vars
  <2> SUFFICES ASSUME AnchorInv, Next, saved # None, saved' = None, Unsettled(saved.deposit),
                      \A c \in Controller : ~Stray(c)
               PROVE  page.state.name = "ERROR"
    BY DEF KeepsRecord
  <2>0. TasksFit /\ DepositsKnown /\ StateFits /\ ScreenFits /\ ClaimFits
    BY Known
  <2>1. CASE Reset
    BY <2>0, <2>1 DEF Reset, StateFits, TerminalState
  <2>2. ASSUME NEW c \in Controller, ClaimAnswered(c) PROVE FALSE
    <3>1. tasks[c] # None /\ tasks[c].kind = "claim" /\ tasks[c].step = "landed"
      BY <2>2 DEF ClaimAnswered, At
    <3>2. tasks[c].live /\ tasks[c].balance = tasks[c].deposit
      BY <3>1 DEF Stray
    <3>3. Running(c)
      BY <2>0, <3>1, <3>2 DEF ClaimFits, Running
    <3>4. tasks[c].deposit = page.state.deposit /\ tasks[c].deposit # None
      BY <2>0, <3>1, <3>3 DEF ScreenFits, TasksFit
    <3>5. tasks[c].deposit = saved.deposit
      BY <2>0, <3>4 DEF ScreenFits
    <3>6. deposits[saved.deposit].claimed
      BY <2>0, <3>1, <3>2, <3>5 DEF DepositsKnown
    <3> QED
      BY <3>6 DEF Unsettled
  <2>3. ASSUME NEW c \in Controller, PollEnds(c), Clears(deposits[tasks[c].deposit].status) PROVE FALSE
    <3>1. /\ tasks[c] # None /\ tasks[c].step = "poll" /\ ~tasks[c].aborted
          /\ deposits[tasks[c].deposit].status \in TerminalStatus
      BY <2>3 DEF PollEnds, Polling, Proceeds
    <3>2. tasks[c].live /\ tasks[c].kind # "enable"
      BY <3>1 DEF Stray
    <3>3. tasks[c].kind = "poll" /\ Running(c)
      BY <2>0, <3>1, <3>2 DEF TasksFit, Suits, Running
    <3>4. tasks[c].deposit = page.state.deposit /\ tasks[c].deposit # None
      BY <2>0, <3>1, <3>3 DEF ScreenFits, TasksFit
    <3>5. tasks[c].deposit = saved.deposit
      BY <2>0, <3>4 DEF ScreenFits
    <3>6. deposits[saved.deposit].status \in {"paid", "failed"}
      BY <2>3, <3>1, <3>5, Answers
    <3> QED
      BY <3>6 DEF Unsettled
  <2> QED
    BY <2>1, <2>2, <2>3, RecordDropped
<1> QED
  BY <1>1, AnchorInvariant, PTL DEF Spec, RecordKeptWhileWatched

-----------------------------------------------------------------------------
(* A watched deposit stays watched *)

\* The screen waits for nothing new, and what paused its polling is still said.
ScreenGoesOn ==
    /\ page'.state.name \in Waiting =>
         page.state.name \in Waiting /\ page'.state.deposit = page.state.deposit
    /\ page.warning => page'.warning

PollsGoOn ==
    \A x \in Controller : RunningPoll(x) => RunningPoll(x)' /\ tasks'[x].deposit = tasks[x].deposit

LEMMA StillWatched ==
    ASSUME Watched, ScreenGoesOn, PollsGoOn PROVE Watched'
  BY DEF Watched, ScreenGoesOn, PollsGoOn

LEMMA SamePolls ==
    ASSUME \A x \in Controller : RunningPoll(x) => tasks'[x] = tasks[x] PROVE PollsGoOn
  BY DEF PollsGoOn, RunningPoll, Running

LEMMA OthersGoOn ==
    ASSUME TypeOK, NEW c \in Controller, ~RunningPoll(c), NEW t, tasks' = [tasks EXCEPT ![c] = t]
    PROVE  PollsGoOn
<1>1. \A x \in Controller \ {c} : tasks'[x] = tasks[x]
  BY DEF TypeOK
<1> QED
  BY <1>1, SamePolls

LEMMA SameScreen == ASSUME page' = page PROVE ScreenGoesOn
  BY DEF ScreenGoesOn

LEMMA ScreenLeft == ASSUME page' = Blank(FALSE, None) PROVE Watched'
  BY DEF Blank, Initial, Waiting, Watched

\* A flow that begins waits for no transfer, or leaves the screen and its poll alone.
LEMMA WatchedAtBegin ==
    ASSUME AnchorInv, Watched, NEW kind \in FlowKind, NEW step \in Step, NEW d \in DepositId \cup {None},
           NEW b \in DepositId \cup {None}, NEW next,
           BeginFlow(kind, step, d, b, next), next = page.state \/ next.name \notin Waiting
    PROVE  Watched'
<1> DEFINE n == NextController
           t == NewTask(kind, step, d, b)
<1>0. TypeOK /\ page \in Page /\ FlowRef /\ address # None
  BY Known DEF BeginFlow
<1>1. /\ n \in Controller /\ tasks[n] = None /\ t \in Task
      /\ tasks' = [Aborting({page.flow}) EXCEPT ![n] = t]
      /\ page' = [page EXCEPT !.flow = n, !.busy = TRUE, !.state = next]
  BY <1>0, FreeTask, NewTaskType DEF BeginFlow
<1> HIDE DEF n, t
<1>2. \A x \in Controller \ {n} :
        /\ tasks'[x] = None <=> tasks[x] = None
        /\ tasks[x] # None =>
             /\ tasks'[x].kind = tasks[x].kind /\ tasks'[x].step = tasks[x].step
             /\ tasks'[x].account = tasks[x].account /\ tasks'[x].live = tasks[x].live
             /\ tasks'[x].deposit = tasks[x].deposit /\ tasks'[x].balance = tasks[x].balance
             /\ tasks'[x].aborted <=> tasks[x].aborted \/ x \in {page.flow}
  BY <1>0, <1>1, TaskAdded
<1>3. \A x \in Controller : RunningPoll(x) => x # page.flow /\ x # n
  BY <1>0, <1>1, Known, ControllerIsSome DEF RunningPoll, Running, FlowRef, TasksFit, Suits, FlowKind
<1>4. PollsGoOn
  BY <1>2, <1>3 DEF PollsGoOn, RunningPoll, Running
<1>5. page'.state = next /\ page'.warning = page.warning
  BY <1>0, <1>1 DEF Page
<1> QED
  BY <1>4, <1>5, StillWatched DEF ScreenGoesOn

\* A poll that begins for the deposit on the screen watches it.
LEMMA WatchedByPoll ==
    ASSUME AnchorInv, NEW p \in Page, NEW c \in Controller, NEW kind \in {"enable", "poll"},
           NEW d \in DepositId, address # None, BeginPoll(p, c, kind, d), d = p.state.deposit
    PROVE  Watched'
<1>1. TypeOK
  BY Known
<1>2. page'.state = p.state
  BY <1>1, PollShown
<1>3. tasks'[c] # None /\ tasks'[c].step = "poll" /\ tasks'[c].deposit = d
      /\ tasks'[c].live = TRUE /\ tasks'[c].aborted = FALSE
  BY <1>1, PollTask, ZenonT(40)
<1> QED
  BY <1>2, <1>3 DEF Watched, RunningPoll, Running

LEMMA WatchedByUser == ASSUME AnchorInv, Watched, UserStep PROVE Watched'
<1>0. TypeOK /\ page \in Page /\ page.state \in State
  BY Known
<1>1. CASE (\E a \in Account : Connect(a))
  BY <1>1, StillWatched, SamePolls, SameScreen DEF Connect
<1>2. CASE Disconnect \/ Leave \/ ReloadDocument
  BY <1>2, ScreenLeft DEF Disconnect, Leave, ReloadDocument, Unmount
<1>3. CASE Mount
  BY <1>3 DEF Mount, Blank, Initial, Waiting, Watched
<1>4. CASE Reset
  <2>1. Blank(TRUE, None) \in Page
    BY BlankType
  <2>2. page'.state = Initial
    BY <1>4, <2>1 DEF Reset, Blank, Page
  <2> QED
    BY <2>2 DEF Initial, Waiting, Watched
<1>5. CASE CheckRate
  <2>1. Started.name \notin Waiting
    BY DEF Started, Initial, Waiting
  <2> QED
    BY <1>5, <2>1, WatchedAtBegin DEF CheckRate, FlowKind, Step
<1>6. CASE OpenDeposit
  <2>1. Authenticate(page.state).name \notin Waiting
    BY <1>0, <1>6 DEF OpenDeposit, Authenticate, State, Waiting
  <2> QED
    BY <1>6, <2>1, WatchedAtBegin DEF OpenDeposit, FlowKind, Step
<1>7. CASE ResumeDeposit
  <2>1. page.offered.deposit \in DepositId /\ page.offered.balance \in DepositId \cup {None}
    BY <1>7, <1>0 DEF ResumeDeposit, Resumable, Page, Record
  <2> QED
    BY <1>7, <2>1, WatchedAtBegin DEF ResumeDeposit, FlowKind, Step
<1>8. CASE SimulateTransfer \/ ClaimBalance
  <2>1. page.state.deposit \in DepositId \cup {None} /\ page.state.balance \in DepositId \cup {None}
    BY <1>0 DEF State
  <2> QED
    BY <1>8, <2>1, WatchedAtBegin DEF SimulateTransfer, ClaimBalance, FlowKind, Step
<1>9. CASE ResumePolling
  <2>1. page.state.deposit \in DepositId /\ address # None /\ NextController \in Controller
    BY <1>0, <1>9, FreeTask, Known DEF ResumePolling, State
  <2> QED
    BY <1>0, <1>9, <2>1, WatchedByPoll DEF ResumePolling
<1>10. CASE EnableUsdc
  BY <1>10 DEF EnableUsdc, Waiting, Watched
<1> QED
  BY <1>1, <1>2, <1>3, <1>4, <1>5, <1>6, <1>7, <1>8, <1>9, <1>10 DEF UserStep

\* An answer to a poll of the screen's deposit moves the screen on; another one
\* is ignored.
LEMMA PolledScreen ==
    ASSUME NEW s \in State, NEW d \in DepositId, NEW status \in Status
    PROVE  LET t == StatusPolled(s, d, status) IN
           /\ t.deposit = s.deposit
           /\ t.name \in Waiting =>
                (s.deposit = d /\ s.name \in Waiting \cup {"CLAIM_REQUIRED"}) \/ t = s
           /\ s.name \in Waiting /\ s.deposit = d => t.name = StateFor[status]
  BY DEF StatusPolled, State

LEMMA WatchedByContinuedPoll ==
    ASSUME AnchorInv, Watched, NEW c \in Controller, PollContinues(c) PROVE Watched'
<1> DEFINE d == tasks[c].deposit
           s == StatusPolled(page.state, d, deposits[d].status)
           q == [page EXCEPT !.state = s]
<1>0. TypeOK /\ TypeOK' /\ page \in Page /\ page.state \in State /\ PollRef /\ tasks[c] \in Task /\ tasks[c] # None
      /\ ~tasks[c].aborted /\ tasks[c].step = "poll"
  BY Known, PollTypes, InFlight DEF PollContinues, Polling, Proceeds, PollStep
<1>1. d \in DepositId /\ deposits[d].status \in Status
  BY <1>0, InFlight DEF Suits, Deposit
<1>2. s \in State /\ s.deposit = page.state.deposit
  BY <1>0, <1>1, ReducerTypes, PolledScreen
<1> HIDE DEF s
<1>3. q \in Page /\ q.state = s /\ q.warning = page.warning
  BY <1>0, <1>2 DEF Page
<1> HIDE DEF q
<1>4. CASE ~tasks[c].live
  <2>1. page' = page
    BY <1>4 DEF PollContinues, Shows
  <2>2. PollsGoOn
    <3>1. \A x \in Controller \ {c} : tasks'[x] = tasks[x]
      BY <1>0 DEF PollContinues, Ended, TypeOK
    <3> QED
      BY <1>4, <3>1, SamePolls DEF RunningPoll, Running
  <2> QED
    BY <2>1, <2>2, SameScreen, StillWatched
<1>5. CASE tasks[c].live /\ NextAttempt(tasks[c].polls) < MaxPolls
  <2>1. page' = q /\ tasks' = [tasks EXCEPT ![c].polls = NextAttempt(tasks[c].polls)]
    BY <1>5 DEF PollContinues, Shows, q, s
  <2>2. /\ tasks'[c].live = tasks[c].live /\ tasks'[c].aborted = tasks[c].aborted
        /\ tasks'[c].step = tasks[c].step /\ tasks'[c].deposit = d /\ tasks'[c] # None
    <3>1. tasks'[c] = [tasks[c] EXCEPT !.polls = NextAttempt(tasks[c].polls)]
      BY <1>0, <2>1 DEF TypeOK
    <3>2. NextAttempt(tasks[c].polls) \in 0..MaxPolls
      BY <1>0, <1>5, AnchorAssumption DEF NextAttempt, Task
    <3>3. [tasks[c] EXCEPT !.polls = NextAttempt(tasks[c].polls)] \in Task
      BY <1>0, <3>2 DEF Task
    <3> QED
      BY <1>0, <3>1, <3>3, NoneAssumption DEF Task
  <2>3. RunningPoll(c)' /\ (d = page.state.deposit => page'.state.deposit = tasks'[c].deposit)
    BY <1>0, <1>2, <1>3, <1>5, <2>1, <2>2 DEF RunningPoll, Running
  <2>4. CASE d = page.state.deposit
    BY <2>3, <2>4 DEF Watched
  <2>5. CASE d # page.state.deposit
    <3>1. page'.state = page.state /\ page'.warning = page.warning
      BY <1>3, <2>1, <2>5 DEF StatusPolled, s
    <3>2. \A x \in Controller \ {c} : tasks'[x] = tasks[x]
      BY <1>0, <2>1 DEF TypeOK
    <3>3. PollsGoOn
      BY <2>2, <2>3, <3>2 DEF PollsGoOn, RunningPoll, Running
    <3> QED
      BY <3>1, <3>3, StillWatched DEF ScreenGoesOn
  <2> QED
    BY <2>4, <2>5
<1>6. CASE tasks[c].live /\ ~(NextAttempt(tasks[c].polls) < MaxPolls)
  <2>1. page' = Paused(EndPoll(q, c))
    BY <1>6 DEF PollContinues, Shows, q, s
  <2>2. EndPoll(q, c) \in Page
    BY <1>3, EndPollType
  <2>3. page'.warning = TRUE
    BY <2>1, <2>2 DEF Paused, Page
  <2> QED
    BY <2>3 DEF Watched
<1> QED
  BY <1>4, <1>5, <1>6

LEMMA WatchedByEndedPoll ==
    ASSUME AnchorInv, Watched, NEW c \in Controller, PollEnds(c) PROVE Watched'
<1> DEFINE d == tasks[c].deposit
           status == deposits[d].status
           s == StatusPolled(page.state, d, status)
           q == [page EXCEPT !.state = s, !.offered = IF Clears(status) THEN None ELSE @]
<1>0. /\ TypeOK /\ page \in Page /\ page.state \in State /\ PollRef /\ tasks[c] \in Task /\ tasks[c] # None
      /\ ~tasks[c].aborted /\ tasks[c].step = "poll" /\ status \in TerminalStatus
  BY Known, InFlight DEF PollEnds, Polling, Proceeds
<1>1. d \in DepositId /\ status \in Status
  BY <1>0, InFlight DEF Suits, Deposit
<1>2. s \in State /\ s.deposit = page.state.deposit
  BY <1>0, <1>1, ReducerTypes, PolledScreen
<1>3. (s.name \in Waiting => page.state.deposit # d /\ s = page.state)
  BY <1>0, <1>1, Answers DEF StatusPolled, State, Waiting
<1> HIDE DEF s
<1>4. q \in Page /\ q.state = s /\ q.warning = page.warning
  BY <1>0, <1>2 DEF Page
<1> HIDE DEF q
<1>5. CASE ~tasks[c].live
  <2>1. page' = page /\ tasks' = Ended(c)
    BY <1>5 DEF PollEnds, Shows
  <2>2. PollsGoOn
    BY <1>0, <1>5, <2>1, OthersGoOn DEF Ended, RunningPoll, Running
  <2> QED
    BY <2>1, <2>2, SameScreen, StillWatched
<1>6. CASE tasks[c].live /\ Reloads(status)
  <2>1. page' = Blank(FALSE, None)
    BY <1>6 DEF PollEnds, Unmount
  <2> QED
    BY <2>1, ScreenLeft
<1>7. CASE tasks[c].live /\ ~Reloads(status)
  <2>1. page' = EndPoll(q, c) /\ tasks' = Ended(c)
    BY <1>7 DEF PollEnds, Shows, q, s
  <2>2. page'.state = s /\ page'.warning = page.warning
    BY <1>4, <2>1 DEF EndPoll, Page
  <2>3. \A x \in Controller \ {c} : tasks'[x] = tasks[x]
    BY <1>0, <2>1, EndedTask
  <2>4. CASE page'.state.name \in Waiting
    <3>1. page'.state = page.state /\ page.state.deposit # d
      BY <1>3, <2>2, <2>4
    <3>2. CASE page.warning
      BY <2>2, <3>2 DEF Watched
    <3>3. CASE \E x \in Controller : RunningPoll(x) /\ tasks[x].deposit = page.state.deposit
      <4>1. PICK x \in Controller : RunningPoll(x) /\ tasks[x].deposit = page.state.deposit
        BY <3>3
      <4>2. tasks'[x] = tasks[x]
        BY <2>3, <3>1, <4>1
      <4>3. RunningPoll(x)' /\ tasks'[x].deposit = page'.state.deposit
        BY <3>1, <4>1, <4>2 DEF RunningPoll, Running
      <4> QED
        BY <4>3 DEF Watched
    <3> QED
      BY <2>4, <3>1, <3>2, <3>3 DEF Watched
  <2>5. CASE page'.state.name \notin Waiting
    BY <2>5 DEF Watched
  <2> QED
    BY <2>4, <2>5
<1> QED
  BY <1>5, <1>6, <1>7

LEMMA WatchedByFailedPoll ==
    ASSUME AnchorInv, Watched, NEW c \in Controller, PollFails(c) PROVE Watched'
<1>0. TypeOK /\ page \in Page
  BY Known
<1>1. CASE tasks[c].live
  <2>1. page' = [EndPoll(page, c) EXCEPT !.warning = TRUE] /\ EndPoll(page, c) \in Page
    BY <1>0, <1>1, EndPollType DEF PollFails, Shows
  <2>2. page'.warning = TRUE
    BY <2>1 DEF Page
  <2> QED
    BY <2>2 DEF Watched
<1>2. CASE ~tasks[c].live
  <2>1. page' = page /\ tasks' = Ended(c)
    BY <1>2 DEF PollFails, Shows
  <2> QED
    BY <1>0, <1>2, <2>1, OthersGoOn, SameScreen, StillWatched DEF Ended, RunningPoll, Running
<1> QED
  BY <1>1, <1>2

\* An answer to a flow moves the state on, or fails it, and never into waiting.
LEMMA FlowScreen ==
    ASSUME NEW s \in State
    PROVE  /\ Discovered(s) = s \/ Discovered(s).name \notin Waiting
           /\ Authenticated(s) = s \/ Authenticated(s).name \notin Waiting
           /\ Quoted(s) = s \/ Quoted(s).name \notin Waiting
           /\ Errored(s).name \notin Waiting
           /\ Priced(s).name = s.name /\ Priced(s).deposit = s.deposit
  BY DEF Discovered, Authenticated, Quoted, Errored, Priced, State, Waiting

\* A state that goes on, with the flow that ends let go of and its warning.
LEMMA FlowScreenGoesOn ==
    ASSUME page \in Page, NEW c, NEW s \in State,
           s.name \in Waiting => s.name = page.state.name /\ s.deposit = page.state.deposit,
           NEW w \in BOOLEAN, page.warning => w,
           page' \in {page, [page EXCEPT !.state = s],
                      FinishFlow([page EXCEPT !.state = s], c), FinishFlow([page EXCEPT !.state = s, !.warning = w], c),
                      FinishFlow(page, c), EndPoll(FinishFlow(page, c), c)}
    PROVE  ScreenGoesOn
<1>1. [page EXCEPT !.state = s] \in Page /\ [page EXCEPT !.state = s, !.warning = w] \in Page
  BY DEF Page
<1>2. \A p \in Page : /\ FinishFlow(p, c).state = p.state /\ FinishFlow(p, c).warning = p.warning
                      /\ EndPoll(p, c).state = p.state /\ EndPoll(p, c).warning = p.warning
  BY DEF Page, FinishFlow, EndPoll
<1>3. FinishFlow(page, c) \in Page
  BY FinishFlowType
<1>4. page'.state \in {page.state, s} /\ (page.warning => page'.warning)
  BY <1>1, <1>2, <1>3 DEF Page
<1> QED
  BY <1>4 DEF ScreenGoesOn

LEMMA WatchedByTask ==
    ASSUME AnchorInv, Watched, NEW c \in Controller, TaskStep(c),
           ~(UsdcEnabled(c) /\ tasks[c].deposit # page.state.deposit)
    PROVE  Watched'
<1>0. /\ TypeOK /\ page \in Page /\ page.state \in State /\ TasksFit /\ tasks[c] \in Task /\ tasks[c] # None
      /\ Suits(tasks[c].kind, tasks[c].step)
  <2>1. tasks[c] # None
    BY DEF TaskStep, DiscoveryAnswered, PriceAnswered, SignedIn, QuoteAnswered, AnchorOpens, TicketAnswered,
           ResumeAnswered, TransferAnswered, ClaimLoaded, ClaimSigned, ClaimLands, ClaimAnswered, UsdcEnabled,
           UsdcFailed, FlowFails, AbortedReturns, At
  <2> QED
    BY <2>1, Known, InFlight
<1>1. CASE DiscoveryAnswered(c) \/ SignedIn(c) \/ QuoteAnswered(c)
  <2>1. tasks[c].step # "poll" /\ \E step \in Step : tasks' = Moved(c, step)
    BY <1>1 DEF DiscoveryAnswered, SignedIn, QuoteAnswered, At, Step
  <2>2. PollsGoOn
    BY <1>0, <2>1, SamePolls DEF Moved, RunningPoll, Running, TypeOK
  <2>3. ScreenGoesOn
    BY <1>0, <1>1, ReducerTypes, FlowScreen, FlowScreenGoesOn DEF DiscoveryAnswered, SignedIn, QuoteAnswered, Shows, Page
  <2> QED
    BY <2>2, <2>3, StillWatched
<1>2. CASE PriceAnswered(c) \/ TransferAnswered(c) \/ FlowFails(c) \/ AbortedReturns(c)
  <2>1. ~RunningPoll(c) /\ tasks' = Ended(c)
    BY <1>0, <1>2 DEF PriceAnswered, TransferAnswered, FlowFails, AbortedReturns, At, Suits, FlowKind, RunningPoll, Running
  <2>2. PollsGoOn
    BY <1>0, <2>1, OthersGoOn DEF Ended
  <2>3. CASE PriceAnswered(c) \/ TransferAnswered(c) \/ AbortedReturns(c)
    <3>1. ScreenGoesOn
      BY <1>0, <2>3, ReducerTypes, FlowScreen, FlowScreenGoesOn
         DEF PriceAnswered, TransferAnswered, AbortedReturns, Shows, Page
    <3> QED
      BY <2>2, <3>1, StillWatched
  <2>4. CASE FlowFails(c)
    <3> DEFINE s == IF tasks[c].kind \in {"price", "open", "resume"} THEN Errored(page.state) ELSE page.state
               w == page.warning \/ tasks[c].kind = "transfer"
    <3>1. page' = page \/ page' = FinishFlow([page EXCEPT !.state = s, !.warning = w], c)
      BY <2>4 DEF FlowFails, Shows
    <3>2. s \in State /\ (s.name \in Waiting => s.name = page.state.name /\ s.deposit = page.state.deposit)
      BY <1>0, ReducerTypes, FlowScreen
    <3>3. w \in BOOLEAN /\ (page.warning => w)
      BY <1>0 DEF Page
    <3> HIDE DEF s, w
    <3>4. ScreenGoesOn
      BY <1>0, <3>1, <3>2, <3>3, FlowScreenGoesOn
    <3> QED
      BY <2>2, <3>4, StillWatched
  <2> QED
    BY <1>2, <2>3, <2>4
<1>3. CASE ClaimLoaded(c) \/ ClaimSigned(c) \/ ClaimLands(c) \/ AnchorOpens(c) \/ UsdcFailed(c)
  <2>1. tasks[c].step # "poll" /\ page' = page /\ \A x \in Controller \ {c} : tasks'[x] = tasks[x]
    BY <1>0, <1>3 DEF ClaimLoaded, ClaimSigned, ClaimLands, AnchorOpens, UsdcFailed, At, Moved, Ended, TypeOK
  <2>2. PollsGoOn
    BY <2>1, SamePolls DEF RunningPoll, Running
  <2> QED
    BY <2>1, <2>2, SameScreen, StillWatched
<1>4. CASE ClaimAnswered(c)
  <2>1. CASE tasks[c].live
    BY <1>4, <2>1, ScreenLeft DEF ClaimAnswered, Unmount
  <2>2. CASE ~tasks[c].live
    <3>1. page' = page /\ tasks' = Ended(c)
      BY <1>4, <2>2 DEF ClaimAnswered
    <3>2. PollsGoOn
      BY <1>0, <2>2, <3>1, OthersGoOn DEF Ended, RunningPoll, Running
    <3> QED
      BY <3>1, <3>2, SameScreen, StillWatched
  <2> QED
    BY <2>1, <2>2
<1>5. CASE UsdcEnabled(c)
  <2>1. tasks[c].step = "enable" /\ tasks[c].deposit = page.state.deposit /\ tasks[c].deposit \in DepositId
    BY <1>5, InFlight DEF UsdcEnabled, At
  <2>2. CASE tasks[c].live
    BY <1>0, <1>5, <2>1, <2>2, InFlight, WatchedByPoll, AnchorAssumption DEF UsdcEnabled
  <2>3. CASE ~tasks[c].live
    <3>1. page' = page /\ tasks' = Moved(c, "poll")
      BY <1>5, <2>3 DEF UsdcEnabled
    <3>2. PollsGoOn
      BY <1>0, <2>3, <3>1, SamePolls DEF Moved, RunningPoll, Running, TypeOK
    <3> QED
      BY <3>1, <3>2, SameScreen, StillWatched
  <2> QED
    BY <2>2, <2>3
<1>6. CASE TicketAnswered(c)
  <2> DEFINE d == tasks[c].deposit
             record == [deposit |-> d, account |-> tasks[c].account, balance |-> None]
             s == DepositStarted(page.state, d)
             q == [page EXCEPT !.state = s, !.offered = record]
             p == FinishFlow(q, c)
  <2>1. tasks[c].kind = "open" /\ tasks[c].step = "ticket" /\ ~tasks[c].aborted /\ BeginPoll(p, c, "poll", d)
    BY <1>6 DEF TicketAnswered, At, Proceeds
  <2>2. tasks[c].live /\ d \in DepositId /\ tasks[c].account \in Account /\ address # None
    BY <1>0, <2>1, InFlight, AnchorAssumption DEF TasksFit
  <2>3. page.busy /\ page.flow = c /\ page.state.name = "DEPOSIT_STARTED"
    BY <1>0, <2>1, <2>2, Known DEF FlowRef, RunningFlow, Running, FlowKind, StateFits, StateIsFlows
  <2>4. s \in State /\ s.deposit = d
    BY <1>0, <2>2, <2>3, ReducerTypes DEF DepositStarted, State
  <2>5. record \in Record
    BY <2>2 DEF Record
  <2> HIDE DEF record, s
  <2>6. q \in Page /\ q.state = s
    BY <1>0, <2>4, <2>5 DEF Page
  <2> HIDE DEF q
  <2>7. p \in Page /\ p.state = s
    BY <2>6, FinishFlowType DEF FinishFlow, Page
  <2> HIDE DEF p, d
  <2> QED
    BY <2>1, <2>2, <2>4, <2>7, WatchedByPoll
<1>7. CASE ResumeAnswered(c)
  <2> DEFINE d == tasks[c].deposit
             s == Resumed(d, tasks[c].balance)
             q == [page EXCEPT !.state = s]
             p == FinishFlow(q, c)
  <2>1. tasks[c].kind = "resume" /\ ~tasks[c].aborted /\ d \in DepositId /\ tasks[c].balance \in DepositId \cup {None}
    BY <1>0, <1>7, InFlight DEF ResumeAnswered, At, Proceeds, Task
  <2>2. tasks[c].live /\ address # None
    BY <1>0, <2>1, InFlight, AnchorAssumption DEF TasksFit, Suits
  <2>3. s \in State /\ s.deposit = d /\ (tasks[c].balance # None => s.name \notin Waiting)
    BY <2>1, FreshStates DEF Resumed, Initial, Waiting
  <2> HIDE DEF s
  <2>4. q \in Page /\ q.state = s
    BY <1>0, <2>3 DEF Page
  <2> HIDE DEF q
  <2>5. p \in Page /\ p.state = s
    BY <2>4, FinishFlowType DEF FinishFlow, Page
  <2>6. CASE tasks[c].balance = None
    <3>1. BeginPoll(p, c, "poll", d)
      BY <1>7, <2>6 DEF ResumeAnswered, p, q, s
    <3> HIDE DEF p, d
    <3> QED
      BY <2>1, <2>2, <2>3, <2>5, <3>1, WatchedByPoll
  <2>7. CASE tasks[c].balance # None
    <3>1. page' = p
      BY <1>7, <2>2, <2>7 DEF ResumeAnswered, Shows, p, q, s
    <3> QED
      BY <2>3, <2>5, <2>7, <3>1 DEF Watched
  <2> QED
    BY <2>6, <2>7
<1> QED
  BY <1>1, <1>2, <1>3, <1>4, <1>5, <1>6, <1>7 DEF TaskStep

\* A deposit the screen waits for stays polled or said to be paused, whatever
\* happens but one step: the callback of a trustline asked for an earlier deposit.
THEOREM WatchedIsKept == Spec => WatchedStaysWatched
<1>1. AnchorInv /\ [Next]_vars =>
        [Watched => \/ Watched'
                    \/ \E c \in Controller : UsdcEnabled(c) /\ tasks[c].deposit # page.state.deposit]_vars
  <2> SUFFICES ASSUME AnchorInv, Next, Watched,
                      ~\E c \in Controller : UsdcEnabled(c) /\ tasks[c].deposit # page.state.deposit
               PROVE  Watched'
    OBVIOUS
  <2>1. CASE UserStep
    BY <2>1, WatchedByUser
  <2>2. ASSUME NEW c \in Controller, PollStep(c) PROVE Watched'
    BY <2>2, WatchedByContinuedPoll, WatchedByEndedPoll, WatchedByFailedPoll DEF PollStep
  <2>3. ASSUME NEW c \in Controller, TaskStep(c) PROVE Watched'
    BY <2>3, WatchedByTask
  <2>4. CASE \E d \in 1..Len(deposits) : AnchorProgress(d)
    BY <2>4, StillWatched, SamePolls, SameScreen DEF AnchorProgress
  <2> QED
    BY <2>1, <2>2, <2>3, <2>4 DEF Next
<1> QED
  BY <1>1, AnchorInvariant, PTL DEF Spec, WatchedStaysWatched

-----------------------------------------------------------------------------
(* The attempts of a poll *)

\* A poll in flight that a step neither ends nor carries on.
SameAttempts(x) == tasks'[x] = None \/ (tasks'[x].step = tasks[x].step /\ tasks'[x].polls = tasks[x].polls)

LEMMA SameTask == ASSUME NEW x, tasks'[x] \in {tasks[x], None} PROVE SameAttempts(x)
  BY DEF SameAttempts

LEMMA AttemptsOfAborted ==
    ASSUME TypeOK, NEW cs, NEW x \in Controller, tasks[x] # None, tasks'[x] = Aborting(cs)[x]
    PROVE  SameAttempts(x)
<1>1. tasks[x] \in Task
  BY DEF TypeOK
<1>2. tasks'[x] = tasks[x] \/ tasks'[x] = [tasks[x] EXCEPT !.aborted = TRUE]
  BY DEF Aborting
<1> QED
  BY <1>1, <1>2 DEF SameAttempts, Task

LEMMA AttemptsBeside ==
    ASSUME TypeOK, NEW cs, NEW n, NEW t, tasks' = [Aborting(cs) EXCEPT ![n] = t],
           NEW x \in Controller \ {n}, tasks[x] # None
    PROVE  SameAttempts(x)
<1>1. tasks'[x] = Aborting(cs)[x]
  BY AbortingType
<1> QED
  BY <1>1, AttemptsOfAborted

LEMMA AttemptsOfUnmounted ==
    ASSUME TypeOK, NEW ts, Unmount(ts), NEW x \in Controller, ts[x] \in {tasks[x], None}
    PROVE  SameAttempts(x)
<1>1. CASE ts[x] = None \/ ~Survives(ts[x])
  BY <1>1 DEF Unmount, SameAttempts
<1>2. CASE ts[x] # None /\ Survives(ts[x])
  <2>1. tasks'[x] = [tasks[x] EXCEPT !.live = FALSE, !.aborted = @ \/ x \in {page.flow, page.polling}]
    BY <1>2 DEF Unmount
  <2>2. tasks[x] \in Task
    BY <1>2 DEF TypeOK
  <2> QED
    BY <2>1, <2>2 DEF SameAttempts, Task
<1> QED
  BY <1>1, <1>2

LEMMA AttemptsOfChanged ==
    ASSUME TypeOK, NEW c, NEW v, tasks' = [tasks EXCEPT ![c] = v], NEW x \in Controller \ {c}
    PROVE  SameAttempts(x)
<1>1. tasks'[x] = tasks[x]
  BY DEF TypeOK
<1> QED
  BY <1>1, SameTask

\* A new task takes a controller that no poll holds.
LEMMA UserKeepsAttempts ==
    ASSUME TypeOK, UserStep, NEW x \in Controller, tasks[x] # None
    PROVE  SameAttempts(x)
<1>1. CASE \/ \E a \in Account : Connect(a)
           \/ Mount
  <2>1. tasks' = tasks
    BY <1>1 DEF Connect, Mount
  <2> QED
    BY <2>1, SameTask
<1>2. CASE Disconnect \/ Leave
  <2>1. Unmount(tasks)
    BY <1>2 DEF Disconnect, Leave
  <2> QED
    BY <2>1, AttemptsOfUnmounted
<1>3. CASE ReloadDocument
  BY <1>3 DEF ReloadDocument, SameAttempts
<1>4. CASE Reset
  <2>1. tasks' = Aborting({page.flow, page.polling})
    BY <1>4 DEF Reset
  <2> QED
    BY <2>1, AttemptsOfAborted
<1>5. CASE CheckRate \/ OpenDeposit \/ ResumeDeposit \/ SimulateTransfer \/ ClaimBalance
  <2>1. \E cs, t : FreeController # {} /\ tasks' = [Aborting(cs) EXCEPT ![NextController] = t]
    BY <1>5 DEF CheckRate, OpenDeposit, ResumeDeposit, SimulateTransfer, ClaimBalance, BeginFlow
  <2> QED
    BY <2>1, FreeTask, AttemptsBeside
<1>6. CASE ResumePolling
  <2>1. \E cs, t : FreeController # {} /\ tasks' = [Aborting(cs) EXCEPT ![NextController] = t]
    BY <1>6 DEF ResumePolling, BeginPoll
  <2> QED
    BY <2>1, FreeTask, AttemptsBeside
<1>7. CASE EnableUsdc
  <2>1. \E t : FreeController # {} /\ tasks' = [tasks EXCEPT ![NextController] = t]
    BY <1>7 DEF EnableUsdc
  <2> QED
    BY <2>1, FreeTask, AttemptsOfChanged
<1> QED
  BY <1>1, <1>2, <1>3, <1>4, <1>5, <1>6, <1>7 DEF UserStep

\* Other functions leave the attempts of a poll alone; a poll that is aborted returns.
LEMMA TaskKeepsAttempts ==
    ASSUME AnchorInv, NEW c \in Controller, TaskStep(c), NEW x \in Controller, Polling(x)
    PROVE  SameAttempts(x)
<1>0. TypeOK /\ tasks[x] # None /\ tasks[x].step = "poll"
  BY DEF AnchorInv, Polling
<1>1. CASE x = c
  <2>1. UsdcFailed(c) \/ FlowFails(c) \/ AbortedReturns(c)
    BY <1>0, <1>1 DEF TaskStep, At, DiscoveryAnswered, PriceAnswered, SignedIn, QuoteAnswered, AnchorOpens,
                      TicketAnswered, ResumeAnswered, TransferAnswered, ClaimLoaded, ClaimSigned,
                      ClaimLands, ClaimAnswered, UsdcEnabled
  <2>2. tasks' = Ended(c)
    BY <2>1 DEF UsdcFailed, FlowFails, AbortedReturns
  <2>3. tasks'[x] = None
    BY <1>0, <1>1, <2>2 DEF Ended, TypeOK
  <2> QED
    BY <2>3, SameTask
<1>2. CASE x # c
  <2>1. CASE \/ DiscoveryAnswered(c) \/ PriceAnswered(c) \/ SignedIn(c) \/ QuoteAnswered(c)
             \/ TransferAnswered(c) \/ ClaimLoaded(c) \/ ClaimSigned(c) \/ ClaimLands(c)
             \/ UsdcFailed(c) \/ FlowFails(c) \/ AbortedReturns(c)
    <3>1. tasks' = Ended(c) \/ \E step : tasks' = Moved(c, step)
      BY <2>1 DEF DiscoveryAnswered, PriceAnswered, SignedIn, QuoteAnswered, TransferAnswered, ClaimLoaded,
                  ClaimSigned, ClaimLands, UsdcFailed, FlowFails, AbortedReturns
    <3>2. \E v : tasks' = [tasks EXCEPT ![c] = v]
      BY <3>1 DEF Ended, Moved
    <3> QED
      BY <1>0, <1>2, <3>2, AttemptsOfChanged
  <2>2. CASE AnchorOpens(c)
    <3>1. tasks'[x] = tasks[x]
      BY <1>0, <1>2, <2>2 DEF AnchorOpens, Ended, TypeOK
    <3> QED
      BY <3>1, SameTask
  <2>3. CASE TicketAnswered(c) \/ ResumeAnswered(c) \/ UsdcEnabled(c)
    <3>1. \/ \E cs, t : tasks' = [Aborting(cs) EXCEPT ![c] = t]
          \/ tasks' = Ended(c)
          \/ tasks' = Moved(c, "poll")
      BY <2>3 DEF TicketAnswered, ResumeAnswered, UsdcEnabled, BeginPoll
    <3>2. \/ \E cs, t : tasks' = [Aborting(cs) EXCEPT ![c] = t]
          \/ \E v : tasks' = [tasks EXCEPT ![c] = v]
      BY <3>1 DEF Ended, Moved
    <3> QED
      BY <1>0, <1>2, <3>2, AttemptsBeside, AttemptsOfChanged
  <2>4. CASE ClaimAnswered(c)
    <3>1. Unmount(Ended(c)) \/ tasks' = Ended(c)
      BY <2>4 DEF ClaimAnswered
    <3>2. Ended(c)[x] = tasks[x]
      BY <1>0, <1>2 DEF Ended, TypeOK
    <3> QED
      BY <1>0, <3>1, <3>2, AttemptsOfUnmounted, SameTask
  <2> QED
    BY <2>1, <2>2, <2>3, <2>4 DEF TaskStep
<1> QED
  BY <1>1, <1>2

\* A poll makes one attempt more, or it ends; the other polls are left alone, or
\* go with their component.
LEMMA PollCounts ==
    ASSUME AnchorInv, NEW c \in Controller, PollStep(c), NEW x \in Controller, Polling(x)
    PROVE  /\ x # c => SameAttempts(x)
           /\ x = c /\ tasks'[x] # None =>
                tasks'[x].step = "poll" /\ tasks'[x].polls = tasks[x].polls + 1 /\ tasks'[x].polls < MaxPolls
<1>0. TypeOK /\ tasks[x] \in Task /\ tasks[x] # None /\ tasks[x].step = "poll"
  BY DEF AnchorInv, TypeOK, Polling
<1>1. CASE tasks' = Ended(c)
  <2>1. tasks'[x] = tasks[x] \/ (x = c /\ tasks'[x] = None)
    BY <1>0, <1>1 DEF Ended, TypeOK
  <2>2. x # c => tasks'[x] = tasks[x]
    BY <1>0, <1>1 DEF Ended, TypeOK
  <2>3. x = c => tasks'[x] = None
    BY <1>0, <1>1 DEF Ended, TypeOK
  <2> QED
    BY <2>2, <2>3, SameTask
<1>2. CASE Unmount(Ended(c))
  <2>1. (x # c => Ended(c)[x] = tasks[x]) /\ (x = c => Ended(c)[x] = None)
    BY <1>0 DEF Ended, TypeOK
  <2>2. x = c => tasks'[x] = None
    BY <1>2, <2>1 DEF Unmount
  <2> QED
    BY <1>0, <1>2, <2>1, <2>2, AttemptsOfUnmounted
<1>3. CASE /\ NextAttempt(tasks[c].polls) < MaxPolls
           /\ tasks' = [tasks EXCEPT ![c].polls = NextAttempt(tasks[c].polls)]
  <2>1. x # c => tasks'[x] = tasks[x]
    BY <1>0, <1>3 DEF TypeOK
  <2>2. ASSUME x = c
        PROVE  tasks'[x].step = "poll" /\ tasks'[x].polls = tasks[x].polls + 1 /\ tasks'[x].polls < MaxPolls
    <3>1. tasks'[x] = [tasks[x] EXCEPT !.polls = NextAttempt(tasks[x].polls)]
      BY <1>0, <1>3, <2>2 DEF TypeOK
    <3> QED
      BY <1>0, <1>3, <2>2, <3>1 DEF Task, NextAttempt
  <2> QED
    BY <2>1, <2>2, SameTask
<1> QED
  BY <1>1, <1>2, <1>3 DEF PollStep, PollContinues, PollEnds, PollFails

\* A step of a poll.
AttemptsGrow ==
    \A x \in Controller : Polling(x) =>
        \/ tasks'[x] = None
        \/ PollStep(x) /\ tasks'[x].step = "poll"
             /\ tasks'[x].polls = tasks[x].polls + 1 /\ tasks'[x].polls < MaxPolls
        \/ ~PollStep(x) /\ tasks'[x].step = "poll" /\ tasks'[x].polls = tasks[x].polls

\* pollUntilStopped counts its attempts and gives up: an answer ends the poll or is
\* one attempt more, below DEPOSIT_POLL_MAX_ATTEMPTS; no other step, of the user, of
\* another poll or of a flow, takes one back, adds one or makes the poll do anything
\* else.  WatchingEnds adds that the answers come.
THEOREM AttemptsAreCounted == Spec => [][AttemptsGrow]_vars
<1>1. AnchorInv /\ [Next]_vars => [AttemptsGrow]_vars
  <2> SUFFICES ASSUME AnchorInv, Next, NEW x \in Controller, Polling(x)
               PROVE  \/ tasks'[x] = None
                      \/ PollStep(x) /\ tasks'[x].step = "poll"
                           /\ tasks'[x].polls = tasks[x].polls + 1 /\ tasks'[x].polls < MaxPolls
                      \/ ~PollStep(x) /\ tasks'[x].step = "poll" /\ tasks'[x].polls = tasks[x].polls
    BY DEF AttemptsGrow
  <2>1. CASE PollStep(x)
    BY <2>1, PollCounts
  <2>2. CASE ~PollStep(x)
    <3>1. TypeOK /\ tasks[x] # None /\ tasks[x].step = "poll"
      BY DEF AnchorInv, Polling
    <3>2. SUFFICES SameAttempts(x)
      BY <2>2, <3>1 DEF SameAttempts
    <3>3. CASE UserStep
      BY <3>1, <3>3, UserKeepsAttempts
    <3>4. ASSUME NEW c \in Controller, PollStep(c) PROVE SameAttempts(x)
      BY <2>2, <3>4, PollCounts
    <3>5. ASSUME NEW c \in Controller, TaskStep(c) PROVE SameAttempts(x)
      BY <3>5, TaskKeepsAttempts
    <3>6. CASE \E d \in 1..Len(deposits) : AnchorProgress(d)
      <4>1. tasks' = tasks
        BY <3>6 DEF AnchorProgress
      <4> QED
        BY <4>1, SameTask
    <3> QED
      BY <3>3, <3>4, <3>5, <3>6 DEF Next
  <2> QED
    BY <2>1, <2>2
<1> QED
  BY <1>1, AnchorInvariant, PTL DEF Spec
=============================================================================
