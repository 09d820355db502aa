--------------------------- MODULE AnchorProperties ---------------------------
(***************************************************************************)
(* What the anchor deposit of the wallet page must keep to.                *)
(***************************************************************************)
EXTENDS AnchorDeposit, FiniteSets

Running(c) == tasks[c] # None /\ tasks[c].live /\ ~tasks[c].aborted
RunningFlow(c) == Running(c) /\ tasks[c].kind \in FlowKind
RunningPoll(c) == Running(c) /\ tasks[c].step = "poll"

\* The deposit still needs the browser: money may be on its way, or to be claimed.
Unsettled(d) == deposits[d].status \notin {"paid", "failed"} /\ ~deposits[d].claimed

-----------------------------------------------------------------------------
\* flowBusy is set in one function and cleared in two, one of them from the
\* finally clause of flows long aborted: it is true exactly while one flow of
\* the component runs, flow.current is that flow's controller, and a state that
\* only a flow can leave has one.
FlowsExclusive ==
    /\ page.busy <=> \E c \in Controller : RunningFlow(c)
    /\ \A c \in Controller : RunningFlow(c) => page.flow = c
    /\ \A c \in Controller : RunningPoll(c) => page.polling = c
    /\ page.state.name \in {"DISCOVERING", "AUTHENTICATING", "QUOTING", "DEPOSIT_STARTED"} => page.busy
    /\ page.state.name = "PRICING" /\ ~page.state.priced => page.busy

\* The screen does not wait for something that nobody will deliver: a waiting
\* state has a poll of the deposit shown, or the warning with the button that
\* starts one.
Watched ==
    page.state.name \in Waiting =>
        page.warning \/ \E c \in Controller : RunningPoll(c) /\ tasks[c].deposit = page.state.deposit

\* A watched deposit stays watched, up to one step: a trustline requested for an
\* earlier deposit succeeds, and its callback takes the poll over for that one.
WatchedStaysWatched ==
    [][Watched => \/ Watched'
                  \/ \E c \in Controller :
                       UsdcEnabled(c) /\ tasks[c].deposit # page.state.deposit]_vars

\* What runs on the screen of an account writes that account's record: while a
\* poll or a claim of the mounted component runs, the saved record is gone or it
\* is the record of the same deposit, opened by the connected account.  (The
\* poll started by a trustline's callback is about the deposit of the click.)
RecordOfTheScreen ==
    \A c \in Controller :
        Running(c) /\ tasks[c].kind \in {"poll", "claim"} /\ saved # None =>
            /\ saved.deposit = tasks[c].deposit
            /\ saved.account = address
            /\ deposits[saved.deposit].account = address

\* Tasks that work for another deposit than the screen's: those of a component
\* that is gone, the poll of a trustline's callback, and the claim of a balance
\* which such a poll wrote into the record of another deposit.
Stray(c) ==
    /\ tasks[c] # None
    /\ \/ ~tasks[c].live
       \/ tasks[c].kind = "enable"
       \/ tasks[c].kind = "claim" /\ tasks[c].balance # tasks[c].deposit

\* The record of an unsettled deposit goes only by the button of the error
\* state, or while such a task is in flight.
KeepsRecord ==
    saved # None /\ saved' = None /\ Unsettled(saved.deposit) =>
        page.state.name = "ERROR" \/ \E c \in Controller : Stray(c)

RecordKeptWhileWatched == [][KeepsRecord]_vars

\* Polling ends, as long as the deposit is watched: it leaves the waiting states,
\* or the page says that it has stopped looking.
WatchingEnds ==
    []Watched => (page.state.name \in Waiting ~>
                      page.state.name \notin Waiting \/ page.warning)

-----------------------------------------------------------------------------
(* Statements of the repository that the code does not keep *)

\* lib/anchor/session.ts:4-6: the ids are kept "so a reload resumes polling
\* instead of orphaning a real deposit that is already moving money": the
\* record of an unsettled deposit is never dropped.
NeverOrphaned == [][saved # None /\ Unsettled(saved.deposit) => saved' # None]_vars

\* docs/architecture/SYSTEM.md:1390, "Every terminal state carries the
\* transaction hash and an Explorer link": when the claim on the screen has
\* succeeded, the page shows the terminal state.
ClaimShown ==
    [][\A c \in Controller : Running(c) /\ ClaimAnswered(c) => page'.state.name = "COMPLETED"]_vars
=============================================================================
