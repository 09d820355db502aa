---------------------------- MODULE AnchorMachine ----------------------------
(***************************************************************************)
(* The reducer of the anchor deposit (apps/web/lib/anchor/machine.ts): one *)
(* operator per action type, from a state to the next.  An action that     *)
(* does not fit the state leaves it as it is.                              *)
(*                                                                         *)
(* The configuration is present in every state with a price or a deposit,  *)
(* so the context keeps only whether there is a price and a ticket, the    *)
(* deposit, and the deposit whose claimable balance is to be claimed; the  *)
(* rates are kept beside it, in Quote.  The state that CLAIMED leads to is *)
(* never rendered (see ClaimAnswered of AnchorDeposit).                    *)
(***************************************************************************)
EXTENDS Nothing

CONSTANT DepositId

-----------------------------------------------------------------------------
(* What a poll says of a deposit *)

Code == {"incomplete", "pending_user_transfer_start", "pending_user_transfer_complete",
         "pending_external", "pending_anchor", "pending_stellar", "pending_trust",
         "pending_customer_info_update", "completed", "refunded", "expired", "error", "unknown"}

\* An answer as it is parsed: its code, whether the treasury is low, and whether
\* the anchor has paid into a claimable balance.
Report == [code : Code, treasuryLow : BOOLEAN, balance : BOOLEAN]

FailureCode == {"error", "refunded", "expired"}

NeedsClaim(r) == r.code = "pending_trust" \/ (r.code = "completed" /\ r.balance)

\* The state a report implies; the order of the questions matters.
StateForReport(r) ==
    IF r.code \in FailureCode THEN "ERROR"
    ELSE IF r.treasuryLow THEN "TREASURY_LOW"
    ELSE IF NeedsClaim(r) THEN "CLAIM_REQUIRED"
    ELSE IF r.code = "completed" THEN "COMPLETED"
    ELSE IF r.code \in {"pending_user_transfer_start", "incomplete"}
         THEN "AWAITING_BANK_TRANSFER" ELSE "ANCHOR_PROCESSING"

TerminalReport(r) == r.code \in FailureCode \cup {"completed", "pending_trust"}

\* The reports of this anchor, one for each thing that it can say.
Plain(code) == [code |-> code, treasuryLow |-> FALSE, balance |-> FALSE]
Reports == [waiting |-> Plain("pending_user_transfer_start"),
            processing |-> Plain("pending_anchor"),
            treasury_low |-> [Plain("pending_anchor") EXCEPT !.treasuryLow = TRUE],
            paid |-> Plain("completed"),
            claimable |-> [Plain("completed") EXCEPT !.balance = TRUE],
            pending_trust |-> Plain("pending_trust"),
            failed |-> Plain("error")]

Status == DOMAIN Reports
StateFor == [status \in Status |-> StateForReport(Reports[status])]
TerminalStatus == {status \in Status : TerminalReport(Reports[status])}
WithClaimable == {status \in Status : Reports[status].balance}

-----------------------------------------------------------------------------
(* States and transitions *)

\* The states that wait for the anchor to say something of a deposit.
Waiting == {"AWAITING_BANK_TRANSFER", "ANCHOR_PROCESSING", "TREASURY_LOW"}
ShouldPoll == Waiting \cup {"DEPOSIT_STARTED"}
TerminalState == {"COMPLETED", "ERROR"}
StateName == {"IDLE", "DISCOVERING", "PRICING", "AUTHENTICATING", "QUOTING",
              "DEPOSIT_STARTED", "CLAIM_REQUIRED"} \cup Waiting \cup TerminalState

State == [name : StateName, priced : BOOLEAN, ticket : BOOLEAN,
          deposit : DepositId \cup {None}, balance : DepositId \cup {None}]

Initial == [name |-> "IDLE", priced |-> FALSE, ticket |-> FALSE,
            deposit |-> None, balance |-> None]

Errored(s) == [s EXCEPT !.name = "ERROR"]

Started == [Initial EXCEPT !.name = "DISCOVERING"]

Resumed(d, b) ==
    [Initial EXCEPT !.name = IF b # None THEN "CLAIM_REQUIRED" ELSE "AWAITING_BANK_TRANSFER",
                    !.deposit = d, !.balance = b]

Discovered(s) == IF s.name = "DISCOVERING" THEN [s EXCEPT !.name = "PRICING"] ELSE s

Priced(s) == [s EXCEPT !.priced = TRUE]

Authenticate(s) == IF s.name = "PRICING" THEN [s EXCEPT !.name = "AUTHENTICATING"] ELSE s

Authenticated(s) == IF s.name = "AUTHENTICATING" THEN [s EXCEPT !.name = "QUOTING"] ELSE s

Quoted(s) == IF s.name = "QUOTING" THEN [s EXCEPT !.name = "DEPOSIT_STARTED"] ELSE s

DepositStarted(s, d) ==
    IF s.name \in {"DEPOSIT_STARTED", "QUOTING"}
    THEN [s EXCEPT !.name = "AWAITING_BANK_TRANSFER", !.ticket = TRUE, !.deposit = d]
    ELSE s

\* An answer about another deposit, or one that comes after a reset, is ignored.
StatusPolled(s, d, status) ==
    IF s.name \in Waiting \cup {"CLAIM_REQUIRED"} /\ s.deposit = d
    THEN [s EXCEPT !.name = StateFor[status], !.balance = IF status \in WithClaimable THEN d ELSE @]
    ELSE s
=============================================================================
