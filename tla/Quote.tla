-------------------------------- MODULE Quote --------------------------------
(***************************************************************************)
(* The rates of the anchor deposit: the amount in the form, the indicative *)
(* price, the firm quote with its expiry, and the price asked anew when    *)
(* the quote has lapsed (lib/anchor/sep38.ts, the quote's actions of       *)
(* lib/anchor/machine.ts and its two effects in the component).            *)
(*                                                                         *)
(* Flows run one at a time (AnchorDeposit), and an aborted one dispatches  *)
(* nothing, so there is one flow or none.  An amount stands for the price  *)
(* or the quote that the anchor gives for it.  React runs the effects of a *)
(* click before anything else can happen, so they are part of each step.   *)
(***************************************************************************)
EXTENDS Integers, AnchorMachine

CONSTANTS
    Amount,         \* positive TRY amounts that can be typed
    Malformed,      \* what the form refuses
    Default,        \* the amount that the form starts with
    Second,         \* ticks of the browser's clock in a second
    Margin,         \* what the timer waits beyond the expiry, 25 ms in the code
    Early,          \* how many ticks early a browser may fire a timer
    Lifetimes,      \* seconds that a quote may live; an unreadable expiry is None
    MaxNow          \* bound: the clock

ASSUME QuoteAssumption ==
    /\ Second \in Nat \ {0} /\ Margin \in Nat /\ Early \in Nat /\ MaxNow \in Nat
    /\ Early <= Margin
    /\ Lifetimes \subseteq Nat \cup {None}
    /\ Default \in Amount \cup Malformed /\ Amount \cap Malformed = {}
    /\ None \notin Nat \cup Amount \cup Malformed \cup DepositId

VARIABLES
    clock,          \* Date.now(), in ticks
    typed,          \* the amount in the form
    machine,        \* the reducer's state, without its rates
    rates,          \* the reducer's price, quote and what is known of its expiry
    errand,         \* the flow that runs, with the amount it took from the form, or None
    timer,          \* when the expiry is checked, or None
    repricing       \* when the price asked anew was asked for, or None

quoteVars == <<clock, typed, machine, rates, errand, timer, repricing>>

ErrandStep == {"discover", "price", "sign_in", "quote", "request", "resume", "transfer"}
Firm == [amount : Amount, expires : Nat]
Rates == [price : Amount \cup {None}, quote : Firm \cup {None}, lapsed : BOOLEAN,
          repriced : [amount : Amount, asked : Nat] \cup {None},
          ticket : Amount \cup {None}]

QuoteTypeOK ==
    /\ clock \in Nat /\ typed \in Amount \cup Malformed
    /\ machine \in State /\ rates \in Rates
    /\ errand \in [step : ErrandStep, amount : Amount \cup Malformed] \cup {None}
    /\ timer \in Int \cup {None} /\ repricing \in Nat \cup {None}

\* null is no quote, no price asked anew and no flow.
ASSUME QuoteNoneAssumption ==
    /\ None \notin Firm /\ None \notin [amount : Amount, asked : Nat]
    /\ None \notin [step : ErrandStep, amount : Amount \cup Malformed]

-----------------------------------------------------------------------------
(* Expiry *)

NoRates == [price |-> None, quote |-> None, lapsed |-> FALSE, repriced |-> None, ticket |-> None]

NowSeconds == clock \div Second

\* expires_at in seconds; one that cannot be read has passed already.
ExpiresAt(lifetime) == IF lifetime = None THEN 0 ELSE NowSeconds + lifetime

IsQuoteExpired(quote) == quote.expires <= NowSeconds

DelayedToExpiry(quote) == quote.expires * Second                    \* faulty: no margin

\* When the timer of a quote is due; the delay is never negative.
Due(quote) ==
    LET at == quote.expires * Second + Margin IN IF at > clock THEN at ELSE clock

\* The effects of the component after its rates have become r.  A timer waits for
\* the expiry of a quote not known to have lapsed; a price is asked for when one
\* is.  Both are dropped when the quote or that knowledge changes.
Effects(r) ==
    LET same == r.quote = rates.quote /\ r.lapsed = rates.lapsed
    IN  /\ rates' = r
        /\ timer' = IF same THEN timer
                    ELSE IF r.quote # None /\ ~r.lapsed THEN Due(r.quote) ELSE None
        /\ repricing' = IF same THEN repricing
                        ELSE IF r.quote # None /\ r.lapsed THEN clock ELSE None

-----------------------------------------------------------------------------
(* The form and the flows *)

QuoteInit ==
    /\ clock = 0 /\ typed = Default
    /\ machine = Initial /\ rates = NoRates
    /\ errand = None /\ timer = None /\ repricing = None

EditableUntilQuoted == machine.name \in {"IDLE", "PRICING"}         \* faulty: the price is shown

\* The field is there as long as nothing has been asked for.
Editable == machine.name = "IDLE"

TypeAmount(a) ==
    /\ Editable
    /\ typed' = a
    /\ UNCHANGED <<clock, machine, rates, errand, timer, repricing>>

\* beginFlow takes the amount of the form along.
BeginErrand(step, next) ==
    /\ errand = None
    /\ errand' = [step |-> step, amount |-> typed]
    /\ machine' = next

\* A flow goes on to its next step, or ends.
ErrandAt(step) == errand # None /\ errand.step = step
GoOn(step) == errand' = [errand EXCEPT !.step = step]

AskPrice ==
    /\ machine.name = "IDLE" /\ typed \in Amount
    /\ BeginErrand("discover", Started)
    /\ Effects(NoRates)
    /\ UNCHANGED <<clock, typed>>

Discover ==
    /\ ErrandAt("discover")
    /\ GoOn("price")
    /\ machine' = Discovered(machine)
    /\ UNCHANGED <<clock, typed, rates, timer, repricing>>

PriceArrives ==
    /\ ErrandAt("price")
    /\ errand' = None
    /\ machine' = Priced(machine)
    /\ Effects([rates EXCEPT !.price = errand.amount])
    /\ UNCHANGED <<clock, typed>>

\* "Continue with wallet", next to the price.
PriceShown == machine.name = "PRICING" /\ machine.priced

Continue ==
    /\ PriceShown
    /\ BeginErrand("sign_in", Authenticate(machine))
    /\ UNCHANGED <<clock, typed, rates, timer, repricing>>

SignInEnds ==
    /\ ErrandAt("sign_in")
    /\ GoOn("quote")
    /\ machine' = Authenticated(machine)
    /\ UNCHANGED <<clock, typed, rates, timer, repricing>>

\* A quote that arrives lapsed is taken as it is: expiry never blocks.
QuoteArrives(lifetime) ==
    LET quote == [amount |-> errand.amount, expires |-> ExpiresAt(lifetime)]
    IN  /\ ErrandAt("quote")
        /\ GoOn("request")
        /\ machine' = Quoted(machine)
        /\ Effects(IF machine.name = "QUOTING"
                   THEN [rates EXCEPT !.quote = quote, !.lapsed = IsQuoteExpired(quote),
                                      !.repriced = None]
                   ELSE rates)
        /\ UNCHANGED <<clock, typed>>

\* The deposit is requested for the amount of the flow.
TicketArrives(d) ==
    /\ ErrandAt("request")
    /\ errand' = None
    /\ machine' = DepositStarted(machine, d)
    /\ Effects([rates EXCEPT !.ticket = errand.amount])
    /\ UNCHANGED <<clock, typed>>

\* A deposit of an earlier page is taken up; the form stays until it is read.
Resume ==
    /\ machine.name = "IDLE"
    /\ BeginErrand("resume", machine)
    /\ UNCHANGED <<clock, typed, rates, timer, repricing>>

ResumeArrives(d, b) ==
    /\ ErrandAt("resume")
    /\ errand' = None
    /\ machine' = Resumed(d, b)
    /\ Effects(NoRates)
    /\ UNCHANGED <<clock, typed>>

TicketShown == machine.ticket

\* "Simulate Testnet bank transfer" sends the amount of the form.
Transfer ==
    /\ TicketShown
    /\ BeginErrand("transfer", machine)
    /\ UNCHANGED <<clock, typed, rates, timer, repricing>>

\* A flow ends: a transfer either way, any other by an error.
ErrandEnds ==
    /\ errand # None
    /\ errand' = None
    /\ machine' = IF errand.step = "transfer" THEN machine ELSE Errored(machine)
    /\ UNCHANGED <<clock, typed, rates, timer, repricing>>

Polled(d, status) ==
    /\ machine.deposit # None
    /\ machine' = StatusPolled(machine, d, status)
    /\ UNCHANGED <<clock, typed, rates, errand, timer, repricing>>

StartAnew ==
    /\ machine.name \in TerminalState
    /\ machine' = Initial /\ errand' = None
    /\ Effects(NoRates)
    /\ UNCHANGED <<clock, typed>>

\* The component goes, and another one is shown.
Remount ==
    /\ machine' = Initial /\ errand' = None /\ typed' = Default
    /\ Effects(NoRates)
    /\ UNCHANGED clock

-----------------------------------------------------------------------------
(* Time, the timer and the new price *)

ClockTicks ==
    /\ clock < MaxNow
    /\ clock' = clock + 1
    /\ UNCHANGED <<typed, machine, rates, errand, timer, repricing>>

\* The timer fires once.  A check that finds the quote alive changes nothing, and
\* nothing arms the timer again.
CheckExpiry ==
    /\ timer # None /\ clock + Early >= timer
    /\ IF IsQuoteExpired(rates.quote)
       THEN Effects([rates EXCEPT !.lapsed = TRUE])
       ELSE timer' = None /\ UNCHANGED <<rates, repricing>>
    /\ UNCHANGED <<clock, typed, machine, errand>>

RepriceArrives ==
    /\ repricing # None
    /\ rates' = IF rates.lapsed
                THEN [rates EXCEPT !.repriced = [amount |-> rates.quote.amount, asked |-> repricing]]
                ELSE rates
    /\ repricing' = None
    /\ UNCHANGED <<clock, typed, machine, errand, timer>>

\* Repricing is best effort.
RepriceFails ==
    /\ repricing # None
    /\ repricing' = None
    /\ UNCHANGED <<clock, typed, machine, rates, errand, timer>>

QuoteNext ==
    \/ \E a \in Amount \cup Malformed : TypeAmount(a)
    \/ AskPrice \/ Discover \/ PriceArrives \/ Continue \/ SignInEnds
    \/ \E lifetime \in Lifetimes : QuoteArrives(lifetime)
    \/ \E d \in DepositId : TicketArrives(d)
    \/ Resume \/ \E d \in DepositId, b \in DepositId \cup {None} : ResumeArrives(d, b)
    \/ Transfer \/ ErrandEnds
    \/ \E d \in DepositId, status \in Status : Polled(d, status)
    \/ StartAnew \/ Remount
    \/ ClockTicks \/ CheckExpiry \/ RepriceArrives \/ RepriceFails

QuoteSpec == QuoteInit /\ [][QuoteNext]_quoteVars

-----------------------------------------------------------------------------
(* Properties *)

\* One amount goes all the way.  The field is read again by every flow: the price
\* on the screen is that of the amount in the form, the firm quote is for the
\* amount of that price, and the transfer that is simulated for a deposit is
\* the one it was opened for.  A new price belongs to the quote it stands under
\* and was asked for after that quote had lapsed.
RatesAgree ==
    /\ PriceShown => rates.price = typed
    /\ rates.quote # None => rates.quote.amount = rates.price
    /\ TicketShown => rates.quote # None /\ rates.ticket = rates.quote.amount /\ typed = rates.ticket
    /\ rates.repriced # None =>
         /\ rates.lapsed
         /\ rates.repriced.amount = rates.quote.amount
         /\ rates.repriced.asked >= rates.quote.expires * Second

\* The check of a quote's expiry is made once, and the clock it reads is rounded
\* down to seconds: a quote that is not marked as lapsed always has a check to
\* come, and none is marked before it has lapsed.
LapseNoticed ==
    /\ rates.quote # None => (timer # None <=> ~rates.lapsed)
    /\ rates.lapsed => rates.quote # None /\ rates.quote.expires * Second <= clock
=============================================================================
