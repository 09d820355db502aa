----------------------------- MODULE PagesProofs -----------------------------
(***************************************************************************)
(* Proofs about the pages: where the form and create_event agree, and      *)
(* where they do not, for every number and time that is typed, every       *)
(* preset and every instant at which the clocks go back; the rates of a    *)
(* deposit belong together and their expiry is seen, for every amount,     *)
(* lifetime and clock; the wallet page judges an account as the network    *)
(* does, for every account, reserve and fee; what a page shows of the      *)
(* contract is not of the past, and what it offers is what the contract    *)
(* takes, for all accounts, schedules and splits; the list of reservations *)
(* misses nobody or says so, wherever the log begins.                      *)
(***************************************************************************)
EXTENDS Form, Quote, WalletPage, PagesProperties, EventLog, BondRefinementProofs,
        SequenceTheorems

-----------------------------------------------------------------------------
(* The form *)

\* A local time is never read as an instant of the hour that comes second.
LEMMA ReadAsFirst ==
    ASSUME NEW local \in Int
    PROVE  Instant(local) \in Int /\ Instant(local) \notin FallBack .. FallBack + Hour - 1
  BY FormAssumption DEF Instant, Hour

Filled(start) ==
    LET s == ScheduleAroundStart(start)
    IN  /\ \A f \in TimeFields : s[f] \in Int
        /\ Instant(s.cancellationDeadline) <= Instant(s.checkinStart)
        /\ Instant(s.checkinStart) <= Instant(s.startTime)
        /\ Instant(s.startTime) <= Instant(s.checkinDeadline)

\* A schedule around a start that is not in that hour stays in order when its
\* fields are read back.
LEMMA ScheduleInOrder ==
    ASSUME NEW start \in Int, start \notin FallBack .. FallBack + Hour - 1
    PROVE  Filled(start)
<1> DEFINE read(t) == Instant(ToLocal(t))
<1>1. ASSUME NEW t \in Int
      PROVE  ToLocal(t) \in Int
  BY <1>1, FormAssumption DEF ToLocal, Hour
<1>2. read(start - 2 * Hour) <= read(start - 3)
  BY FormAssumption DEF ToLocal, Instant, Hour
<1>3. read(start - 3) <= read(start) /\ read(start) <= read(start + Hour)
  BY FormAssumption DEF ToLocal, Instant, Hour
<1>4. \A t \in {start, start - 3, start + Hour, start - 2 * Hour} : ToLocal(t) \in Int
  BY <1>1 DEF Hour
<1> HIDE DEF read
<1> QED BY <1>2, <1>3, <1>4 DEF Filled, ScheduleAroundStart, TimeFields, read

-----------------------------------------------------------------------------
(* The invariant *)

Text == {"empty", "short", "many_bytes"}
Fields ==
    [startTime : Int \cup {None}, checkinStart : Int \cup {None},
     checkinDeadline : Int \cup {None}, cancellationDeadline : Int \cup {None},
     text : Text, bond : Int \cup {None}, capacity : Int, share : Int]

FormInv ==
    /\ fields \in Fields
    /\ filled \in BOOLEAN
    /\ filled => TimesValid
    /\ submitted # None => (ContractTakes(submitted) <=> submitted.text_fits /\ Encodable(submitted))

LEMMA InBounds == \A n, t \in Int : 0 <= t /\ t <= n => t \in 0..n
  OBVIOUS

LEMMA SharesAddUp ==
    \A s \in 0..100 : /\ s * 100 \in 0..BpsTotal /\ BpsTotal - s * 100 \in 0..BpsTotal
                      /\ s * 100 + (BpsTotal - s * 100) = BpsTotal
<1>1. TAKE s \in 0..100
<1>2. BpsTotal \in Int /\ s \in Int /\ 0 <= s /\ s <= 100
  BY DEF BpsTotal
<1>3. /\ s * 100 \in Int /\ 0 <= s * 100 /\ s * 100 <= BpsTotal
      /\ BpsTotal - s * 100 \in Int /\ 0 <= BpsTotal - s * 100 /\ BpsTotal - s * 100 <= BpsTotal
      /\ s * 100 + (BpsTotal - s * 100) = BpsTotal
  BY <1>2 DEF BpsTotal
<1>4. s * 100 \in 0..BpsTotal /\ BpsTotal - s * 100 \in 0..BpsTotal
  BY <1>2, <1>3, InBounds, Zenon
<1> QED BY <1>3, <1>4

\* The schema decides as create_event does, of what its types hold.
LEMMA SchemaIsTheContract ==
    ASSUME fields \in Fields, Missing = {}, fields.bond # None, fields.share \in 0..100
    PROVE  ContractTakes(Arguments) <=>
               /\ CreateEventInputSchema(Arguments)
               /\ Arguments.capacity <= MaxU32 /\ Arguments.bond_amount <= MaxI128
<1>1. \A f \in TimeFields : TimeOf(f) \in Int
  <2>1. /\ fields["startTime"] \in Int \cup {None} /\ fields["checkinStart"] \in Int \cup {None}
        /\ fields["checkinDeadline"] \in Int \cup {None}
        /\ fields["cancellationDeadline"] \in Int \cup {None}
    BY DEF Fields
  <2>2. \A f \in TimeFields : fields[f] \in Int \cup {None}
    BY <2>1, Zenon DEF TimeFields
  <2>3. \A f \in TimeFields : fields[f] # None
    BY Zenon DEF Missing
  <2> QED BY <2>2, <2>3, ReadAsFirst DEF TimeOf
<1>2. /\ fields.bond \in Int /\ fields.capacity \in Int
      /\ fields.share * 100 \in 0..BpsTotal /\ BpsTotal - fields.share * 100 \in 0..BpsTotal
      /\ fields.share * 100 + (BpsTotal - fields.share * 100) = BpsTotal
  <2>1. fields.bond \in Int \cup {None} /\ fields.capacity \in Int
    BY DEF Fields
  <2>2. fields.bond \in Int
    BY <2>1, Zenon
  <2> QED BY <2>1, <2>2, SharesAddUp, Zenon
<1> DEFINE input == Arguments
<1>3. /\ {input.organizer_bps, input.community_bps} \subseteq 0..BpsTotal
      /\ input.organizer_bps + input.community_bps = BpsTotal
  BY <1>2 DEF Arguments
<1>4. /\ input.text_fits <=> fields.text = "short"
      /\ input.bond_amount = fields.bond /\ input.capacity = fields.capacity
  BY DEF Arguments
<1> DEFINE positive == /\ input.start_time >= 0 /\ input.checkin_start >= 0
                       /\ input.checkin_deadline >= 0 /\ input.cancellation_deadline >= 0
<1> HIDE DEF input
<1>5. CreateEventInputSchema(input) <=>
        /\ fields.text = "short" /\ fields.bond > 0 /\ fields.capacity > 0
        /\ positive /\ ValidSchedule(input)
  BY <1>3, <1>4 DEF CreateEventInputSchema, ValidSchedule
<1>6. ValidAmounts(input) <=> fields.text = "short" /\ fields.bond > 0 /\ fields.capacity > 0
  BY <1>2, <1>3, <1>4 DEF ValidAmounts
<1>7. Encodable(input) <=> /\ fields.capacity >= 0 /\ fields.capacity <= MaxU32
                           /\ fields.bond >= -MaxI128 - 1 /\ fields.bond <= MaxI128
                           /\ positive
  BY <1>4 DEF Encodable
<1>8. fields.bond > 0 => fields.bond >= -MaxI128 - 1
  BY <1>2, BondAssumption
<1>9. fields.capacity > 0 => fields.capacity >= 0
  BY <1>2
<1> HIDE DEF positive
<1> QED BY <1>4, <1>5, <1>6, <1>7, <1>8, <1>9 DEF ContractTakes, input

LEMMA FormInitInv == FormInit => FormInv
<1> SUFFICES ASSUME FormInit PROVE FormInv
  OBVIOUS
<1>1. fields \in Fields
  BY DEF FormInit, Fields, Text
<1> QED BY <1>1 DEF FormInit, FormInv

\* What is typed is of its field's type, and no time is filled in any more once
\* one has been typed.
LEMMA Typed ==
    ASSUME FormInv, TypeSomething
    PROVE  FormInv'
<1>1. ASSUME NEW field, NEW value, Type(field, value), [fields EXCEPT ![field] = value] \in Fields
      PROVE  FormInv'
  <2>1. fields' \in Fields /\ filled' \in BOOLEAN /\ submitted' = None
    BY <1>1 DEF Type, FormInv
  <2>2. ASSUME filled' PROVE TimesValid'
    <3>1. filled /\ field \notin TimeFields
      BY <1>1, <2>2 DEF Type
    <3>2. TimesValid /\ \A f \in TimeFields : fields'[f] = fields[f]
      BY <1>1, <3>1 DEF Type, FormInv, Fields, TimeFields
    <3> QED BY <3>2 DEF TimesValid, Missing, TimeOf, TimeFields
  <2> QED BY <2>1, <2>2 DEF FormInv
<1>2. ASSUME NEW field \in TimeFields, NEW local \in Entered \cup {None}
      PROVE  [fields EXCEPT ![field] = local] \in Fields
  BY <1>2, FormAssumption DEF FormInv, Fields, TimeFields
<1>3. \A text \in Text : [fields EXCEPT !["text"] = text] \in Fields
  BY DEF FormInv, Fields
<1>4. \A bond \in Bonds : [fields EXCEPT !["bond"] = bond] \in Fields
  BY FormAssumption DEF FormInv, Fields
<1>5. \A capacity \in Capacities : [fields EXCEPT !["capacity"] = capacity] \in Fields
  BY FormAssumption DEF FormInv, Fields
<1>6. \A share \in Shares : [fields EXCEPT !["share"] = share] \in Fields
  BY FormAssumption DEF FormInv, Fields
<1> QED BY <1>1, <1>2, <1>3, <1>4, <1>5, <1>6 DEF TypeSomething, Text

LEMMA FilledIn ==
    ASSUME FormInv, NEW local \in Int, Fill(local)
    PROVE  FormInv'
<1>1. Filled(Instant(local))
  BY ReadAsFirst, ScheduleInOrder
<1>2. \A f \in TimeFields : /\ fields'[f] = ScheduleAroundStart(Instant(local))[f]
                            /\ fields'[f] \in Int
  BY <1>1 DEF Fill, FormInv, Fields, TimeFields, Filled
<1>3. fields' \in Fields
  BY <1>2 DEF Fill, FormInv, Fields, TimeFields
<1>4. TimesValid'
  BY <1>1, <1>2, FormAssumption DEF Filled, TimesValid, Missing, TimeOf, TimeFields, Instant, Hour
<1> QED BY <1>3, <1>4 DEF Fill, FormInv

LEMMA FormNextInv == FormInv /\ [FormNext]_formVars => FormInv'
<1> SUFFICES ASSUME FormInv, [FormNext]_formVars PROVE FormInv'
  OBVIOUS
<1>1. CASE TypeSomething
  BY <1>1, Typed
<1>2. CASE FillAround
  BY <1>2, FilledIn DEF FillAround, FormInv, Fields
<1>3. CASE ApplyPreset
  <2>1. Evening \in Int /\ \A time \in Entered : StartingSoon(time) \in Int
    BY FormAssumption DEF Evening, StartingSoon, ToLocal, Hour
  <2> QED BY <1>3, <2>1, FilledIn DEF ApplyPreset
<1>4. CASE OnSubmit
  <2>1. Arguments.text_fits => ValidAmounts(Arguments) /\ ValidSchedule(Arguments)
    BY <1>4 DEF OnSubmit, NumbersValid, TimesValid, Arguments, ValidAmounts, ValidSchedule,
                FormInv, Fields, BpsTotal
  <2>2. ValidAmounts(Arguments) => Arguments.text_fits
    BY DEF ValidAmounts
  <2>3. ContractTakes(Arguments) <=> Arguments.text_fits /\ Encodable(Arguments)
    BY <2>1, <2>2 DEF ContractTakes
  <2> QED BY <1>4, <2>3 DEF OnSubmit, FormInv, TimesValid, Missing, TimeOf
<1>5. CASE UNCHANGED formVars
  BY <1>5 DEF formVars, FormInv, TimesValid, Missing, TimeOf
<1> QED BY <1>1, <1>2, <1>3, <1>4, <1>5 DEF FormNext

\* Of what the form lets through create_event takes exactly the arguments that fit
\* its types and its limit of bytes, and the form lets through the schedules it
\* fills in: for every number and time that is typed, every width of the types, and
\* whenever the clocks go back (app/organizer/events/new/page.tsx,
\* lib/domain/event-schedule.ts).
THEOREM FormAgrees == FormSpec => []FormAndContractAgree
<1>1. FormInv => FormAndContractAgree
  BY SchemaIsTheContract DEF FormInv, FormAndContractAgree
<1> QED BY <1>1, FormInitInv, FormNextInv, PTL DEF FormSpec

-----------------------------------------------------------------------------
(* The wallet page *)

\* What an account has to spare, against the price of a trustline: the page's
\* arithmetic stops at zero and the network's does not.
LEMMA VerdictIsTheNetworks ==
    ASSUME NEW a \in Ledgered, NEW b \in BaseReserves
    PROVE  /\ ~a.trustline => (Spendable(a, b) < Required(b) <=> ~OpensTrustline(a, b))
           /\ Spendable(a, b) = 0 => ~PaysFee(a, b)
           /\ Spendable(a, b) \in Nat
<1>1. a \in NetworkAccount /\ b \in Nat /\ Fee \in Nat \ {0}
  BY WalletPageAssumption
<1>2. EntryCount(a) \in Nat
  BY <1>1, WalletPageAssumption DEF EntryCount, NetworkAccount
<1> DEFINE locked == b * EntryCount(a)
<1>3. locked \in Nat
  <2>1. \A m, n \in Nat : m * n \in Nat
    OBVIOUS
  <2> QED
    BY <1>1, <1>2, <2>1
<1> HIDE DEF locked
<1>4. Available(a, b) = a.balance - locked - a.selling
  BY DEF Available, locked
<1>5. Spendable(a, b) = IF a.balance > locked + a.selling THEN a.balance - (locked + a.selling) ELSE 0
  BY DEF Spendable, locked
<1> QED
  BY <1>1, <1>3, <1>4, <1>5 DEF OpensTrustline, PaysFee, Required, NetworkAccount

\* The button of a transaction on its way is there and was enabled.
WalletPageInv ==
    /\ held \in Ledgered \cup {None} /\ base \in BaseReserves
    /\ busy => ButtonShown /\ ~Insufficient(view.assets)

LEMMA WalletPageInitInv == WalletPageInit => WalletPageInv
  BY DEF WalletPageInit, WalletPageInv

LEMMA WalletPageNextInv == WalletPageInv /\ [WalletPageNext]_walletPageVars => WalletPageInv'
<1> SUFFICES ASSUME WalletPageInv, [WalletPageNext]_walletPageVars PROVE WalletPageInv'
  OBVIOUS
<1>1. CASE ReadAccount \/ ReadLedger \/ ReadFails
  <2>1. view.step # "ready" /\ UNCHANGED <<held, base, busy>>
    BY <1>1 DEF ReadAccount, ReadLedger, ReadFails
  <2> QED
    BY <2>1 DEF WalletPageInv, ButtonShown
<1>2. CASE ReloadPage
  BY <1>2 DEF ReloadPage, WalletPageInv
<1>3. CASE Enable
  BY <1>3 DEF Enable, WalletPageInv, ButtonShown, Insufficient
<1>4. CASE TransactionEnds
  <2>1. CASE EnabledOf(TRUE) \/ EnabledOf(FALSE)
    BY <2>1 DEF EnabledOf, Landing, WalletPageInv
  <2>2. CASE FailedOf(TRUE) \/ FailedOf(FALSE)
    BY <2>2 DEF FailedOf, Landing, WalletPageInv, ButtonShown, Insufficient
  <2> QED
    BY <1>4, <2>1, <2>2 DEF TransactionEnds
<1>5. CASE NetworkMoves \/ UNCHANGED walletPageVars
  BY <1>5 DEF NetworkMoves, walletPageVars, WalletPageInv, ButtonShown, Insufficient
<1> QED
  BY <1>1, <1>2, <1>3, <1>4, <1>5 DEF WalletPageNext

\* Once what is shown is the account's, the button is enabled exactly if the
\* network would open the trustline, and the notice is shown to those who cannot
\* pay a fee (lib/stellar/xlm-reserve.ts, components/wallet/enable-usdc-action.tsx).
THEOREM OfferAgrees == WalletPageSpec => []OfferIsTheNetworks
<1>1. WalletPageInv => OfferIsTheNetworks
  <2> SUFFICES ASSUME WalletPageInv, held # None, view.assets = AssetsOf(held, base)
               PROVE  /\ ButtonShown => (Insufficient(view.assets) <=> ~OpensTrustline(held, base))
                      /\ busy => OpensTrustline(held, base)
                      /\ NoticeShown => ~PaysFee(held, base)
    BY DEF OfferIsTheNetworks
  <2>1. held \in Ledgered /\ base \in BaseReserves
    BY DEF WalletPageInv
  <2>2. /\ view.assets.spendable = Spendable(held, base) /\ view.assets.baseReserve = base
        /\ view.assets.trustline = held.trustline
    BY DEF AssetsOf
  <2>3. ButtonShown => (Insufficient(view.assets) <=> ~OpensTrustline(held, base))
    BY <2>1, <2>2, VerdictIsTheNetworks DEF ButtonShown, Insufficient
  <2>4. NoticeShown => ~PaysFee(held, base)
    BY <2>1, <2>2, VerdictIsTheNetworks DEF NoticeShown
  <2> QED
    BY <2>3, <2>4 DEF WalletPageInv
<1> QED
  BY <1>1, WalletPageInitInv, WalletPageNextInv, PTL DEF WalletPageSpec

-----------------------------------------------------------------------------
(* The rates of a deposit *)

\* A clock that is rounded down to seconds, against an expiry in seconds.
LEMMA SecondsPassed ==
    ASSUME NEW t \in Nat, NEW s \in Nat \ {0}, NEW e \in Nat
    PROVE  t \div s \in Nat /\ e * s \in Nat /\ (e <= t \div s <=> e * s <= t)
<1>1. t \div s \in Nat
  OBVIOUS
<1>2. e * s \in Nat
  OBVIOUS
<1>3. e <= t \div s <=> e * s <= t
  OBVIOUS
<1> QED
  BY <1>1, <1>2, <1>3

\* The flow that runs is the one the state waits for, with the amount of the form.
ErrandFits ==
    errand # None =>
        /\ errand.step # "resume" => errand.amount = typed
        /\ errand.step = "discover" => machine.name = "DISCOVERING"
        /\ errand.step = "price" => machine.name = "PRICING" /\ ~machine.priced
        /\ errand.step = "sign_in" => machine.name = "AUTHENTICATING"
        /\ errand.step = "quote" => machine.name = "QUOTING"
        /\ errand.step = "request" => machine.name = "DEPOSIT_STARTED"
        /\ errand.step = "resume" => machine.name = "IDLE"
        /\ errand.step = "transfer" => machine.ticket

\* Which rates there are in which state, and that they are for one amount.
RatesFit ==
    /\ machine.name \in {"DISCOVERING", "PRICING", "AUTHENTICATING", "QUOTING", "DEPOSIT_STARTED"} =>
         typed \in Amount
    /\ machine.name \in {"IDLE", "DISCOVERING"} => rates = NoRates /\ ~machine.priced
    /\ machine.name = "PRICING" => rates.quote = None /\ ~rates.lapsed
    /\ machine.name = "PRICING" /\ machine.priced => rates.price = typed
    /\ machine.name \in {"AUTHENTICATING", "QUOTING"} =>
         rates.quote = None /\ ~rates.lapsed /\ rates.price = typed
    /\ machine.name = "DEPOSIT_STARTED" => rates.quote # None /\ rates.price = typed
    /\ machine.name \in {"IDLE", "DISCOVERING", "PRICING", "AUTHENTICATING", "QUOTING", "DEPOSIT_STARTED"} =>
         ~machine.ticket
    /\ machine.ticket => rates.quote # None /\ rates.ticket = rates.quote.amount /\ typed = rates.ticket
    /\ rates.quote # None => rates.quote.amount = rates.price

\* What rates say of their quote's expiry is true.
LapseKnown(r) ==
    /\ r.lapsed => r.quote # None /\ r.quote.expires * Second <= clock
    /\ r.repriced # None =>
         r.lapsed /\ r.repriced.amount = r.quote.amount /\ r.repriced.asked >= r.quote.expires * Second

\* A timer is set beyond the expiry of the quote, and a price is asked for after it.
ExpiryFits ==
    /\ LapseKnown(rates)
    /\ rates.quote # None /\ ~rates.lapsed => timer # None
    /\ timer # None =>
         rates.quote # None /\ ~rates.lapsed /\ timer >= rates.quote.expires * Second + Margin
    /\ repricing # None => rates.lapsed /\ repricing >= rates.quote.expires * Second

QuoteInv == QuoteTypeOK /\ ErrandFits /\ RatesFit /\ ExpiryFits

LEMMA QuoteTypes ==
    ASSUME QuoteTypeOK
    PROVE  /\ clock \in Nat /\ typed \in Amount \cup Malformed /\ machine \in State /\ rates \in Rates
           /\ rates.price \in Amount \cup {None} /\ rates.quote \in Firm \cup {None} /\ rates.lapsed \in BOOLEAN
           /\ rates.quote # None => rates.quote.amount \in Amount /\ rates.quote.expires \in Nat
           /\ errand # None => errand \in [step : ErrandStep, amount : Amount \cup Malformed]
  BY DEF QuoteTypeOK, Rates, Firm

\* The effects keep the timer and the request for a price to the rates.
LEMMA EffectsFit ==
    ASSUME QuoteInv, NEW r \in Rates, Effects(r), clock' = clock, LapseKnown(r)
    PROVE  /\ ExpiryFits' /\ rates' = r
           /\ timer' \in Int \cup {None} /\ repricing' \in Nat \cup {None}
<1>0. /\ clock \in Nat /\ Second \in Nat \ {0} /\ Margin \in Nat /\ None \notin Nat
      /\ timer \in Int \cup {None} /\ repricing \in Nat \cup {None} /\ ExpiryFits
      /\ r.lapsed \in BOOLEAN
  BY QuoteAssumption DEF QuoteInv, QuoteTypeOK, Rates
<1>1. rates' = r /\ LapseKnown(rates)'
  BY DEF Effects, LapseKnown
<1>2. CASE r.quote = rates.quote /\ r.lapsed = rates.lapsed
  <2>1. timer' = timer /\ repricing' = repricing
    BY <1>2 DEF Effects
  <2> QED
    BY <1>0, <1>1, <1>2, <2>1 DEF ExpiryFits
<1>3. CASE ~(r.quote = rates.quote /\ r.lapsed = rates.lapsed)
  <2>1. /\ timer' = IF r.quote # None /\ ~r.lapsed THEN Due(r.quote) ELSE None
        /\ repricing' = IF r.quote # None /\ r.lapsed THEN clock ELSE None
    BY <1>3 DEF Effects
  <2>2. CASE r.quote = None
    BY <1>0, <1>1, <2>1, <2>2 DEF ExpiryFits, LapseKnown
  <2>3. CASE r.quote # None /\ r.lapsed
    BY <1>0, <1>1, <2>1, <2>3 DEF ExpiryFits, LapseKnown
  <2>4. CASE r.quote # None /\ ~r.lapsed
    <3>1. r.quote.expires \in Nat
      BY <2>4 DEF Rates, Firm
    <3> DEFINE at == r.quote.expires * Second
    <3>2. at \in Nat
      BY <1>0, <3>1, SecondsPassed
    <3>3. timer' = IF at + Margin > clock THEN at + Margin ELSE clock
      BY <2>1, <2>4 DEF Due
    <3>4. timer' \in Nat /\ timer' # None /\ timer' >= at + Margin
      BY <1>0, <3>2, <3>3
    <3> QED
      BY <1>0, <1>1, <2>1, <2>4, <3>4 DEF ExpiryFits
  <2> QED
    BY <2>2, <2>3, <2>4
<1> QED
  BY <1>2, <1>3

LEMMA NoRatesFit == NoRates \in Rates /\ LapseKnown(NoRates)
  BY DEF NoRates, Rates, LapseKnown

\* The flow that begins takes the amount of the form along.
LEMMA BegunErrand ==
    ASSUME QuoteTypeOK, NEW step \in ErrandStep, NEW next, BeginErrand(step, next)
    PROVE  /\ errand' # None /\ errand'.step = step /\ errand'.amount = typed /\ machine' = next
           /\ errand' \in [step : ErrandStep, amount : Amount \cup Malformed]
<1>1. errand' = [step |-> step, amount |-> typed] /\ machine' = next
  BY DEF BeginErrand
<1>2. errand' \in [step : ErrandStep, amount : Amount \cup Malformed]
  BY <1>1 DEF QuoteTypeOK
<1> QED
  BY <1>1, <1>2, QuoteNoneAssumption

LEMMA GoneOn ==
    ASSUME QuoteTypeOK, errand # None, NEW step \in ErrandStep, GoOn(step)
    PROVE  /\ errand' # None /\ errand'.step = step /\ errand'.amount = errand.amount
           /\ errand' \in [step : ErrandStep, amount : Amount \cup Malformed]
<1>1. errand' = [errand EXCEPT !.step = step] /\ errand \in [step : ErrandStep, amount : Amount \cup Malformed]
  BY DEF GoOn, QuoteTypeOK
<1>2. errand' \in [step : ErrandStep, amount : Amount \cup Malformed] /\ errand'.step = step /\ errand'.amount = errand.amount
  BY <1>1
<1> QED
  BY <1>2, QuoteNoneAssumption

\* The reducer, from each of the states that the flows and the polls meet.
LEMMA QuoteReducer ==
    ASSUME NEW s \in State
    PROVE  /\ Errored(s) \in State /\ Errored(s).name = "ERROR" /\ Errored(s).ticket = s.ticket
           /\ Started \in State /\ Started.name = "DISCOVERING" /\ ~Started.priced /\ ~Started.ticket
           /\ Initial \in State /\ Initial.name = "IDLE" /\ ~Initial.priced /\ ~Initial.ticket
           /\ s.name = "DISCOVERING" => /\ Discovered(s) \in State /\ Discovered(s).name = "PRICING"
                                        /\ Discovered(s).priced = s.priced /\ Discovered(s).ticket = s.ticket
           /\ Priced(s) \in State /\ Priced(s).name = s.name /\ Priced(s).priced /\ Priced(s).ticket = s.ticket
           /\ s.name = "PRICING" => /\ Authenticate(s) \in State /\ Authenticate(s).name = "AUTHENTICATING"
                                    /\ Authenticate(s).ticket = s.ticket
           /\ s.name = "AUTHENTICATING" => /\ Authenticated(s) \in State /\ Authenticated(s).name = "QUOTING"
                                           /\ Authenticated(s).ticket = s.ticket
           /\ s.name = "QUOTING" => /\ Quoted(s) \in State /\ Quoted(s).name = "DEPOSIT_STARTED"
                                    /\ Quoted(s).ticket = s.ticket
<1>1. /\ Errored(s) \in State /\ Errored(s).name = "ERROR" /\ Errored(s).ticket = s.ticket
      /\ Priced(s) \in State /\ Priced(s).name = s.name /\ Priced(s).priced /\ Priced(s).ticket = s.ticket
  BY DEF State, StateName, TerminalState, Errored, Priced
<1>2. /\ Started \in State /\ Started.name = "DISCOVERING" /\ ~Started.priced /\ ~Started.ticket
      /\ Initial \in State /\ Initial.name = "IDLE" /\ ~Initial.priced /\ ~Initial.ticket
  BY DEF State, StateName, Started, Initial
<1>3. /\ s.name = "DISCOVERING" => /\ Discovered(s) \in State /\ Discovered(s).name = "PRICING"
                                   /\ Discovered(s).priced = s.priced /\ Discovered(s).ticket = s.ticket
      /\ s.name = "PRICING" => /\ Authenticate(s) \in State /\ Authenticate(s).name = "AUTHENTICATING"
                               /\ Authenticate(s).ticket = s.ticket
  BY DEF State, StateName, Discovered, Authenticate
<1>4. /\ s.name = "AUTHENTICATING" => /\ Authenticated(s) \in State /\ Authenticated(s).name = "QUOTING"
                                      /\ Authenticated(s).ticket = s.ticket
      /\ s.name = "QUOTING" => /\ Quoted(s) \in State /\ Quoted(s).name = "DEPOSIT_STARTED"
                               /\ Quoted(s).ticket = s.ticket
  BY DEF State, StateName, Authenticated, Quoted
<1> QED
  BY <1>1, <1>2, <1>3, <1>4

\* The states in which money is awaited or settled, where the rates stay as they are.
Late == Waiting \cup TerminalState \cup {"CLAIM_REQUIRED"}

LEMMA LateReducer ==
    ASSUME NEW s \in State, NEW d \in DepositId
    PROVE  /\ s.name = "DEPOSIT_STARTED" =>
                DepositStarted(s, d) \in State /\ DepositStarted(s, d).name \in Late
           /\ \A b \in DepositId \cup {None} :
                Resumed(d, b) \in State /\ Resumed(d, b).name \in Late /\ ~Resumed(d, b).ticket
           /\ \A status \in Status :
                /\ StatusPolled(s, d, status) \in State
                /\ StatusPolled(s, d, status).ticket = s.ticket
                /\ StatusPolled(s, d, status) = s \/ StatusPolled(s, d, status).name \in Late
<1>1. s.name = "DEPOSIT_STARTED" => DepositStarted(s, d) \in State /\ DepositStarted(s, d).name \in Late
  BY DEF DepositStarted, State, StateName, Late, Waiting
<1>2. \A b \in DepositId \cup {None} :
        Resumed(d, b) \in State /\ Resumed(d, b).name \in Late /\ ~Resumed(d, b).ticket
  BY DEF Resumed, Initial, State, StateName, Late, Waiting
<1>3. \A status \in Status : StateFor[status] \in Late
  BY DEF StateFor, StateForReport, Late, Waiting, TerminalState
<1>4. Late \subseteq StateName
  BY DEF Late, StateName
<1>5. ASSUME NEW status \in Status
      PROVE  /\ StatusPolled(s, d, status) \in State
             /\ StatusPolled(s, d, status).ticket = s.ticket
             /\ StatusPolled(s, d, status) = s \/ StatusPolled(s, d, status).name \in Late
  BY <1>3, <1>4, <1>5 DEF StatusPolled, State
<1> QED
  BY <1>1, <1>2, <1>5

\* In a late state nothing is left to check but the ticket and the quote.
LEMMA LateRates ==
    ASSUME machine'.name \in Late, typed' = typed, rates'.quote # None => rates'.quote.amount = rates'.price,
           machine'.ticket => rates'.quote # None /\ rates'.ticket = rates'.quote.amount /\ typed' = rates'.ticket
    PROVE  RatesFit'
  BY DEF RatesFit, Late, Waiting, TerminalState

LEMMA QuoteParts ==
    ASSUME QuoteInv
    PROVE  /\ QuoteTypeOK /\ ErrandFits /\ RatesFit /\ ExpiryFits /\ machine \in State /\ rates \in Rates
           /\ clock \in Nat /\ typed \in Amount \cup Malformed
  BY DEF QuoteInv, QuoteTypeOK

\* What neither the clock nor the expiry has a part in.
LEMMA ExpiryStands ==
    ASSUME QuoteInv, UNCHANGED <<clock, rates, timer, repricing>> PROVE ExpiryFits'
  BY DEF QuoteInv, ExpiryFits, LapseKnown

\* A flow begins: of the price, of the deposit, of a deposit taken up, of a transfer.
LEMMA FlowBegins ==
    ASSUME QuoteInv, AskPrice \/ Continue \/ Resume \/ Transfer
    PROVE  QuoteInv'
<1>0. /\ QuoteTypeOK /\ ErrandFits /\ RatesFit /\ machine \in State /\ rates \in Rates
      /\ clock' = clock /\ typed' = typed
  BY QuoteParts DEF AskPrice, Continue, Resume, Transfer
<1>1. CASE AskPrice
  <2>1. errand' # None /\ errand'.step = "discover" /\ errand'.amount = typed /\ machine' = Started
        /\ errand' \in [step : ErrandStep, amount : Amount \cup Malformed]
    BY <1>0, <1>1, BegunErrand DEF AskPrice, ErrandStep
  <2>2. ExpiryFits' /\ rates' = NoRates /\ timer' \in Int \cup {None} /\ repricing' \in Nat \cup {None}
    BY <1>0, <1>1, EffectsFit, NoRatesFit DEF AskPrice
  <2>3. QuoteTypeOK'
    BY <1>0, <2>1, <2>2, QuoteReducer, NoRatesFit DEF QuoteTypeOK
  <2>4. typed \in Amount
    BY <1>1 DEF AskPrice
  <2>5. ErrandFits' /\ RatesFit'
    BY <1>0, <2>1, <2>2, <2>4, QuoteReducer DEF ErrandFits, RatesFit, NoRates
  <2> QED
    BY <2>2, <2>3, <2>5 DEF QuoteInv
<1>2. CASE Continue
  <2>1. errand' # None /\ errand'.step = "sign_in" /\ errand'.amount = typed /\ machine' = Authenticate(machine)
        /\ errand' \in [step : ErrandStep, amount : Amount \cup Malformed]
    BY <1>0, <1>2, BegunErrand DEF Continue, ErrandStep
  <2>2. UNCHANGED <<clock, rates, timer, repricing>> /\ machine.name = "PRICING" /\ machine.priced
    BY <1>2 DEF Continue, PriceShown
  <2>3. QuoteTypeOK'
    BY <1>0, <2>1, <2>2, QuoteReducer DEF QuoteTypeOK
  <2>4. ErrandFits' /\ RatesFit'
    BY <1>0, <2>1, <2>2, QuoteReducer DEF ErrandFits, RatesFit
  <2> QED
    BY <2>2, <2>3, <2>4, ExpiryStands DEF QuoteInv
<1>3. CASE Resume
  <2>1. errand' # None /\ errand'.step = "resume" /\ errand'.amount = typed /\ machine' = machine
        /\ errand' \in [step : ErrandStep, amount : Amount \cup Malformed]
    BY <1>0, <1>3, BegunErrand DEF Resume, ErrandStep
  <2>2. UNCHANGED <<clock, rates, timer, repricing>> /\ machine.name = "IDLE"
    BY <1>3 DEF Resume
  <2>3. QuoteTypeOK'
    BY <1>0, <2>1, <2>2 DEF QuoteTypeOK
  <2>4. ErrandFits' /\ RatesFit'
    BY <1>0, <2>1, <2>2 DEF ErrandFits, RatesFit
  <2> QED
    BY <2>2, <2>3, <2>4, ExpiryStands DEF QuoteInv
<1>4. CASE Transfer
  <2>1. errand' # None /\ errand'.step = "transfer" /\ errand'.amount = typed /\ machine' = machine
        /\ errand' \in [step : ErrandStep, amount : Amount \cup Malformed]
    BY <1>0, <1>4, BegunErrand DEF Transfer, ErrandStep
  <2>2. UNCHANGED <<clock, rates, timer, repricing>> /\ machine.ticket
    BY <1>4 DEF Transfer, TicketShown
  <2>3. QuoteTypeOK'
    BY <1>0, <2>1, <2>2 DEF QuoteTypeOK
  <2>4. ErrandFits' /\ RatesFit'
    BY <1>0, <2>1, <2>2 DEF ErrandFits, RatesFit
  <2> QED
    BY <2>2, <2>3, <2>4, ExpiryStands DEF QuoteInv
<1> QED
  BY <1>1, <1>2, <1>3, <1>4

\* A flow goes on, or ends with the price.
LEMMA FlowGoesOn ==
    ASSUME QuoteInv, Discover \/ PriceArrives \/ SignInEnds PROVE QuoteInv'
<1>0. /\ QuoteTypeOK /\ ErrandFits /\ RatesFit /\ ExpiryFits /\ machine \in State /\ rates \in Rates
      /\ clock' = clock /\ typed' = typed
  BY QuoteParts DEF Discover, PriceArrives, SignInEnds
<1>1. CASE Discover
  <2>1. /\ errand # None /\ errand.step = "discover" /\ machine' = Discovered(machine)
        /\ UNCHANGED <<clock, rates, timer, repricing>> /\ GoOn("price")
    BY <1>1 DEF Discover, ErrandAt
  <2>2. errand' # None /\ errand'.step = "price" /\ errand'.amount = typed
        /\ errand' \in [step : ErrandStep, amount : Amount \cup Malformed] /\ machine.name = "DISCOVERING"
    BY <1>0, <2>1, GoneOn DEF ErrandStep, ErrandFits
  <2>3. QuoteTypeOK'
    BY <1>0, <2>1, <2>2, QuoteReducer DEF QuoteTypeOK
  <2>4. ErrandFits' /\ RatesFit'
    BY <1>0, <2>1, <2>2, QuoteReducer DEF ErrandFits, RatesFit, NoRates
  <2> QED
    BY <2>1, <2>3, <2>4, ExpiryStands DEF QuoteInv
<1>2. CASE SignInEnds
  <2>1. /\ errand # None /\ errand.step = "sign_in" /\ machine' = Authenticated(machine)
        /\ UNCHANGED <<clock, rates, timer, repricing>> /\ GoOn("quote")
    BY <1>2 DEF SignInEnds, ErrandAt
  <2>2. errand' # None /\ errand'.step = "quote" /\ errand'.amount = typed
        /\ errand' \in [step : ErrandStep, amount : Amount \cup Malformed] /\ machine.name = "AUTHENTICATING"
    BY <1>0, <2>1, GoneOn DEF ErrandStep, ErrandFits
  <2>3. QuoteTypeOK'
    BY <1>0, <2>1, <2>2, QuoteReducer DEF QuoteTypeOK
  <2>4. ErrandFits' /\ RatesFit'
    BY <1>0, <2>1, <2>2, QuoteReducer DEF ErrandFits, RatesFit
  <2> QED
    BY <2>1, <2>3, <2>4, ExpiryStands DEF QuoteInv
<1>3. CASE PriceArrives
  <2> DEFINE r == [rates EXCEPT !.price = errand.amount]
  <2>1. /\ errand # None /\ errand.step = "price" /\ machine' = Priced(machine) /\ errand' = None /\ Effects(r)
    BY <1>3 DEF PriceArrives, ErrandAt
  <2>2. errand.amount = typed /\ machine.name = "PRICING" /\ typed \in Amount
    BY <1>0, <2>1 DEF ErrandFits, RatesFit
  <2>3. /\ r \in Rates /\ r.price = typed /\ r.quote = None /\ ~r.lapsed /\ r.ticket = rates.ticket
        /\ r.repriced = rates.repriced
    BY <1>0, <2>2 DEF Rates, RatesFit
  <2>4. LapseKnown(r)
    BY <1>0, <2>2, <2>3 DEF LapseKnown, ExpiryFits, RatesFit
  <2> HIDE DEF r
  <2>5. ExpiryFits' /\ rates' = r /\ timer' \in Int \cup {None} /\ repricing' \in Nat \cup {None}
    BY <1>0, <2>1, <2>3, <2>4, EffectsFit
  <2>6. QuoteTypeOK'
    BY <1>0, <2>1, <2>3, <2>5, QuoteReducer DEF QuoteTypeOK
  <2>7. ErrandFits' /\ RatesFit'
    BY <1>0, <2>1, <2>2, <2>3, <2>5, QuoteReducer DEF ErrandFits, RatesFit
  <2> QED
    BY <2>5, <2>6, <2>7 DEF QuoteInv
<1> QED
  BY <1>1, <1>2, <1>3

LEMMA QuoteComes ==
    ASSUME QuoteInv, NEW lifetime \in Lifetimes, QuoteArrives(lifetime) PROVE QuoteInv'
<1> DEFINE quote == [amount |-> errand.amount, expires |-> ExpiresAt(lifetime)]
           r == [rates EXCEPT !.quote = quote, !.lapsed = IsQuoteExpired(quote), !.repriced = None]
<1>0. /\ QuoteTypeOK /\ ErrandFits /\ RatesFit /\ ExpiryFits /\ machine \in State /\ rates \in Rates
      /\ clock \in Nat /\ clock' = clock /\ typed' = typed
  BY QuoteParts DEF QuoteArrives
<1>1. /\ errand # None /\ errand.step = "quote" /\ machine' = Quoted(machine) /\ GoOn("request")
  BY DEF QuoteArrives, ErrandAt
<1>2. errand.amount = typed /\ machine.name = "QUOTING" /\ typed \in Amount
      /\ rates.quote = None /\ rates.price = typed
  BY <1>0, <1>1 DEF ErrandFits, RatesFit
<1>3. Effects(r)
  BY <1>2 DEF QuoteArrives
<1>4. ExpiresAt(lifetime) \in Nat
  <2>1. NowSeconds \in Nat
    BY <1>0, QuoteAssumption, SecondsPassed DEF NowSeconds
  <2> QED
    BY <2>1, QuoteAssumption DEF ExpiresAt
<1>5. quote \in Firm /\ quote.amount = typed /\ quote # None
  BY <1>2, <1>4, QuoteNoneAssumption DEF Firm
<1>6. IsQuoteExpired(quote) <=> quote.expires * Second <= clock
  BY <1>0, <1>4, QuoteAssumption, SecondsPassed DEF IsQuoteExpired, NowSeconds
<1> HIDE DEF quote
<1>7. /\ r \in Rates /\ r.price = typed /\ r.quote = quote /\ r.repriced = None /\ r.ticket = rates.ticket
      /\ r.lapsed = IsQuoteExpired(quote)
  <2>1. IsQuoteExpired(quote) \in BOOLEAN
    BY DEF IsQuoteExpired
  <2> QED
    BY <1>0, <1>2, <1>5, <2>1 DEF Rates
<1> HIDE DEF r
<1>8. LapseKnown(r)
  BY <1>5, <1>6, <1>7 DEF LapseKnown
<1>9. ExpiryFits' /\ rates' = r /\ timer' \in Int \cup {None} /\ repricing' \in Nat \cup {None}
  BY <1>0, <1>3, <1>7, <1>8, EffectsFit
<1>10. errand' # None /\ errand'.step = "request" /\ errand'.amount = typed
       /\ errand' \in [step : ErrandStep, amount : Amount \cup Malformed]
  BY <1>0, <1>1, <1>2, GoneOn DEF ErrandStep
<1>11. QuoteTypeOK'
  BY <1>0, <1>1, <1>2, <1>7, <1>9, <1>10, QuoteReducer DEF QuoteTypeOK
<1>12. ErrandFits' /\ RatesFit'
  BY <1>0, <1>1, <1>2, <1>5, <1>7, <1>9, <1>10, QuoteReducer DEF ErrandFits, RatesFit
<1> QED
  BY <1>9, <1>11, <1>12 DEF QuoteInv

LEMMA TicketComes ==
    ASSUME QuoteInv, NEW d \in DepositId, TicketArrives(d) PROVE QuoteInv'
<1> DEFINE r == [rates EXCEPT !.ticket = errand.amount]
<1>0. /\ QuoteTypeOK /\ ErrandFits /\ RatesFit /\ ExpiryFits /\ machine \in State /\ rates \in Rates
      /\ clock' = clock /\ typed' = typed
  BY QuoteParts DEF TicketArrives
<1>1. /\ errand # None /\ errand.step = "request" /\ machine' = DepositStarted(machine, d) /\ Effects(r)
      /\ errand' = None
  BY DEF TicketArrives, ErrandAt
<1>2. errand.amount = typed /\ machine.name = "DEPOSIT_STARTED" /\ typed \in Amount
      /\ rates.quote # None /\ rates.price = typed /\ rates.quote.amount = typed
  BY <1>0, <1>1 DEF ErrandFits, RatesFit
<1>3. /\ r \in Rates /\ r.price = typed /\ r.quote = rates.quote /\ r.repriced = rates.repriced
      /\ r.lapsed = rates.lapsed /\ r.ticket = typed
  BY <1>0, <1>2 DEF Rates
<1> HIDE DEF r
<1>4. LapseKnown(r)
  BY <1>0, <1>3 DEF LapseKnown, ExpiryFits
<1>5. ExpiryFits' /\ rates' = r /\ timer' \in Int \cup {None} /\ repricing' \in Nat \cup {None}
  BY <1>0, <1>1, <1>3, <1>4, EffectsFit
<1>6. QuoteTypeOK'
  BY <1>0, <1>1, <1>2, <1>3, <1>5, LateReducer DEF QuoteTypeOK
<1>7. machine'.name \in Late
  BY <1>0, <1>1, <1>2, LateReducer
<1>8. ErrandFits' /\ RatesFit'
  BY <1>0, <1>1, <1>2, <1>3, <1>5, <1>7, LateRates DEF ErrandFits
<1> QED
  BY <1>5, <1>6, <1>8 DEF QuoteInv

\* The rates are dropped: by a deposit taken up, a new start or a new component.
LEMMA RatesDropped ==
    ASSUME QuoteInv,
           \/ \E d \in DepositId, b \in DepositId \cup {None} : ResumeArrives(d, b)
           \/ StartAnew \/ Remount
    PROVE  QuoteInv'
<1>0. /\ QuoteTypeOK /\ machine \in State /\ errand' = None /\ Effects(NoRates) /\ clock' = clock
  BY QuoteParts DEF ResumeArrives, StartAnew, Remount
<1>1. ExpiryFits' /\ rates' = NoRates /\ timer' \in Int \cup {None} /\ repricing' \in Nat \cup {None}
  BY <1>0, EffectsFit, NoRatesFit
<1>2. typed' \in Amount \cup Malformed
  BY QuoteParts, QuoteAssumption DEF ResumeArrives, StartAnew, Remount
<1>3. machine' \in State /\ ~machine'.ticket /\ (machine' = Initial \/ machine'.name \in Late)
  BY <1>0, QuoteReducer, LateReducer DEF ResumeArrives, StartAnew, Remount
<1>4. QuoteTypeOK'
  BY <1>0, <1>1, <1>2, <1>3, NoRatesFit DEF QuoteTypeOK
<1>5. ErrandFits' /\ RatesFit'
  BY <1>0, <1>1, <1>3, QuoteReducer DEF ErrandFits, RatesFit, NoRates, Late, Waiting, TerminalState
<1> QED
  BY <1>1, <1>4, <1>5 DEF QuoteInv

\* Only the state moves: a flow fails, the transfer is answered, a poll is.
LEMMA StateMoves ==
    ASSUME QuoteInv, ErrandEnds \/ \E d \in DepositId, status \in Status : Polled(d, status)
    PROVE  QuoteInv'
<1>0. /\ QuoteTypeOK /\ ErrandFits /\ RatesFit /\ machine \in State /\ rates \in Rates
      /\ UNCHANGED <<clock, typed, rates, timer, repricing>>
  BY QuoteParts DEF ErrandEnds, Polled
<1>1. CASE ErrandEnds
  <2>1. errand' = None /\ machine' \in {machine, Errored(machine)}
    BY <1>1 DEF ErrandEnds
  <2>2. QuoteTypeOK' /\ ErrandFits'
    BY <1>0, <2>1, QuoteReducer DEF QuoteTypeOK, ErrandFits
  <2>3. RatesFit'
    BY <1>0, <2>1, QuoteReducer DEF RatesFit
  <2> QED
    BY <1>0, <2>2, <2>3, ExpiryStands DEF QuoteInv
<1>2. CASE \E d \in DepositId, status \in Status : Polled(d, status)
  <2>1. PICK d \in DepositId, status \in Status : Polled(d, status)
    BY <1>2
  <2>2. machine' = StatusPolled(machine, d, status) /\ errand' = errand
    BY <2>1 DEF Polled
  <2>3. CASE machine' = machine
    BY <1>0, <2>2, <2>3, ExpiryStands DEF QuoteInv, QuoteTypeOK, ErrandFits, RatesFit
  <2>4. CASE machine' # machine
    <3>1. machine'.name \in Late /\ machine'.ticket = machine.ticket /\ machine' \in State
      BY <1>0, <2>2, <2>4, LateReducer
    <3>2. machine.name \in Waiting \cup {"CLAIM_REQUIRED"}
      BY <2>2, <2>4 DEF StatusPolled
    <3>3. QuoteTypeOK'
      BY <1>0, <2>2, <3>1 DEF QuoteTypeOK
    <3>4. ErrandFits'
      BY <1>0, <2>2, <3>1, <3>2 DEF ErrandFits, Waiting
    <3>5. RatesFit'
      BY <1>0, <3>1, LateRates DEF RatesFit
    <3> QED
      BY <1>0, <3>3, <3>4, <3>5, ExpiryStands DEF QuoteInv
  <2> QED
    BY <2>3, <2>4
<1> QED
  BY <1>1, <1>2

\* The timer fires when the quote has lapsed, however early the browser may be.
LEMMA TimerIsLate ==
    ASSUME QuoteInv, timer # None, clock + Early >= timer
    PROVE  rates.quote # None /\ ~rates.lapsed /\ IsQuoteExpired(rates.quote)
           /\ rates.quote.expires * Second <= clock
<1>1. /\ clock \in Nat /\ timer \in Int /\ rates.quote # None /\ ~rates.lapsed
      /\ timer >= rates.quote.expires * Second + Margin /\ rates.quote.expires \in Nat
  BY QuoteTypes DEF QuoteInv, QuoteTypeOK, ExpiryFits
<1>2. rates.quote.expires * Second \in Nat
  BY <1>1, QuoteAssumption, SecondsPassed
<1>3. rates.quote.expires * Second <= clock
  BY <1>1, <1>2, QuoteAssumption
<1> QED
  BY <1>1, <1>3, QuoteAssumption, SecondsPassed DEF IsQuoteExpired, NowSeconds

LEMMA ExpiryChecked == ASSUME QuoteInv, CheckExpiry PROVE QuoteInv'
<1> DEFINE r == [rates EXCEPT !.lapsed = TRUE]
<1>0. /\ QuoteTypeOK /\ ErrandFits /\ RatesFit /\ ExpiryFits /\ rates \in Rates
      /\ UNCHANGED <<clock, typed, machine, errand>>
  BY QuoteParts DEF CheckExpiry
<1>1. rates.quote # None /\ ~rates.lapsed /\ rates.quote.expires * Second <= clock /\ Effects(r)
  BY TimerIsLate DEF CheckExpiry
<1>2. /\ r \in Rates /\ r.price = rates.price /\ r.quote = rates.quote /\ r.lapsed = TRUE
      /\ r.repriced = rates.repriced /\ r.ticket = rates.ticket
  BY <1>0 DEF Rates
<1> HIDE DEF r
<1>3. LapseKnown(r)
  BY <1>0, <1>1, <1>2 DEF LapseKnown, ExpiryFits
<1>4. ExpiryFits' /\ rates' = r /\ timer' \in Int \cup {None} /\ repricing' \in Nat \cup {None}
  BY <1>0, <1>1, <1>2, <1>3, EffectsFit
<1>5. QuoteTypeOK' /\ ErrandFits'
  BY <1>0, <1>2, <1>4 DEF QuoteTypeOK, ErrandFits
<1>6. RatesFit'
  BY <1>0, <1>1, <1>2, <1>4 DEF RatesFit, NoRates
<1> QED
  BY <1>4, <1>5, <1>6 DEF QuoteInv

\* The price asked anew is of the quote that has lapsed.
LEMMA Repriced == ASSUME QuoteInv, RepriceArrives \/ RepriceFails PROVE QuoteInv'
<1> DEFINE p == [amount |-> rates.quote.amount, asked |-> repricing]
           r == [rates EXCEPT !.repriced = p]
<1>0. /\ QuoteTypeOK /\ ErrandFits /\ RatesFit /\ ExpiryFits /\ rates \in Rates
      /\ UNCHANGED <<clock, typed, machine, errand, timer>> /\ repricing' = None /\ repricing # None
      /\ repricing \in Nat
  BY QuoteParts DEF RepriceArrives, RepriceFails, QuoteTypeOK
<1>1. rates.lapsed /\ rates.quote # None /\ repricing >= rates.quote.expires * Second
      /\ rates.quote.expires * Second <= clock
  BY <1>0 DEF ExpiryFits, LapseKnown
<1>2. p \in [amount : Amount, asked : Nat] /\ p.amount = rates.quote.amount /\ p.asked = repricing
  BY <1>0, <1>1, QuoteTypes
<1> HIDE DEF p
<1>3. /\ r \in Rates /\ r.price = rates.price /\ r.quote = rates.quote /\ r.lapsed = rates.lapsed
      /\ r.repriced = p /\ r.ticket = rates.ticket
  BY <1>0, <1>2 DEF Rates
<1> HIDE DEF r
<1>4. rates' \in {rates, r}
  BY <1>1 DEF RepriceArrives, RepriceFails, r, p
<1>5. LapseKnown(rates)'
  BY <1>0, <1>1, <1>2, <1>3, <1>4 DEF LapseKnown, ExpiryFits
<1>6. ExpiryFits'
  BY <1>0, <1>3, <1>4, <1>5 DEF ExpiryFits
<1>7. QuoteTypeOK' /\ ErrandFits'
  BY <1>0, <1>3, <1>4 DEF QuoteTypeOK, ErrandFits
<1>8. RatesFit'
  BY <1>0, <1>1, <1>3, <1>4 DEF RatesFit, NoRates
<1> QED
  BY <1>6, <1>7, <1>8 DEF QuoteInv

LEMMA AmountTyped ==
    ASSUME QuoteInv, NEW a \in Amount \cup Malformed, TypeAmount(a) PROVE QuoteInv'
<1>0. /\ QuoteTypeOK /\ ErrandFits /\ RatesFit /\ machine.name = "IDLE" /\ typed' = a
      /\ UNCHANGED <<clock, machine, rates, errand, timer, repricing>>
  BY QuoteParts DEF TypeAmount, Editable
<1>1. QuoteTypeOK' /\ RatesFit'
  BY <1>0 DEF QuoteTypeOK, RatesFit
<1>2. ErrandFits'
  BY <1>0 DEF ErrandFits, QuoteTypeOK, ErrandStep, RatesFit
<1> QED
  BY <1>0, <1>1, <1>2, ExpiryStands DEF QuoteInv

LEMMA TimePasses == ASSUME QuoteInv, ClockTicks PROVE QuoteInv'
<1>0. /\ QuoteTypeOK /\ ErrandFits /\ RatesFit /\ ExpiryFits /\ clock' = clock + 1
      /\ UNCHANGED <<typed, machine, rates, errand, timer, repricing>> /\ clock \in Nat
  BY QuoteParts DEF ClockTicks
<1>1. rates.quote # None => rates.quote.expires * Second \in Nat
  BY <1>0, QuoteTypes, QuoteAssumption, SecondsPassed
<1>2. QuoteTypeOK' /\ ErrandFits' /\ RatesFit'
  BY <1>0 DEF QuoteTypeOK, ErrandFits, RatesFit
<1>3. ExpiryFits'
  BY <1>0, <1>1 DEF ExpiryFits, LapseKnown
<1> QED
  BY <1>2, <1>3 DEF QuoteInv

LEMMA QuoteInitInv == QuoteInit => QuoteInv
<1> SUFFICES ASSUME QuoteInit PROVE QuoteInv
  OBVIOUS
<1>1. Initial \in State /\ Initial.name = "IDLE" /\ ~Initial.priced /\ ~Initial.ticket
  BY DEF State, StateName, Initial
<1>2. QuoteTypeOK
  BY <1>1, NoRatesFit, QuoteAssumption DEF QuoteInit, QuoteTypeOK
<1>3. ErrandFits /\ RatesFit /\ ExpiryFits
  BY <1>1, NoRatesFit DEF QuoteInit, ErrandFits, RatesFit, ExpiryFits, NoRates
<1> QED
  BY <1>2, <1>3 DEF QuoteInv

LEMMA QuoteNextInv == QuoteInv /\ [QuoteNext]_quoteVars => QuoteInv'
<1> SUFFICES ASSUME QuoteInv, [QuoteNext]_quoteVars PROVE QuoteInv'
  OBVIOUS
<1>1. CASE UNCHANGED quoteVars
  BY <1>1 DEF quoteVars, QuoteInv, QuoteTypeOK, ErrandFits, RatesFit, ExpiryFits, LapseKnown
<1>2. CASE QuoteNext
  BY <1>2, AmountTyped, FlowBegins, FlowGoesOn, QuoteComes, TicketComes, RatesDropped, StateMoves, TimePasses,
     ExpiryChecked, Repriced DEF QuoteNext
<1> QED
  BY <1>1, <1>2

\* The price, the quote, the ticket and the transfer of a deposit are for one
\* amount, whenever the form is edited; a price asked anew is the lapsed quote's.
THEOREM RatesAlwaysAgree == QuoteSpec => []RatesAgree
<1>1. QuoteInv => RatesAgree
  <2> SUFFICES ASSUME QuoteInv PROVE RatesAgree
    OBVIOUS
  <2>1. PriceShown => rates.price = typed
    BY QuoteParts DEF PriceShown, RatesFit
  <2>2. /\ rates.quote # None => rates.quote.amount = rates.price
        /\ TicketShown => rates.quote # None /\ rates.ticket = rates.quote.amount /\ typed = rates.ticket
    BY QuoteParts DEF TicketShown, RatesFit
  <2>3. rates.repriced # None => /\ rates.lapsed /\ rates.repriced.amount = rates.quote.amount
                                 /\ rates.repriced.asked >= rates.quote.expires * Second
    BY QuoteParts DEF ExpiryFits, LapseKnown
  <2> QED
    BY <2>1, <2>2, <2>3 DEF RatesAgree
<1> QED
  BY <1>1, QuoteInitInv, QuoteNextInv, PTL DEF QuoteSpec

\* The one check of a quote's expiry comes after it, for every margin that is at
\* least as long as browsers fire timers early.
THEOREM LapseIsNoticed == QuoteSpec => []LapseNoticed
<1>1. QuoteInv => LapseNoticed
  BY QuoteParts DEF LapseNoticed, ExpiryFits, LapseKnown
<1> QED
  BY <1>1, QuoteInitInv, QuoteNextInv, PTL DEF QuoteSpec

-----------------------------------------------------------------------------
(* The pages and the contract *)

\* A page that makes a call, and for whom.
Makes(c) ==
    /\ c \in Call
    /\ \/ page = "event" /\ c.kind = "reserve"
       \/ page = "reservation" /\ c.kind \in {"cancel", "refund"}
       \/ page = "organizer" /\ c.kind \in {"settle", "cancel_event"}
    /\ c.kind # "settle" => c.participant = c.account
    /\ page = "organizer" => TheEvent # None /\ TheEvent.organizer = c.account

\* What a call has done when it was applied; nothing undoes it.
Done(c) ==
    /\ c.kind = "reserve" => HasReservation(1, c.account)
    /\ c.kind = "cancel" => HasReservation(1, c.account) /\ reservations[1][c.account].status = "Cancelled"
    /\ c.kind = "refund" => HasReservation(1, c.account) /\ reservations[1][c.account].status = "Refunded"
    /\ c.kind = "settle" =>
         HasReservation(1, c.participant) /\ reservations[1][c.participant].status = "NoShowSettled"
    /\ c.kind = "cancel_event" => EventIs(1, "Cancelled")

\* What was read is of the event and, once a call has succeeded, not older than it.
Told(reading) ==
    /\ reading.event # None => TheEvent # None /\ TheEvent.organizer = reading.event.organizer
    /\ tx.kind = "success" /\ reading.account = tx.call.account => Shows(reading, tx.call)

PageFits ==
    /\ page \in {"event", "reservation", "organizer"} /\ address \in Viewer \cup {None}
    /\ confirming # None =>
        /\ \/ page = "event" /\ confirming.kind = "reserve"
           \/ page = "reservation" /\ confirming.kind \in {"cancel", "refund"}
           \/ page = "organizer" /\ confirming.kind \in {"settle", "cancel_event"}
        /\ confirming.kind = "settle" => confirming.participant \in Address

LoadFits ==
    /\ stale = None
    /\ load # None => address # None /\ load = [for |-> address, reading |-> load.reading]
    /\ load # None /\ load.reading # None => load.reading.account = address /\ Told(load.reading)
    /\ data.status = "ready" =>
        /\ data.seen.event # None /\ Told(data.seen)
        /\ load = None /\ address # None => data.seen.account = address

WriteFits ==
    /\ job # None =>
        /\ job = [call |-> job.call, phase |-> job.phase, fate |-> job.fate]
        /\ Makes(job.call) /\ (job.fate = "applied" => Done(job.call))
    /\ adrift # None => Makes(adrift)
    /\ tx.kind = "success" => Makes(tx.call) /\ Done(tx.call)

PagesInv == PageFits /\ LoadFits /\ WriteFits

LEMMA TheEventId == 1 \in EventId /\ Viewer \subseteq Address /\ None \notin Address
  BY BondAssumption, PagesAssumption, TokenAssumption DEF EventId

LEMMA CallType ==
    ASSUME NEW c \in Call
    PROVE  /\ c.kind \in {"reserve", "cancel", "refund", "settle", "cancel_event"}
           /\ c.account \in Viewer /\ c.account \in Address /\ c.participant \in Address
  BY TheEventId DEF Call

\* Only the contract, the write and the transaction line can disturb what fits them.
LEMMA WriteFitsStays ==
    ASSUME WriteFits, UNCHANGED <<events, reservations, page, job, tx, adrift>>
    PROVE  WriteFits'
<1>1. \A c : (Makes(c)' <=> Makes(c)) /\ (Done(c)' <=> Done(c))
  BY DEF Makes, Done, HasReservation, EventIs, TheEvent
<1>2. (job # None =>
        /\ job = [call |-> job.call, phase |-> job.phase, fate |-> job.fate]
        /\ Makes(job.call) /\ (job.fate = "applied" => Done(job.call)))'
  BY <1>1 DEF WriteFits, Makes, Done, HasReservation, EventIs, TheEvent
<1>3. (adrift # None => Makes(adrift))'
  BY <1>1 DEF WriteFits, Makes
<1>4. (tx.kind = "success" => Makes(tx.call) /\ Done(tx.call))'
  BY <1>1 DEF WriteFits, Makes, Done, HasReservation, EventIs, TheEvent
<1> QED
  BY <1>2, <1>3, <1>4 DEF WriteFits

\* What is done stays done, and a page makes the same calls.
LEMMA DoneStays ==
    ASSUME BondInv, [Next]_vars, UNCHANGED page, NEW c, Makes(c)
    PROVE  Makes(c)' /\ (Done(c) => Done(c)')
<1>0. /\ 1 \in EventId /\ c.account \in Address /\ c.participant \in Address
      /\ TypeOK /\ TypeInv /\ EventsNumbered /\ None \notin Reservation
  BY TheEventId, CallType, BondAssumption DEF Makes, BondInv, TypeInv
<1>1. TheEvent # None =>
        TheEvent' # None /\ TheEvent'.organizer = TheEvent.organizer
        /\ (EventIs(1, "Cancelled") => EventIs(1, "Cancelled")')
  BY <1>0, EventStep DEF EventKept, TheEvent, EventIs
<1>2. ASSUME NEW p \in Address, HasReservation(1, p)
      PROVE  HasReservation(1, p)'
             /\ (reservations[1][p].status # "Locked" => reservations'[1][p] = reservations[1][p])
  <2>1. reservations[1][p] \in Reservation
    BY <1>0, <1>2, StoredTypes
  <2>2. CASE \E outcome \in ReservationStatus \ {"Locked"} : Ends(1, p, outcome)
    <3>1. PICK outcome \in ReservationStatus \ {"Locked"} : Ends(1, p, outcome)
      BY <2>2
    <3>2. reservations'[1][p] \in Reservation /\ IsLocked(1, p)
      BY <2>1, <3>1 DEF Ends, Reservation
    <3> QED
      BY <1>0, <3>2 DEF IsLocked, HasReservation
  <2> QED
    BY <1>0, <1>2, <2>2, ReservationStep DEF Locks, HasReservation
<1>3. Makes(c)'
  BY <1>1 DEF Makes
<1>4. ASSUME Done(c) PROVE Done(c)'
  BY <1>0, <1>1, <1>2, <1>4 DEF Done, EventIs, TheEvent
<1> QED
  BY <1>3, <1>4

\* A call that is applied is a step of the contract, and is done.
LEMMA AppliedIsDone ==
    ASSUME BondInv, NEW c, Makes(c), Applies(c)
    PROVE  Next /\ Done(c)'
<1>0. /\ 1 \in EventId /\ c.account \in Address /\ c.participant \in Address
      /\ c.kind # "settle" => c.participant = c.account
      /\ TypeOK /\ TypeInv /\ None \notin Reservation /\ None \notin Event
      /\ c.kind \in {"reserve", "cancel", "refund", "settle", "cancel_event"}
  BY TheEventId, CallType, BondAssumption DEF Makes, BondInv, TypeInv
<1>1. CASE c.kind = "reserve"
  <2>1. Reserve(1, c.participant)
    BY <1>1 DEF Applies
  <2>2. HasReservation(1, c.participant)'
    BY <1>0, <2>1, ReserveOne, ReservedType DEF HasReservation
  <2> QED
    BY <1>0, <1>1, <2>1, <2>2 DEF Next, Participate, Done
<1>2. ASSUME NEW outcome \in ReservationStatus, IsLocked(1, c.participant), Close(1, c.participant, outcome)
      PROVE  HasReservation(1, c.participant)' /\ reservations'[1][c.participant].status = outcome
  <2>1. reservations[1][c.participant] \in Reservation
    BY <1>0, <1>2, StoredTypes DEF IsLocked
  <2>2. reservations'[1][c.participant] = [reservations[1][c.participant] EXCEPT !.status = outcome]
    BY <1>0, <1>2, CloseOne
  <2>3. reservations'[1][c.participant] \in Reservation /\ reservations'[1][c.participant].status = outcome
    BY <2>1, <2>2 DEF Reservation
  <2> QED
    BY <1>0, <2>3 DEF HasReservation
<1>3. CASE c.kind = "cancel"
  <2>1. CancelReservation(1, c.participant)
    BY <1>3 DEF Applies
  <2>2. HasReservation(1, c.participant)' /\ reservations'[1][c.participant].status = "Cancelled"
    BY <1>2, <2>1 DEF CancelReservation, CancellationAllowed, ReservationStatus
  <2> QED
    BY <1>0, <1>3, <2>1, <2>2 DEF Next, Participate, Done
<1>4. CASE c.kind = "refund"
  <2>1. ClaimCancelledEventRefund(1, c.participant)
    BY <1>4 DEF Applies
  <2>2. HasReservation(1, c.participant)' /\ reservations'[1][c.participant].status = "Refunded"
    BY <1>2, <2>1 DEF ClaimCancelledEventRefund, RefundAllowed, ReservationStatus
  <2> QED
    BY <1>0, <1>4, <2>1, <2>2 DEF Next, Participate, Done
<1>5. CASE c.kind = "settle"
  <2>1. SettleNoShow(1, c.participant)
    BY <1>5 DEF Applies
  <2>2. HasReservation(1, c.participant)' /\ reservations'[1][c.participant].status = "NoShowSettled"
    BY <1>2, <2>1 DEF SettleNoShow, SettlementAllowed, ReservationStatus
  <2> QED
    BY <1>0, <1>5, <2>1, <2>2 DEF Next, Participate, Done
<1>6. CASE c.kind = "cancel_event"
  <2>1. CancelEvent(1)
    BY <1>6 DEF Applies
  <2>2. events[1] \in Event
    BY <1>0, <2>1, StoredTypes DEF CancelEvent, EventCancellable, EventIs
  <2>3. events'[1] = [events[1] EXCEPT !.status = "Cancelled"]
    BY <1>0, <2>1 DEF CancelEvent, TypeOK
  <2>4. events'[1] \in Event /\ events'[1].status = "Cancelled"
    BY <2>2, <2>3 DEF Event, EventStatus
  <2> QED
    BY <1>0, <1>6, <2>1, <2>4 DEF Next, Done, EventIs
<1> QED
  BY <1>0, <1>1, <1>3, <1>4, <1>5, <1>6

\* A reading of a contract that a call has changed shows it.
LEMMA DoneIsShown ==
    ASSUME NEW c, Makes(c), Done(c), NEW assets
    PROVE  Shows([Reading(c.account) EXCEPT !.assets = assets], c)
<1> DEFINE a == c.account
           seen == [Reading(a) EXCEPT !.assets = assets]
<1>0. a \in Address /\ c.participant \in Address /\ c.kind \in {"reserve", "cancel", "refund", "settle", "cancel_event"}
  BY CallType DEF Makes
<1>1. /\ seen.account = a /\ seen.event = TheEvent
      /\ seen.rows = [p \in Reads(a) |-> reservations[1][p]]
  BY DEF Reading
<1> HIDE DEF seen
<1>2. page # "organizer" => Reads(a) = {a}
  BY DEF Reads
<1>3. page = "organizer" => Reads(a) = Address
  BY DEF Reads, Makes
<1>4. CASE page # "organizer"
  <2>1. Own(seen) = reservations[1][a]
    BY <1>1, <1>2, <1>4 DEF Own
  <2> HIDE DEF a
  <2> QED
    BY <1>0, <2>1, <1>4 DEF Shows, Done, Makes, HasReservation, a, seen
<1>5. CASE page = "organizer"
  <2>1. seen.rows[c.participant] = reservations[1][c.participant]
    BY <1>0, <1>1, <1>3, <1>5
  <2> QED
    BY <1>0, <1>1, <2>1, <1>5 DEF Shows, Done, Makes, EventIs, TheEvent, seen
<1> QED
  BY <1>4, <1>5

\* The contract moves on under a page that stays as it is.
LEMMA ScreenStays ==
    ASSUME BondInv, PagesInv, [Next]_vars,
           UNCHANGED <<page, address, data, load, stale, confirming, tx>>
    PROVE  /\ PageFits' /\ LoadFits'
           /\ (tx.kind = "success" => Makes(tx.call) /\ Done(tx.call))'
           /\ job # None => \A c : c = job.call => Makes(c)' /\ (job.fate = "applied" => Done(c)')
           /\ adrift # None => \A c : c = adrift => Makes(c)'
<1>0. TheEvent # None => TheEvent' # None /\ TheEvent'.organizer = TheEvent.organizer
  BY TheEventId, EventStep DEF EventKept, TheEvent, BondInv
<1>1. PageFits'
  BY DEF PagesInv, PageFits
<1>2. LoadFits'
  BY <1>0 DEF PagesInv, LoadFits, Told
<1>3. \A c : Makes(c) => Makes(c)' /\ (Done(c) => Done(c)')
  BY DoneStays
<1>4. (tx.kind = "success" => Makes(tx.call) /\ Done(tx.call))'
  <2>1. ASSUME tx.kind = "success", NEW c, c = tx.call PROVE Makes(c)' /\ Done(c)'
    BY <1>3, <2>1 DEF PagesInv, WriteFits
  <2> QED
    BY <2>1 DEF Makes, Done, HasReservation, EventIs, TheEvent
<1> QED
  BY <1>1, <1>2, <1>3, <1>4 DEF PagesInv, WriteFits

\* Loading again is loading for the connected account.
LEMMA ReloadFits ==
    ASSUME PagesInv, Reload, UNCHANGED address
    PROVE  LoadFits'
<1>1. address # None => address \in Viewer
  BY DEF PagesInv, PageFits
<1> QED
  BY <1>1, LoadAssumption DEF Reload, Load, Superseded, LoadFits

LEMMA ReadingType ==
    ASSUME BondInv, PageFits, NEW a \in Viewer, NEW assets \in {AssetsSuffice(a), TRUE}
    PROVE  [Reading(a) EXCEPT !.assets = assets] \in Readings
<1>0. a \in Address /\ 1 \in EventId /\ TypeOK
  BY TheEventId DEF BondInv, TypeInv
<1>1. AssetsSuffice(a) \in BOOLEAN
  BY <1>0 DEF AssetsSuffice, PageFits, TypeOK, TokenTypeOK
<1>2. TheEvent \in Event \cup {None} /\ now \in Time
  BY <1>0 DEF TypeOK, TheEvent
<1>3. Reads(a) \in SUBSET Address
  BY <1>0 DEF Reads
<1>4. [p \in Reads(a) |-> reservations[1][p]] \in [Reads(a) -> Reservation \cup {None}]
  BY <1>0, <1>3 DEF TypeOK
<1> DEFINE rows == [p \in Reads(a) |-> reservations[1][p]]
<1>5. rows \in UNION {[S -> Reservation \cup {None}] : S \in SUBSET Address}
  BY <1>3, <1>4
<1>6. Reading(a) = [account |-> a, event |-> TheEvent, time |-> now, assets |-> AssetsSuffice(a), rows |-> rows]
  BY DEF Reading
<1> HIDE DEF rows
<1>7. Reading(a) \in Readings
  BY <1>1, <1>2, <1>5, <1>6 DEF Readings
<1>8. assets \in BOOLEAN
  BY <1>1
<1> QED
  BY <1>7, <1>8 DEF Readings

LEMMA LoadStepFits ==
    ASSUME BondInv, PagesInv, LoadReads \/ LoadAnswers \/ LoadFails
    PROVE  PagesInv'
<1>0. /\ UNCHANGED <<vars, page, address, confirming, job, tx, adrift>>
  BY DEF LoadReads, LoadAnswers, LoadFails
<1>1. PageFits' /\ WriteFits'
  <2>1. PageFits'
    BY <1>0 DEF PagesInv, PageFits
  <2>2. UNCHANGED <<events, reservations, page, job, tx, adrift>>
    BY <1>0 DEF vars
  <2> QED
    BY <2>1, <2>2, WriteFitsStays DEF PagesInv
<1>2. CASE LoadReads
  <2>1. PICK assets \in {AssetsSuffice(load.for), TRUE} :
          load' = [load EXCEPT !.reading = [Reading(load.for) EXCEPT !.assets = assets]]
    BY <1>2 DEF LoadReads
  <2> DEFINE reading == [Reading(address) EXCEPT !.assets = assets]
  <2>2. load # None /\ load = [for |-> address, reading |-> load.reading] /\ address # None
    BY <1>2 DEF LoadReads, PagesInv, LoadFits
  <2>3. load' = [for |-> address, reading |-> reading]
    BY <2>1, <2>2
  <2>4. reading.account = address /\ reading.event = TheEvent
    BY DEF Reading
  <2>10. load' # None
    <3>1. address \in Viewer /\ address \in Address
      BY <2>2, TheEventId DEF PagesInv, PageFits
    <3>2. [Reading(address) EXCEPT !.assets = assets] \in Readings
      <4>1. load.for = address
        BY <2>2
      <4> QED
        BY <2>1, <3>1, <4>1, ReadingType DEF PagesInv
    <3> QED
      BY <2>3, <3>1, <3>2, LoadAssumption
  <2>5. tx.kind = "success" /\ tx.call.account = address => Shows(reading, tx.call)
    BY DoneIsShown DEF PagesInv, WriteFits
  <2> HIDE DEF reading
  <2>6. Told(reading)
    BY <2>4, <2>5 DEF Told
  <2>7. UNCHANGED <<data, stale>>
    BY <1>2 DEF LoadReads
  <2>8. load'.for = address /\ load'.reading = reading
    BY <2>3
  <2>9. LoadFits'
    BY <1>0, <2>2, <2>3, <2>4, <2>6, <2>7, <2>8, <2>10 DEF PagesInv, LoadFits, Told, TheEvent, vars
  <2> QED
    BY <1>1, <2>9 DEF PagesInv
<1>3. CASE LoadAnswers
  <2>1. load # None /\ load.reading # None /\ Answered(load.reading) /\ load' = None /\ stale' = None
    BY <1>3 DEF LoadAnswers, PagesInv, LoadFits
  <2>2. data'.status = "ready" => data'.seen = load.reading /\ load.reading.event # None
    BY <2>1 DEF Answered
  <2>3. LoadFits'
    BY <1>0, <2>1, <2>2 DEF PagesInv, LoadFits, Told, TheEvent, vars
  <2> QED
    BY <1>1, <2>3 DEF PagesInv
<1>4. CASE LoadFails
  BY <1>1, <1>4 DEF LoadFails, PagesInv, LoadFits
<1> QED
  BY <1>2, <1>3, <1>4

LEMMA SwitchFits ==
    ASSUME PagesInv, NEW a \in Viewer \cup {None}, Switch(a)
    PROVE  PagesInv'
<1>1. /\ address' = a /\ load' = IF a = None THEN None ELSE [for |-> a, reading |-> None]
      /\ stale' = None /\ UNCHANGED <<vars, page, data, confirming, job, tx, adrift>>
  BY DEF Switch, Load, Superseded
<1>2. PageFits' /\ WriteFits'
  <2>1. PageFits'
    BY <1>1 DEF PagesInv, PageFits
  <2>2. UNCHANGED <<events, reservations, page, job, tx, adrift>>
    BY <1>1 DEF vars
  <2> QED
    BY <2>1, <2>2, WriteFitsStays DEF PagesInv
<1>3. a # None => load' # None
  BY <1>1, LoadAssumption
<1>4. load' # None => load'.reading = None /\ load' = [for |-> a, reading |-> load'.reading] /\ a # None
  BY <1>1
<1>5. LoadFits'
  BY <1>1, <1>3, <1>4 DEF PagesInv, LoadFits, Told, TheEvent, vars
<1> QED
  BY <1>2, <1>5 DEF PagesInv

\* What a page offers is a call of that page, for the connected account.
LEMMA OfferedFits ==
    ASSUME PagesInv, NEW c \in Call, Offered(c)
    PROVE  Makes(c)
<1>1. data.status = "ready" /\ c.account = address
  BY DEF Offered
<1>2. data.seen.event # None /\ Told(data.seen)
  BY <1>1 DEF PagesInv, LoadFits
<1>3. CASE page = "event"
  BY <1>1, <1>3 DEF Offered, EventPageOffers, Makes
<1>4. CASE page = "reservation"
  BY <1>1, <1>4 DEF Offered, ReservationPageOffers, Makes
<1>5. CASE page = "organizer"
  BY <1>1, <1>2, <1>5, CallType DEF Offered, OrganizerPageOffers, Makes, Told
<1> QED
  BY <1>3, <1>4, <1>5 DEF PagesInv, PageFits

LEMMA AskFits ==
    ASSUME PagesInv, NEW c \in Call, Ask(c)
    PROVE  PagesInv'
<1>1. /\ Offered(c) /\ tx' = [kind |-> "idle", call |-> None, hash |-> FALSE]
      /\ confirming' = [kind |-> c.kind, participant |-> IF c.kind = "settle" THEN c.participant ELSE None]
      /\ UNCHANGED <<vars, page, address, data, load, stale, job, adrift>>
  BY DEF Ask
<1>2. confirming'.kind = c.kind /\ (c.kind = "settle" => confirming'.participant = c.participant)
      /\ tx'.kind = "idle"
  BY <1>1
<1>3. PageFits'
  BY <1>1, <1>2, OfferedFits, CallType DEF PagesInv, PageFits, Makes
<1>4. LoadFits'
  BY <1>1, <1>2 DEF PagesInv, LoadFits, Told, TheEvent, vars
<1>5. WriteFits'
  BY <1>1, <1>2 DEF PagesInv, WriteFits, Makes, Done, HasReservation, EventIs, TheEvent, vars
<1> QED
  BY <1>3, <1>4, <1>5 DEF PagesInv

LEMMA SubmitFits ==
    ASSUME PagesInv, Submit
    PROVE  PagesInv'
<1> DEFINE c == [kind |-> confirming.kind, account |-> address,
                 participant |-> IF confirming.kind = "settle" THEN confirming.participant ELSE address]
<1>1. /\ confirming # None /\ address # None /\ job = None /\ Confirmable(c)
      /\ job' = [call |-> c, phase |-> "simulating", fate |-> "none"]
      /\ tx' = [kind |-> "running", call |-> None, hash |-> FALSE]
      /\ UNCHANGED <<vars, page, address, data, load, stale, confirming, adrift>>
  BY DEF Submit
<1>2. address \in Viewer /\ address \in Address
  BY <1>1, TheEventId DEF PagesInv, PageFits
<1>3. c \in Call
  BY <1>1, <1>2 DEF Call, PagesInv, PageFits
<1>4. Makes(c)
  <2>1. CASE c.kind = "settle"
    <3>1. page = "organizer" /\ data.status = "ready" /\ address = data.seen.event.organizer
      BY <1>1, <2>1 DEF Confirmable, PagesInv, PageFits
    <3>2. TheEvent # None /\ TheEvent.organizer = address
      BY <3>1 DEF PagesInv, LoadFits, Told
    <3> QED
      BY <1>3, <2>1, <3>1, <3>2 DEF Makes
  <2>2. CASE c.kind # "settle"
    <3> HIDE DEF c
    <3> QED
      BY <1>1, <1>3, <2>2, OfferedFits DEF Confirmable
  <2> QED
    BY <2>1, <2>2
<1> HIDE DEF c
<1>5. job'.call = c /\ job'.phase = "simulating" /\ job'.fate = "none" /\ tx'.kind = "running"
  BY <1>1
<1>6. PageFits'
  BY <1>1 DEF PagesInv, PageFits
<1>7. LoadFits'
  BY <1>1, <1>5 DEF PagesInv, LoadFits, Told, TheEvent, vars
<1>8. WriteFits'
  BY <1>1, <1>4, <1>5 DEF PagesInv, WriteFits, Makes, Done, HasReservation, EventIs, TheEvent, vars
<1> QED
  BY <1>6, <1>7, <1>8 DEF PagesInv

LEMMA ProceedFits ==
    ASSUME PagesInv, job # None, NEW phase, Proceed(phase)
    PROVE  PagesInv'
<1>1. /\ job = [call |-> job.call, phase |-> job.phase, fate |-> job.fate]
      /\ UNCHANGED <<vars, page, address, data, load, stale, confirming, tx, adrift>>
  BY DEF Proceed, PagesInv, WriteFits
<1>2. job' = [call |-> job.call, phase |-> phase, fate |-> IF phase = "confirming" THEN "pending" ELSE job.fate]
  BY <1>1 DEF Proceed
<1>3. job'.call = job.call /\ job'.phase = phase
      /\ job'.fate = IF phase = "confirming" THEN "pending" ELSE job.fate
  BY <1>2
<1>4. PageFits' /\ LoadFits'
  BY <1>1 DEF PagesInv, PageFits, LoadFits, Told, TheEvent, vars
<1>5. WriteFits'
  <2>1. UNCHANGED <<events, reservations, page, tx, adrift>>
    BY <1>1 DEF vars
  <2>2. Makes(job.call)' /\ (job'.fate = "applied" => Done(job.call)')
    BY <1>1, <1>3, <2>1 DEF PagesInv, WriteFits, Makes, Done, HasReservation, EventIs, TheEvent
  <2> QED
    BY <1>2, <1>3, <2>1, <2>2 DEF PagesInv, WriteFits, Makes, Done, HasReservation, EventIs, TheEvent
<1> QED
  BY <1>4, <1>5 DEF PagesInv

LEMMA WriteEndsFit ==
    ASSUME PagesInv, WriteFails \/ GivesUp \/ Succeeds
    PROVE  PagesInv'
<1>1. /\ Reload /\ job' = None /\ UNCHANGED <<vars, page, address>>
      /\ confirming' = confirming \/ confirming' = None
  BY DEF WriteFails, GivesUp, Failed, Succeeds
<1>2. PageFits'
  BY <1>1 DEF PagesInv, PageFits
<1>3. LoadFits'
  BY <1>1, ReloadFits
<1>4. CASE WriteFails \/ GivesUp
  <2>1. tx'.kind = "failed" /\ (adrift' # adrift => job # None /\ adrift' = job.call)
    <3>1. CASE WriteFails
      BY <3>1 DEF WriteFails, Failed, FailureState
    <3>2. CASE GivesUp
      BY <3>2 DEF GivesUp, Failed, FailureState, At
    <3> QED
      BY <1>4, <3>1, <3>2
  <2>2. WriteFits'
    BY <1>1, <2>1 DEF PagesInv, WriteFits, Makes, TheEvent, vars
  <2> QED
    BY <1>2, <1>3, <2>2 DEF PagesInv
<1>5. CASE Succeeds
  <2>1. tx'.call = job.call /\ job # None /\ job.fate = "applied" /\ adrift' = adrift
    BY <1>5 DEF Succeeds, Confirmed, At
  <2>2. WriteFits'
    BY <1>1, <2>1 DEF PagesInv, WriteFits, Makes, Done, HasReservation, EventIs, TheEvent, vars
  <2> QED
    BY <1>2, <1>3, <2>2 DEF PagesInv
<1> QED
  BY <1>4, <1>5

\* The network applies a call that the page waits for, or no longer waits for.
LEMMA LedgerFits ==
    ASSUME BondInv, PagesInv, LedgerApplies \/ LedgerAppliesLate \/ Elsewhere
    PROVE  PagesInv' /\ [Next]_vars
<1>0. UNCHANGED <<page, address, data, load, stale, confirming, tx>>
  BY DEF LedgerApplies, LedgerAppliesLate, Elsewhere, pageVars
<1>1. CASE LedgerApplies
  <2>1. job # None /\ Makes(job.call) /\ job = [call |-> job.call, phase |-> job.phase, fate |-> job.fate]
        /\ adrift' = adrift
    BY <1>1 DEF LedgerApplies, At, PagesInv, WriteFits
  <2>2. CASE Applies(job.call) /\ job' = [job EXCEPT !.fate = "applied"]
    <3>1. job' = [call |-> job.call, phase |-> job.phase, fate |-> "applied"]
      BY <2>1, <2>2
    <3>2. job'.call = job.call /\ job'.phase = job.phase /\ job'.fate = "applied"
      BY <3>1
    <3>3. Next /\ \A c : c = job.call => Done(c)'
      BY <2>1, <2>2, AppliedIsDone
    <3>4. PageFits' /\ LoadFits' /\ (tx.kind = "success" => Makes(tx.call) /\ Done(tx.call))'
          /\ (\A c : c = job.call => Makes(c)') /\ (adrift # None => \A c : c = adrift => Makes(c)')
      BY <1>0, <2>1, <3>3, ScreenStays
    <3>5. WriteFits'
      BY <2>1, <3>1, <3>2, <3>3, <3>4 DEF WriteFits, Makes, Done, HasReservation, EventIs, TheEvent
    <3> QED
      BY <3>3, <3>4, <3>5 DEF PagesInv
  <2>3. CASE job' = [job EXCEPT !.fate = "failed"] /\ UNCHANGED vars
    <3>1. job' = [call |-> job.call, phase |-> job.phase, fate |-> "failed"]
      BY <2>1, <2>3
    <3>2. job'.call = job.call /\ job'.phase = job.phase /\ job'.fate = "failed"
      BY <3>1
    <3>3. UNCHANGED <<events, reservations>>
      BY <2>3 DEF vars
    <3>4. PageFits' /\ LoadFits'
      BY <1>0, <3>3 DEF PagesInv, PageFits, LoadFits, Told, TheEvent
    <3>5. Makes(job.call)'
      BY <1>0, <2>1, <3>1, <3>3 DEF Makes, TheEvent
    <3>6. (adrift # None => Makes(adrift)') /\ (tx.kind = "success" => Makes(tx.call)' /\ Done(tx.call)')
      BY <1>0, <2>1, <3>3 DEF PagesInv, WriteFits, Makes, Done, HasReservation, EventIs, TheEvent
    <3>7. WriteFits'
      BY <1>0, <2>1, <3>1, <3>2, <3>5, <3>6 DEF WriteFits
    <3> QED
      BY <2>3, <3>4, <3>7 DEF PagesInv
  <2> QED
    BY <1>1, <2>2, <2>3 DEF LedgerApplies
<1>2. CASE LedgerAppliesLate \/ Elsewhere
  <2>1. [Next]_vars
    <3>1. ASSUME adrift # None, Applies(adrift) PROVE Next
      BY <3>1, AppliedIsDone DEF PagesInv, WriteFits
    <3> QED
      BY <1>2, <3>1 DEF LedgerAppliesLate, Elsewhere
  <2>2. job' = job /\ (adrift' = adrift \/ adrift' = None)
    BY <1>2 DEF LedgerAppliesLate, Elsewhere, pageVars
  <2>3. PageFits' /\ LoadFits' /\ (tx.kind = "success" => Makes(tx.call) /\ Done(tx.call))'
        /\ (job # None => \A c : c = job.call => Makes(c)' /\ (job.fate = "applied" => Done(c)'))
        /\ (adrift # None => \A c : c = adrift => Makes(c)')
    BY <1>0, <2>1, ScreenStays
  <2>4. WriteFits'
    BY <2>2, <2>3 DEF PagesInv, WriteFits, Makes, Done, HasReservation, EventIs, TheEvent
  <2> QED
    BY <2>1, <2>3, <2>4 DEF PagesInv
<1> QED
  BY <1>1, <1>2

LEMMA PagesInitInv == PagesInit => PagesInv
  BY DEF PagesInit, PagesInv, PageFits, LoadFits, WriteFits

\* Every step of a page is a step of the contract, or leaves it alone.
LEMMA PagesStep == BondInv /\ PagesInv /\ [PagesNext]_pagesVars => PagesInv' /\ [Next]_vars
<1> SUFFICES ASSUME BondInv, PagesInv, [PagesNext]_pagesVars PROVE PagesInv' /\ [Next]_vars
  OBVIOUS
<1>1. CASE LoadReads \/ LoadAnswers \/ LoadFails
  BY <1>1, LoadStepFits DEF LoadReads, LoadAnswers, LoadFails
<1>2. CASE Retry
  <2>1. Reload /\ UNCHANGED <<vars, page, address, confirming, job, tx, adrift>>
    BY <1>2 DEF Retry
  <2>2. PageFits' /\ UNCHANGED <<events, reservations>>
    BY <2>1 DEF PagesInv, PageFits, vars
  <2> QED
    BY <2>1, <2>2, ReloadFits, WriteFitsStays DEF PagesInv
<1>3. ASSUME NEW a \in Viewer \cup {None}, Switch(a) PROVE PagesInv' /\ [Next]_vars
  BY <1>3, SwitchFits DEF Switch
<1>4. ASSUME NEW c \in Call, Ask(c) PROVE PagesInv' /\ [Next]_vars
  BY <1>4, AskFits DEF Ask
<1>5. CASE Dismiss
  <2>1. UNCHANGED <<vars, page, address, data, load, stale, job, tx, adrift>> /\ confirming' = None
    BY <1>5 DEF Dismiss
  <2>2. UNCHANGED <<events, reservations>>
    BY <2>1 DEF vars
  <2>3. PageFits' /\ LoadFits'
    <3>1. PageFits'
      BY <2>1 DEF PagesInv, PageFits
    <3>2. LoadFits'
      BY <2>1, <2>2 DEF PagesInv, LoadFits, Told, TheEvent
    <3> QED
      BY <3>1, <3>2
  <2>4. WriteFits'
    BY <2>1, <2>2, WriteFitsStays DEF PagesInv
  <2> QED
    BY <2>1, <2>3, <2>4 DEF PagesInv
<1>6. CASE Submit
  BY <1>6, SubmitFits DEF Submit
<1>7. CASE Simulated \/ Signed \/ Sent
  <2>1. job # None /\ \E phase : Proceed(phase)
    BY <1>7 DEF Simulated, Signed, Sent, At
  <2> QED
    BY <2>1, ProceedFits DEF Proceed
<1>8. CASE WriteFails \/ GivesUp \/ Succeeds
  BY <1>8, WriteEndsFit DEF WriteFails, GivesUp, Failed, Succeeds
<1>9. CASE LedgerApplies \/ LedgerAppliesLate \/ Elsewhere
  BY <1>9, LedgerFits
<1>10. CASE UNCHANGED pagesVars
  <2>1. UNCHANGED <<vars, page, address, data, load, stale, confirming, job, tx, adrift>>
    BY <1>10 DEF pagesVars, pageVars
  <2>2. UNCHANGED <<events, reservations>>
    BY <2>1 DEF vars
  <2>3. PageFits' /\ LoadFits'
    <3>1. PageFits'
      BY <2>1 DEF PagesInv, PageFits
    <3>2. LoadFits'
      BY <2>1, <2>2 DEF PagesInv, LoadFits, Told, TheEvent
    <3> QED
      BY <3>1, <3>2
  <2>4. WriteFits'
    BY <2>1, <2>2, WriteFitsStays DEF PagesInv
  <2> QED
    BY <2>1, <2>3, <2>4 DEF PagesInv
<1> QED
  BY <1>1, <1>2, <1>3, <1>4, <1>5, <1>6, <1>7, <1>8, <1>9, <1>10 DEF PagesNext

\* What holds of the contract holds of it under a page.
LEMMA PagesKeepInv == PagesSpec => Spec /\ []BondInv /\ []PagesInv
<1>1. PagesInit => Init /\ BondInv /\ PagesInv
  BY PagesInitInv, BondInvInit DEF PagesInit
<1>2. BondInv /\ PagesInv /\ [PagesNext]_pagesVars => PagesInv' /\ [Next]_vars
  BY PagesStep
<1> QED
  BY <1>1, <1>2, BondInvStep, PTL DEF PagesSpec, Spec

\* However loads, reloads, writes and changes of the account overlap, what is on the
\* screen is of the account connected and not from before a call that succeeded.
THEOREM PagesFresh == PagesSpec => []FreshAfterSuccess
<1>1. PagesInv => FreshAfterSuccess
  BY DEF PagesInv, LoadFits, Told, FreshAfterSuccess
<1> QED
  BY <1>1, PagesKeepInv, PTL
-----------------------------------------------------------------------------
(* Predictions *)

\* A page that is up to date: what it shows is what it would read now.
UpToDate == data.status = "ready" /\ address # None /\ data.seen = Reading(address)

LEMMA ReadNow ==
    ASSUME BondInv, PagesInv, UpToDate
    PROVE  /\ TheEvent # None /\ TheEvent \in Event /\ TheEvent.terms \in TermsType
           /\ address \in Address /\ address \in Signers
           /\ data.seen.account = address /\ data.seen.event = TheEvent /\ data.seen.time = now
           /\ data.seen.assets = AssetsSuffice(address)
           /\ data.seen.rows = [p \in Reads(address) |-> reservations[1][p]]
           /\ Reads(address) \subseteq Address
<1>1. address \in Viewer
  BY DEF UpToDate, PagesInv, PageFits
<1>2. address \in Address /\ address \in Signers
  BY <1>1, TheEventId, PagesAssumption
<1>3. /\ data.seen.account = address /\ data.seen.event = TheEvent /\ data.seen.time = now
      /\ data.seen.assets = AssetsSuffice(address)
      /\ data.seen.rows = [p \in Reads(address) |-> reservations[1][p]]
  BY DEF UpToDate, Reading
<1>4. TheEvent # None
  BY <1>3 DEF UpToDate, PagesInv, LoadFits
<1>5. TheEvent \in Event /\ TheEvent.terms \in TermsType
  BY <1>4, StoredTypes, TheEventId DEF BondInv, TypeInv, TheEvent
<1>6. Reads(address) \subseteq Address
  BY <1>2 DEF Reads
<1> QED
  BY <1>2, <1>3, <1>4, <1>5, <1>6

\* A locked reservation has its seat, so the counter that a cancellation checks
\* is not zero.
LEMMA LockedIsCounted ==
    ASSUME BondInv, NEW e \in EventId, NEW p \in Address, IsLocked(e, p), events[e] # None
    PROVE  events[e].reserved_count > 0
<1>1. p \in Seated(e) /\ IsFiniteSet(Seated(e))
  BY SeatedFinite DEF Seated, TakesSeat, IsLocked
<1>2. Cardinality(Seated(e)) \in Nat /\ Cardinality(Seated(e)) # 0
  BY <1>1, FS_CardinalityType, FS_EmptySet
<1>3. events[e].reserved_count = Cardinality(Seated(e))
  BY DEF BondInv, SeatsMatchReservations
<1> QED
  BY <1>2, <1>3

\* Whoever has some of the asset has the trustline, in every state: the event page
\* asks for it, reserve only debits the balance.
HoldersTrust(bal) == \A a \in Address : bal[a] > 0 => trustline[a]

LEMMA MovedTrusts ==
    ASSUME NEW bal \in [Holder -> Nat], NEW from \in Holder, NEW to \in Holder, NEW amount \in Nat,
           CanTransfer(bal, from, to, amount), HoldersTrust(bal)
    PROVE  HoldersTrust(Moved(bal, from, to, amount))
<1> SUFFICES ASSUME NEW a \in Address, Moved(bal, from, to, amount)[a] > 0 PROVE trustline[a]
  BY DEF HoldersTrust
<1>1. a \in Holder /\ a # Contract
  BY TokenAssumption DEF Holder
<1>2. CASE a = to
  BY <1>1, <1>2 DEF CanTransfer, CanReceive
<1>3. CASE a # to
  <2>1. Moved(bal, from, to, amount)[a] = IF a = from THEN bal[a] - amount ELSE bal[a]
    BY <1>1, <1>3 DEF Moved
  <2>2. bal[a] > 0
    BY <1>1, <2>1
  <2> QED
    BY <2>2 DEF HoldersTrust
<1> QED
  BY <1>2, <1>3

LEMMA TrustStep ==
    ASSUME TypeInv, HoldersTrust(balance), [Next]_vars
    PROVE  HoldersTrust(balance)'
<1>0. /\ TypeOK /\ balance \in [Holder -> Nat] /\ Contract \in Holder /\ Pool \in Address
      /\ \A a \in Address : a \in Holder /\ balance[a] \in Nat
  BY BondAssumption DEF TypeInv, TypeOK, TokenTypeOK, Holder
<1>1. ASSUME NEW from \in Holder, NEW to \in Holder, NEW amount \in Nat,
             CanTransfer(balance, from, to, amount), balance' = Moved(balance, from, to, amount),
             UNCHANGED trustline
      PROVE  HoldersTrust(balance)'
  BY <1>0, <1>1, MovedTrusts DEF HoldersTrust
<1>2. ASSUME UNCHANGED <<balance, trustline>> PROVE HoldersTrust(balance)'
  BY <1>2 DEF HoldersTrust
<1>3. ASSUME NEW e \in EventId, NEW p \in Address, Reserve(e, p) PROVE HoldersTrust(balance)'
  <2>1. events[e].terms \in TermsType /\ ValidAmounts(events[e].terms)
    BY <1>0, <1>3, StoredTypes DEF Reserve, ReservationAllowed, ReservationOpen, EventIs, TypeInv, PublishedTermsValid
  <2>2. events[e].terms.bond_amount \in Nat
    BY <2>1 DEF TermsType, ValidAmounts
  <2> QED
    BY <1>0, <1>1, <1>3, <2>2 DEF Reserve, ReservationAllowed
<1>4. ASSUME NEW e \in EventId, NEW p \in Address, IsLocked(e, p), CanPayBack(e, p), PayBack(e, p), UNCHANGED trustline
      PROVE  HoldersTrust(balance)'
  <2>1. reservations[e][p].amount \in Nat
    BY <1>0, <1>4, StoredTypes DEF IsLocked, Reservation
  <2> QED
    BY <1>0, <1>1, <1>4, <2>1 DEF CanPayBack, PayBack
<1>5. ASSUME NEW e \in EventId, NEW p \in Address, SettleNoShow(e, p) PROVE HoldersTrust(balance)'
  <2>1. /\ HasReservation(e, p) /\ events[e] # None /\ events[e].organizer \in Address
        /\ OrganizerAmount(e, p) \in Nat /\ CommunityAmount(e, p) \in Nat
    BY <1>0, <1>5, StoredTypes, SplitExact
       DEF SettleNoShow, SettlementAllowed, IsLocked, SettlementOpen, EventIs
  <2>2. OrganizerPaid(e, p) \in [Holder -> Nat] /\ HoldersTrust(OrganizerPaid(e, p))
    BY <1>0, <1>5, <2>1, MovedTrusts, MovedType DEF SettleNoShow, SettlementAllowed, OrganizerPaid, CanTransfer
  <2>3. HoldersTrust(Moved(OrganizerPaid(e, p), Contract, Pool, CommunityAmount(e, p)))
    BY <1>0, <1>5, <2>1, <2>2, MovedTrusts DEF SettleNoShow, SettlementAllowed
  <2> QED
    BY <1>5, <2>3 DEF SettleNoShow, HoldersTrust
<1>6. ASSUME NEW a \in Address, ChangeTrust(a) PROVE HoldersTrust(balance)'
  BY <1>0, <1>6 DEF ChangeTrust, HoldersTrust, TypeOK, TokenTypeOK
<1>7. ASSUME NEW from \in Address, NEW to \in Holder, TransferAround(from, to) PROVE HoldersTrust(balance)'
  BY <1>0, <1>1, <1>7, TokenAssumption DEF TransferAround
<1> QED
  BY <1>2, <1>3, <1>4, <1>5, <1>6, <1>7
     DEF Next, vars, tokenVars, CreateEvent, CancelEvent, Tick, TokenStep, TokenNext, Participate,
         CancelReservation, CancellationAllowed, CheckIn, CheckInAllowed, ClaimCancelledEventRefund, RefundAllowed

LEMMA ReserveOffered ==
    ASSUME BondInv, PagesInv, HoldersTrust(balance), UpToDate, page = "event", NEW c \in CallsOf(address)
    PROVE  Offered(c) <=> ReservationAllowed(1, c.participant)
<1>1. c.kind = "reserve" /\ c.account = address /\ c.participant = address
  BY DEF CallsOf
<1>2. Own(data.seen) = reservations[1][address]
  BY ReadNow DEF Own, Reads
<1>3. Offered(c) <=> /\ CanReserve(TheEvent, reservations[1][address], now)
                     /\ AssetsSuffice(address)
  BY <1>1, <1>2, ReadNow DEF Offered, EventPageOffers, UpToDate
<1>4. AssetsSuffice(address) <=> CanTransfer(balance, address, Contract, TheEvent.terms.bond_amount)
  <2>1. AssetsSuffice(address) <=> trustline[address] /\ balance[address] >= TheEvent.terms.bond_amount
    BY ReadNow DEF AssetsSuffice
  <2>2. balance[address] \in Nat /\ TheEvent.terms.bond_amount \in Int /\ TheEvent.terms.bond_amount > 0
    BY ReadNow, TheEventId
       DEF BondInv, TypeInv, TypeOK, TokenTypeOK, Holder, PublishedTermsValid, ValidAmounts, TermsType, TheEvent
  <2>3. balance[address] >= TheEvent.terms.bond_amount => trustline[address]
    BY <2>2, ReadNow DEF HoldersTrust
  <2> QED
    BY <2>1, <2>3 DEF CanTransfer, CanReceive
<1> QED
  BY <1>1, <1>3, <1>4, ReadNow
     DEF CanReserve, ReservationAllowed, Authorized, ReservationOpen, SeatFree, FirstReservation,
         HasReservation, EventIs, TheEvent

LEMMA PayBackOffered ==
    ASSUME BondInv, E!Solvent, PagesInv, UpToDate, page = "reservation", NEW c \in CallsOf(address)
    PROVE  Offered(c) <=> Accepted(c)
<1>1. c.kind \in {"cancel", "refund"} /\ c.account = address /\ c.participant = address
  BY DEF CallsOf
<1>2. Own(data.seen) = reservations[1][address] /\ (AssetsSuffice(address) <=> trustline[address])
  BY ReadNow DEF Own, Reads, AssetsSuffice
<1>3. Offered(c) <=>
        /\ reservations[1][address] # None /\ trustline[address]
        /\ c.kind = "cancel" => CanCancelReservation(TheEvent, reservations[1][address], now)
        /\ c.kind = "refund" => CanClaimCancelledRefund(TheEvent, reservations[1][address])
  BY <1>1, <1>2, ReadNow DEF Offered, ReservationPageOffers, OwnsReservation, UpToDate
<1>4. IsLocked(1, address) => (CanPayBack(1, address) <=> trustline[address]) /\ events[1].reserved_count > 0
  <2>1. address # Contract
    BY ReadNow, TokenAssumption
  <2> QED
    BY <2>1, ReadNow, TheEventId, BondCovered, LockedIsCounted DEF CanPayBack, CanTransfer, CanReceive, TheEvent
<1>5. CASE c.kind = "cancel"
  BY <1>1, <1>3, <1>4, <1>5, ReadNow
     DEF CanCancelReservation, Locked, Accepted, CancellationAllowed, Authorized, CancellationOpen,
         IsLocked, HasReservation, EventIs, TheEvent
<1>6. CASE c.kind = "refund"
  BY <1>1, <1>3, <1>4, <1>6, ReadNow
     DEF CanClaimCancelledRefund, Locked, Accepted, RefundAllowed, RefundOpen, IsLocked, HasReservation,
         EventIs, TheEvent
<1> QED
  BY <1>1, <1>5, <1>6

LEMMA OrganizerOffered ==
    ASSUME BondInv, PagesInv, UpToDate, page = "organizer", NEW c \in CallsOf(address)
    PROVE  Offered(c) <=> WouldTake(c) /\ address = TheEvent.organizer
<1>1. \/ c.kind = "cancel_event" /\ c.account = address /\ c.participant = address
      \/ c.kind = "settle" /\ c.account = address /\ c.participant \in DOMAIN data.seen.rows
  BY DEF CallsOf
<1>2. CASE address # TheEvent.organizer
  BY <1>1, <1>2, ReadNow DEF Offered, OrganizerPageOffers
<1>3. CASE address = TheEvent.organizer
  <2>1. /\ data.seen.rows = [p \in Address |-> reservations[1][p]]
        /\ data.seen.rows # <<>>
    <3>1. data.seen.rows = [p \in Address |-> reservations[1][p]]
      BY <1>3, ReadNow DEF Reads
    <3>2. DOMAIN data.seen.rows = Address /\ Pool \in Address
      BY <3>1, BondAssumption
    <3>3. DOMAIN <<>> = {}
      OBVIOUS
    <3> QED
      BY <3>1, <3>2, <3>3
  <2>2. CASE c.kind = "cancel_event"
    BY <1>1, <1>3, <2>1, <2>2, ReadNow
       DEF Offered, UpToDate, OrganizerPageOffers, WouldTake, Accepted, EventCancellable, Authorized, EventIs, TheEvent
  <2>3. CASE c.kind = "settle"
    BY <1>1, <1>3, <2>1, <2>3, ReadNow
       DEF Offered, UpToDate, OrganizerPageOffers, WouldTake, CanSettleNoShow, Locked, IsLocked, HasReservation,
           SettlementOpen, EventIs, TheEvent
  <2> QED
    BY <1>1, <2>2, <2>3
<1> QED
  BY <1>2, <1>3

\* A page that is up to date offers exactly the calls that the contract takes, and
\* shows the split that it pays, for every schedule, split and number of accounts.
THEOREM PredictionsAreRight == PagesSpec => []PredictionsRight
<1>1. ASSUME BondInv, E!Solvent, PagesInv, HoldersTrust(balance) PROVE PredictionsRight
  <2> SUFFICES ASSUME UpToDate
               PROVE  /\ \A c \in CallsOf(address) :
                            Offered(c) <=> WouldTake(c) /\ (page = "organizer" => address = TheEvent.organizer)
                      /\ \A p \in DOMAIN data.seen.rows : Locked(data.seen.rows[p]) =>
                            LET row == data.seen.rows[p]
                                status == DisplayStatus(TheEvent, row, now)
                            IN  /\ SplitByBps(row.amount, TheEvent.terms.organizer_bps)
                                     = [organizer |-> OrganizerAmount(1, p), community |-> CommunityAmount(1, p)]
                                /\ status = "refund available" <=> RefundOpen(1)
                                /\ status = "awaiting settlement" <=> SettlementOpen(1)
    BY DEF PredictionsRight, UpToDate
  <2>1. ASSUME NEW c \in CallsOf(address)
        PROVE  Offered(c) <=> WouldTake(c) /\ (page = "organizer" => address = TheEvent.organizer)
    <3>1. page \in {"event", "reservation", "organizer"}
      BY <1>1 DEF PagesInv, PageFits
    <3>2. CASE page = "event"
      BY <1>1, <3>2, ReserveOffered DEF WouldTake, Accepted, CallsOf
    <3>3. CASE page = "reservation"
      BY <1>1, <3>3, PayBackOffered DEF WouldTake, CallsOf
    <3>4. CASE page = "organizer"
      BY <1>1, <3>4, OrganizerOffered
    <3> QED
      BY <3>1, <3>2, <3>3, <3>4
  <2>2. ASSUME NEW p \in DOMAIN data.seen.rows, Locked(data.seen.rows[p])
        PROVE  LET row == data.seen.rows[p]
                   status == DisplayStatus(TheEvent, row, now)
               IN  /\ SplitByBps(row.amount, TheEvent.terms.organizer_bps)
                        = [organizer |-> OrganizerAmount(1, p), community |-> CommunityAmount(1, p)]
                   /\ status = "refund available" <=> RefundOpen(1)
                   /\ status = "awaiting settlement" <=> SettlementOpen(1)
    <3> DEFINE row == data.seen.rows[p]
    <3>1. p \in Address /\ row = reservations[1][p]
      BY <1>1, <2>2, ReadNow
    <3>2. SplitByBps(row.amount, TheEvent.terms.organizer_bps)
            = [organizer |-> OrganizerAmount(1, p), community |-> CommunityAmount(1, p)]
      BY <3>1 DEF SplitByBps, OrganizerAmount, CommunityAmount, BpsTotal, TheEvent
    <3>3. row.status = "Locked" /\ TheEvent # None /\ TheEvent.status \in {"Active", "Cancelled"}
      BY <1>1, <2>2, ReadNow DEF Locked, Event, EventStatus
    <3>4. DisplayStatus(TheEvent, row, now) =
            IF TheEvent.status = "Cancelled" THEN "refund available"
            ELSE IF now > TheEvent.terms.checkin_deadline THEN "awaiting settlement"
            ELSE IF now < TheEvent.terms.checkin_start THEN "check-in has not opened" ELSE "check-in is open"
      BY <2>2, <3>3 DEF DisplayStatus, ReservationBucket
    <3> QED
      BY <3>2, <3>3, <3>4 DEF RefundOpen, SettlementOpen, EventIs, TheEvent
  <2> QED
    BY <2>1, <2>2
<1>2. Init => HoldersTrust(balance)
  BY TokenAssumption DEF Init, TokenInit, HoldersTrust, Holder
<1>3. BondInv /\ HoldersTrust(balance) /\ [Next]_vars => HoldersTrust(balance)'
  BY TrustStep DEF BondInv
<1>4. Solvent => E!Solvent
  BY DEF Solvent
<1> QED
  BY <1>1, <1>2, <1>3, <1>4, PagesKeepInv, BondSolvent, PTL DEF Spec

-----------------------------------------------------------------------------
(* The organizer's list *)

Entry == [kind : {"event_created", "event_cancelled", "bond_locked", "reservation_cancelled",
                  "checked_in", "refund_claimed", "no_show_settled"},
          participant : Address \cup {None}]

Lock(p) == [kind |-> "bond_locked", participant |-> p]

\* What has been published: the event's creation first and once, and the lock of
\* everybody who has reserved.
LogFits ==
    /\ log \in Seq(Entry) /\ oldest \in 1..Len(log) + 1
    /\ events[1] = None <=> Len(log) = 0
    /\ \A i \in 1..Len(log) :
         /\ log[i].kind = "event_created" <=> i = 1
         /\ log[i].kind = "bond_locked" => log[i].participant \in Reserved
    /\ \A p \in Reserved : \E i \in 1..Len(log) : log[i] = Lock(p)

\* A reader that has seen the creation has missed nothing before its cursor.
ReaderFits ==
    reader # None =>
        /\ reader = [phase |-> reader.phase, cursor |-> reader.cursor,
                     entries |-> reader.entries, known |-> reader.known]
        /\ reader.phase \in {"log", "reservations"} /\ reader.cursor \in Nat \ {0}
        /\ reader.phase = "log" => reader.cursor <= Len(log) + 1
        /\ reader.entries \subseteq {log[i] : i \in 1..Len(log)}
        /\ reader.known \subseteq Reserved
        /\ (\E e \in reader.entries : e.kind = "event_created") =>
             IF reader.phase = "log"
             THEN \A i \in 1..Len(log) : i < reader.cursor => log[i] \in reader.entries
             ELSE \A p \in reader.known : Lock(p) \in reader.entries

ListFits == ListCompleteOrSaid /\ (list # None => \A p \in DOMAIN list.rows : p \in Address)

LogInv == LogFits /\ ReaderFits /\ ListFits

\* What a step of the contract publishes of the event, in one entry or none.
LEMMA PublishedOnce ==
    ASSUME BondInv, Next, LogFits
    PROVE  \/ /\ Published = <<>> /\ Reserved' = Reserved /\ (events'[1] = None => events[1] = None)
              /\ events[1] = None => events'[1] = None
           \/ \E e \in Entry :
                /\ Published = <<e>> /\ events'[1] # None
                /\ e.kind = "event_created" <=> events[1] = None
                /\ IF e.kind = "bond_locked"
                   THEN e.participant \in Address /\ e = Lock(e.participant)
                        /\ Reserved' = Reserved \cup {e.participant}
                   ELSE Reserved' = Reserved
<1> DEFINE stored == {p \in Address : reservations'[1][p] # reservations[1][p]}
           q == CHOOSE p \in stored : TRUE
<1>0. /\ 1 \in EventId /\ TypeOK /\ TypeInv /\ TypeInv' /\ EventsNumbered
      /\ None \notin Reservation /\ None \notin Event /\ [Next]_vars
  BY TypeInvStep, BondAssumption DEF BondInv, EventId, TypeInv
<1>1. \A p \in Address : HasReservation(1, p) => HasReservation(1, p)'
  <2> SUFFICES ASSUME NEW p \in Address, HasReservation(1, p) PROVE HasReservation(1, p)'
    OBVIOUS
  <2>1. reservations[1][p] \in Reservation
    BY <1>0, StoredTypes
  <2>2. ASSUME NEW outcome \in ReservationStatus, reservations'[1][p] = [reservations[1][p] EXCEPT !.status = outcome]
        PROVE  HasReservation(1, p)'
    <3>1. reservations'[1][p] \in Reservation
      BY <2>1, <2>2 DEF Reservation
    <3> QED
      BY <1>0, <3>1 DEF HasReservation
  <2> QED
    BY <1>0, <2>2, ReservationStep DEF Locks, Ends, HasReservation
<1>2. events[1] # None => events'[1] # None
  BY <1>0, EventStep DEF EventKept
<1>3. ASSUME NEW p \in Address, Locks(1, p)
      PROVE  /\ events[1] # None /\ stored = {p} /\ Reserved' = Reserved \cup {p}
             /\ reservations'[1][p].status = "Locked"
  <2>1. /\ events[1] # None /\ OthersKept(1, p) /\ reservations[1][p] = None
        /\ reservations'[1][p] # None /\ reservations'[1][p].status = "Locked"
    <3>1. Reserve(1, p) /\ reservations[1][p] = None
      BY <1>3 DEF Locks, HasReservation
    <3>2. events[1] # None
      BY <3>1 DEF Reserve, ReservationAllowed, ReservationOpen, EventIs
    <3> DEFINE r == [amount |-> events[1].terms.bond_amount, reserved_at |-> now, status |-> "Locked"]
    <3>3. reservations'[1][p] = r /\ OthersKept(1, p) /\ r \in Reservation /\ r.status = "Locked"
      BY <1>0, <3>1, ReserveOne, ReservedType
    <3> QED
      BY <1>0, <3>1, <3>2, <3>3
  <2> QED
    BY <1>0, <2>1 DEF OthersKept, Reserved, HasReservation
<1>4. CASE stored = {}
  <2>1. Reserved' = Reserved
    BY <1>4 DEF Reserved, HasReservation
  <2>2. Published = IF events'[1] = events[1] THEN <<>>
                    ELSE <<[kind |-> IF events[1] = None THEN "event_created" ELSE "event_cancelled",
                            participant |-> None]>>
    BY <1>4 DEF Published
  <2>3. CASE events'[1] = events[1]
    BY <2>1, <2>2, <2>3
  <2>4. CASE events'[1] # events[1]
    <3> DEFINE e == [kind |-> IF events[1] = None THEN "event_created" ELSE "event_cancelled",
                     participant |-> None]
    <3>1. e \in Entry /\ Published = <<e>> /\ events'[1] # None
          /\ (e.kind = "event_created" <=> events[1] = None) /\ e.kind # "bond_locked"
      BY <1>2, <2>2, <2>4 DEF Entry
    <3> QED
      BY <2>1, <3>1
  <2> QED
    BY <2>3, <2>4
<1>5. CASE stored # {}
  <2>1. q \in stored
    BY <1>5
  <2> DEFINE e == [kind |-> OutcomeEvent[reservations'[1][q].status], participant |-> q]
  <2>2. Published = <<e>>
    BY <1>5 DEF Published
  <2> HIDE DEF q
  <2>3. CASE Locks(1, q)
    <3>1. e.kind = "bond_locked" /\ e.participant = q /\ q \in Address
      BY <1>3, <2>1, <2>3 DEF OutcomeEvent
    <3>2. e \in Entry /\ e = Lock(q)
      BY <3>1 DEF Entry, Lock
    <3> QED
      BY <1>2, <1>3, <2>2, <2>3, <3>1, <3>2
  <2>4. CASE \E outcome \in ReservationStatus \ {"Locked"} : Ends(1, q, outcome)
    <3>1. PICK outcome \in ReservationStatus \ {"Locked"} : Ends(1, q, outcome)
      BY <2>4
    <3>2. q \in Address /\ reservations[1][q] \in Reservation
      BY <1>0, <2>1, <3>1, StoredTypes DEF Ends, IsLocked
    <3>3. reservations'[1][q].status = outcome
      BY <3>1, <3>2 DEF Ends, Reservation
    <3>4. e.kind \in {"reservation_cancelled", "checked_in", "refund_claimed", "no_show_settled"}
      BY <3>1, <3>3 DEF OutcomeEvent, ReservationStatus
    <3>5. e \in Entry /\ e.kind # "bond_locked" /\ e.kind # "event_created"
      BY <3>2, <3>4 DEF Entry
    <3>6. HasReservation(1, q) /\ events[1] # None
      <4>1. HasReservation(1, q)
        BY <3>1 DEF Ends, IsLocked
      <4>2. q \in Reserved
        BY <3>2, <4>1 DEF Reserved
      <4> QED
        BY <4>1, <4>2 DEF LogFits
    <3>7. \A p \in Address : ~Locks(1, p)
      <4> SUFFICES ASSUME NEW p \in Address, Locks(1, p) PROVE FALSE
        OBVIOUS
      <4>1. q = p
        BY <1>3, <2>1
      <4> QED
        BY <3>6, <4>1 DEF Locks
    <3>8. Reserved' = Reserved
      <4>1. \A p \in Address : HasReservation(1, p)' => HasReservation(1, p)
        BY <1>0, <3>7, ReservationStep DEF Ends, IsLocked, HasReservation
      <4> QED
        BY <1>1, <4>1 DEF Reserved
    <3> QED
      BY <1>2, <2>2, <3>5, <3>6, <3>8
  <2> QED
    BY <1>0, <2>1, <2>3, <2>4, ReservationStep
<1> QED
  BY <1>4, <1>5

\* One more entry.
LEMMA LogGrows ==
    ASSUME NEW e \in Entry, log \in Seq(Entry), log' = log \o <<e>>
    PROVE  /\ log' \in Seq(Entry) /\ Len(log') = Len(log) + 1 /\ Len(log) \in Nat
           /\ \A i \in 1..Len(log) : log'[i] = log[i]
           /\ log'[Len(log) + 1] = e
<1>1. <<e>> \in Seq(Entry) /\ Len(<<e>>) = 1 /\ <<e>>[1] = e /\ Len(log) \in Nat
  OBVIOUS
<1> QED
  BY <1>1, ConcatProperties

LEMMA ContractStepFits ==
    ASSUME BondInv, LogInv, ContractStep
    PROVE  LogInv'
<1>0. /\ 1 \in EventId /\ TypeOK /\ None \notin Reservation /\ Len(log) \in Nat
      /\ log \in Seq(Entry) /\ UNCHANGED <<oldest, reader, list>> /\ Next
  BY BondAssumption DEF BondInv, TypeInv, EventId, LogInv, LogFits, ContractStep, readerVars
<1>1. ListFits'
  <2> SUFFICES ASSUME list # None, NEW p \in DOMAIN list.rows, list.rows[p].status # "Locked"
               PROVE  reservations'[1][p] = reservations[1][p]
    BY <1>0 DEF LogInv, ListFits, ListCompleteOrSaid
  <2>1. p \in Address /\ reservations[1][p].status # "Locked" /\ HasReservation(1, p)
    BY DEF LogInv, ListFits, ListCompleteOrSaid, HasReservation
  <2> QED
    BY <1>0, <2>1, ReservationStep DEF Locks, Ends, IsLocked
<1>2. CASE Published = <<>> /\ Reserved' = Reserved /\ (events'[1] = None <=> events[1] = None)
  <2>1. log' = log
    BY <1>0, <1>2, ConcatEmptySeq DEF ContractStep
  <2>2. LogFits'
    BY <1>0, <1>2, <2>1 DEF LogInv, LogFits
  <2>3. ReaderFits'
    BY <1>0, <1>2, <2>1 DEF LogInv, ReaderFits
  <2> QED
    BY <1>1, <2>2, <2>3 DEF LogInv
<1>3. ASSUME NEW e \in Entry, Published = <<e>>, events'[1] # None,
             e.kind = "event_created" <=> events[1] = None,
             IF e.kind = "bond_locked"
             THEN e.participant \in Address /\ e = Lock(e.participant)
                  /\ Reserved' = Reserved \cup {e.participant}
             ELSE Reserved' = Reserved
      PROVE  LogInv'
  <2>1. /\ log' \in Seq(Entry) /\ Len(log') = Len(log) + 1
        /\ \A i \in 1..Len(log) : log'[i] = log[i]
        /\ log'[Len(log) + 1] = e
    BY <1>0, <1>3, LogGrows DEF ContractStep
  <2>2. events[1] = None <=> Len(log) = 0
    BY DEF LogInv, LogFits
  <2>3. \A i \in 1..Len(log') :
          /\ log'[i].kind = "event_created" <=> i = 1
          /\ log'[i].kind = "bond_locked" => log'[i].participant \in Reserved'
    <3> SUFFICES ASSUME NEW i \in 1..Len(log')
                 PROVE  /\ log'[i].kind = "event_created" <=> i = 1
                        /\ log'[i].kind = "bond_locked" => log'[i].participant \in Reserved'
      OBVIOUS
    <3>1. CASE i \in 1..Len(log)
      <4>1. log'[i] = log[i] /\ Reserved \subseteq Reserved'
        BY <1>3, <2>1, <3>1
      <4> QED
        BY <3>1, <4>1 DEF LogInv, LogFits
    <3>2. CASE i = Len(log) + 1
      BY <1>0, <1>3, <2>1, <2>2, <3>2 DEF Lock, LogInv, LogFits
    <3> QED
      BY <1>0, <2>1, <3>1, <3>2 DEF LogInv, LogFits
  <2>4. \A p \in Reserved' : \E i \in 1..Len(log') : log'[i] = Lock(p)
    BY <1>0, <1>3, <2>1 DEF LogInv, LogFits
  <2>5. LogFits'
    BY <1>0, <1>3, <2>1, <2>3, <2>4 DEF LogInv, LogFits
  <2>6. ASSUME reader # None PROVE ReaderFits'
    <3>1. Reserved \subseteq Reserved' /\ \A i \in 1..Len(log') : i < Len(log) + 1 => i \in 1..Len(log)
      BY <1>0, <1>3, <2>1
    <3>2. {log[i] : i \in 1..Len(log)} \subseteq {log'[i] : i \in 1..Len(log')}
      BY <1>0, <2>1
    <3>3. /\ reader = [phase |-> reader.phase, cursor |-> reader.cursor,
                       entries |-> reader.entries, known |-> reader.known]
          /\ reader.phase \in {"log", "reservations"} /\ reader.cursor \in Nat \ {0}
          /\ reader.phase = "log" => reader.cursor <= Len(log) + 1
          /\ reader.entries \subseteq {log[i] : i \in 1..Len(log)} /\ reader.known \subseteq Reserved
          /\ (\E x \in reader.entries : x.kind = "event_created") =>
               IF reader.phase = "log"
               THEN \A i \in 1..Len(log) : i < reader.cursor => log[i] \in reader.entries
               ELSE \A p \in reader.known : Lock(p) \in reader.entries
      BY <2>6 DEF LogInv, ReaderFits
    <3>4. (\E x \in reader.entries : x.kind = "event_created") /\ reader.phase = "log" =>
            \A i \in 1..Len(log') : i < reader.cursor => log'[i] \in reader.entries
      BY <1>0, <2>1, <3>1, <3>3
    <3> QED
      BY <1>0, <2>1, <3>1, <3>2, <3>3, <3>4 DEF ReaderFits, Lock
  <2> QED
    BY <1>0, <1>1, <2>5, <2>6 DEF LogInv, ReaderFits
<1> QED
  BY <1>0, <1>2, <1>3, PublishedOnce DEF LogInv

\* The indices a page answers are those up to its size, or up to the end.
LEMMA PageOf ==
    ASSUME NEW c \in Nat \ {0}, NEW n \in Nat, c <= n + 1
    PROVE  LET answered == {i \in c..n : i < c + PageSize}
           IN  IF Cardinality(answered) < PageSize THEN answered = c..n
               ELSE answered = c..c + PageSize - 1 /\ c + PageSize <= n + 1
<1> DEFINE answered == {i \in c..n : i < c + PageSize}
<1>0. PageSize \in Nat \ {0}
  BY EventLogAssumption
<1>1. CASE c + PageSize <= n + 1
  <2>1. answered = c..(c + PageSize - 1)
    BY <1>0, <1>1
  <2>2. Cardinality(c..(c + PageSize - 1)) = PageSize
    BY <1>0, FS_Interval
  <2> HIDE DEF answered
  <2>3. ~(Cardinality(answered) < PageSize)
    BY <1>0, <2>1, <2>2
  <2> QED
    BY <1>1, <2>1, <2>3 DEF answered
<1>2. CASE ~(c + PageSize <= n + 1)
  <2>1. answered = c..n
    BY <1>0, <1>2
  <2>2. Cardinality(c..n) < PageSize
    BY <1>0, <1>2, FS_Interval
  <2> QED
    BY <2>1, <2>2
<1> QED
  BY <1>1, <1>2

LEMMA ReadPageFits ==
    ASSUME LogInv, ReadPage
    PROVE  LogInv'
<1> DEFINE answered == {i \in reader.cursor..Len(log) : i < reader.cursor + PageSize}
           read == {log[i] : i \in answered}
           short == Cardinality(answered) < PageSize
           all == reader.entries \cup read
<1>0. /\ PageSize \in Nat \ {0} /\ Len(log) \in Nat /\ log \in Seq(Entry)
      /\ UNCHANGED <<events, reservations, log, oldest, list>>
  BY EventLogAssumption DEF LogInv, LogFits, ReadPage, vars
<1>1. /\ reader # None /\ reader.phase = "log" /\ reader.cursor \in Nat \ {0}
      /\ reader.cursor <= Len(log) + 1 /\ reader.known \subseteq Reserved
      /\ reader.entries \subseteq {log[i] : i \in 1..Len(log)}
      /\ (\E e \in reader.entries : e.kind = "event_created") =>
           \A i \in 1..Len(log) : i < reader.cursor => log[i] \in reader.entries
      /\ reader = [phase |-> reader.phase, cursor |-> reader.cursor,
                   entries |-> reader.entries, known |-> reader.known]
  BY DEF LogInv, ReaderFits, ReadPage
<1>2. IF short THEN answered = reader.cursor..Len(log)
      ELSE answered = reader.cursor..reader.cursor + PageSize - 1
           /\ reader.cursor + PageSize <= Len(log) + 1
  BY <1>0, <1>1, PageOf
<1>3. answered \subseteq 1..Len(log) /\ all \subseteq {log[i] : i \in 1..Len(log)}
  BY <1>0, <1>1
<1>4. reader' = [reader EXCEPT !.entries = all, !.cursor = reader.cursor + PageSize,
                               !.phase = IF short THEN "reservations" ELSE "log"]
  BY DEF ReadPage
<1> HIDE DEF answered, short
<1>5. reader' = [phase |-> IF short THEN "reservations" ELSE "log", cursor |-> reader.cursor + PageSize,
                 entries |-> all, known |-> reader.known]
  BY <1>1, <1>4
<1>6. ASSUME NEW e \in all, e.kind = "event_created"
      PROVE  \A i \in 1..Len(log) : i < reader.cursor \/ i \in answered => log[i] \in all
  <2>1. CASE e \in reader.entries
    BY <1>1, <1>6, <2>1
  <2>2. CASE e \in read
    <3>1. PICK j \in answered : e = log[j]
      BY <2>2
    <3>2. j = 1
      BY <1>3, <1>6, <3>1 DEF LogInv, LogFits
    <3>3. reader.cursor = 1
      BY <1>0, <1>1, <3>1, <3>2 DEF answered
    <3> QED
      BY <1>0, <3>3
  <2> QED
    BY <2>1, <2>2
<1>7. ASSUME NEW e \in all, e.kind = "event_created"
      PROVE  IF short THEN \A p \in reader.known : Lock(p) \in all
             ELSE \A i \in 1..Len(log) : i < reader.cursor + PageSize => log[i] \in all
  <2>1. CASE short
    <3>1. \A i \in 1..Len(log) : log[i] \in all
      BY <1>0, <1>1, <1>2, <1>6, <1>7, <2>1
    <3> QED
      BY <1>1, <2>1, <3>1 DEF LogInv, LogFits
  <2>2. CASE ~short
    <3>1. \A i \in 1..Len(log) : i < reader.cursor + PageSize => i < reader.cursor \/ i \in answered
      BY <1>0, <1>1, <1>2, <2>2
    <3> QED
      BY <1>6, <1>7, <2>2, <3>1
  <2> QED
    BY <2>1, <2>2
<1> HIDE DEF all
<1>8. ReaderFits'
  <2>1. /\ reader'.phase = (IF short THEN "reservations" ELSE "log") /\ reader'.cursor = reader.cursor + PageSize
        /\ reader'.entries = all /\ reader'.known = reader.known
    BY <1>5
  <2>2. ~short => reader.cursor + PageSize <= Len(log) + 1
    BY <1>2
  <2>3. reader.cursor + PageSize \in Nat \ {0} /\ Reserved' = Reserved
    BY <1>0, <1>1 DEF Reserved, HasReservation
  <2> QED
    BY <1>0, <1>1, <1>3, <1>5, <1>7, <2>1, <2>2, <2>3 DEF ReaderFits, Lock
<1>9. LogFits' /\ ListFits'
  BY <1>0 DEF LogInv, LogFits, ListFits, ListCompleteOrSaid, Reserved, HasReservation
<1> QED
  BY <1>8, <1>9 DEF LogInv

LEMMA ReadReservationsFits ==
    ASSUME LogInv, ReadReservations
    PROVE  LogInv'
<1>0. UNCHANGED <<events, reservations, log, oldest>> /\ reader' = None
  BY DEF ReadReservations, vars
<1>1. PICK unreadable \in SUBSET Participants(reader.entries) :
        list' = [rows |-> [p \in Participants(reader.entries) \ unreadable |-> reservations[1][p]],
                 complete |-> HistoryComplete(reader.entries, unreadable), known |-> reader.known]
  BY DEF ReadReservations
<1>2. \A p \in Participants(reader.entries) : p \in Reserved
  <2> SUFFICES ASSUME NEW p \in Participants(reader.entries) PROVE p \in Reserved
    OBVIOUS
  <2>1. PICK e \in reader.entries : e.kind = "bond_locked" /\ e.participant = p
    BY DEF Participants
  <2>2. PICK i \in 1..Len(log) : e = log[i]
    BY DEF LogInv, ReaderFits, ReadReservations
  <2> QED
    BY <2>1, <2>2 DEF LogInv, LogFits
<1>3. HistoryComplete(reader.entries, unreadable) =>
        reader.known \subseteq Participants(reader.entries) \ unreadable
  <2> SUFFICES ASSUME HistoryComplete(reader.entries, unreadable), NEW p \in reader.known
               PROVE  p \in Participants(reader.entries) /\ unreadable = {}
    OBVIOUS
  <2>1. Lock(p) \in reader.entries /\ unreadable = {}
    BY DEF LogInv, ReaderFits, ReadReservations, HistoryComplete
  <2>2. Lock(p).kind = "bond_locked" /\ Lock(p).participant = p
    BY DEF Lock
  <2> QED
    BY <2>1, <2>2 DEF Participants
<1>4. ListFits'
  <2>1. list'.complete = HistoryComplete(reader.entries, unreadable) /\ list'.known = reader.known
        /\ list'.rows = [p \in Participants(reader.entries) \ unreadable |-> reservations[1][p]]
    BY <1>1
  <2>2. \A p \in DOMAIN list'.rows : p \in Reserved /\ list'.rows[p] = reservations'[1][p]
    BY <1>0, <1>2, <2>1
  <2> QED
    BY <1>3, <2>1, <2>2, <1>0 DEF ListFits, ListCompleteOrSaid, Reserved, HasReservation
<1> QED
  BY <1>0, <1>4 DEF LogInv, LogFits, ReaderFits, Reserved, HasReservation

LEMMA LogStep == BondInv /\ LogInv /\ [LogNext]_logVars => LogInv' /\ [Next]_vars
<1> SUFFICES ASSUME BondInv, LogInv, [LogNext]_logVars PROVE LogInv' /\ [Next]_vars
  OBVIOUS
<1>1. CASE ContractStep
  BY <1>1, ContractStepFits DEF ContractStep
<1>2. CASE Forget
  <2>1. oldest' \in 1..Len(log) + 1 /\ UNCHANGED <<events, reservations, log, reader, list>>
    BY <1>2 DEF Forget, LogInv, LogFits, vars
  <2> QED
    BY <1>2, <2>1 DEF Forget, LogInv, LogFits, ReaderFits, ListFits, ListCompleteOrSaid, Reserved, HasReservation
<1>3. CASE StartReading
  <2>1. reader' = [phase |-> "log", cursor |-> oldest, entries |-> {}, known |-> Reserved]
        /\ list' = None /\ UNCHANGED <<vars, log, oldest>>
    BY <1>3 DEF StartReading
  <2>2. oldest \in Nat \ {0} /\ oldest <= Len(log) + 1
    BY DEF LogInv, LogFits
  <2>3. ReaderFits'
    BY <2>1, <2>2 DEF ReaderFits, Reserved, HasReservation, vars
  <2> QED
    BY <2>1, <2>3 DEF LogInv, LogFits, ListFits, ListCompleteOrSaid, Reserved, HasReservation, vars
<1>4. CASE ReadPage
  BY <1>4, ReadPageFits DEF ReadPage
<1>5. CASE ReadingFails
  BY <1>5 DEF ReadingFails, LogInv, LogFits, ReaderFits, ListFits, ListCompleteOrSaid, Reserved, HasReservation, vars
<1>6. CASE ReadReservations
  BY <1>6, ReadReservationsFits DEF ReadReservations
<1>7. CASE UNCHANGED logVars
  BY <1>7 DEF logVars, readerVars, LogInv, LogFits, ReaderFits, ListFits, ListCompleteOrSaid, Reserved, HasReservation, vars
<1> QED
  BY <1>1, <1>2, <1>3, <1>4, <1>5, <1>6, <1>7 DEF LogNext

LEMMA LogInitInv == LogInit => LogInv
<1> SUFFICES ASSUME LogInit PROVE LogInv
  OBVIOUS
<1>1. Reserved = {} /\ events[1] = None
  BY BondAssumption DEF LogInit, Init, Reserved, HasReservation, EventId
<1>2. log = <<>> /\ log \in Seq(Entry) /\ Len(log) = 0 /\ oldest = 1 /\ reader = None /\ list = None
  BY EmptySeq DEF LogInit
<1> QED
  BY <1>1, <1>2 DEF LogInv, LogFits, ReaderFits, ListFits, ListCompleteOrSaid

\* A list that does not say it may be incomplete misses nobody, whatever the size of
\* a page, wherever the provider's window starts and however far it moves meanwhile.
THEOREM ListsCompleteOrSaid == LogSpec => []ListCompleteOrSaid
<1>1. LogInit => Init /\ BondInv /\ LogInv
  BY LogInitInv, BondInvInit DEF LogInit
<1>2. LogInv => ListCompleteOrSaid
  BY DEF LogInv, ListFits
<1> QED
  BY <1>1, <1>2, LogStep, BondInvStep, PTL DEF LogSpec
=============================================================================
