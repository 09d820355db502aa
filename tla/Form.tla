-------------------------------- MODULE Form --------------------------------
(***************************************************************************)
(* The form in which an organizer drafts an event                          *)
(* (apps/web/app/organizer/events/new/page.tsx), with the schedules it     *)
(* fills in (lib/domain/event-schedule.ts) and the arguments that it gives *)
(* create_event.                                                           *)
(*                                                                         *)
(* Times are steps of ten minutes.  The fields hold local wall-clock text, *)
(* which is modelled as the number of steps it shows, and the night is one *)
(* on which the clocks go back an hour at FallBack: the hour before it is  *)
(* shown twice, and is read as the first of the two.                       *)
(***************************************************************************)
EXTENDS Bond

CONSTANTS
    Entered,     \* the times that are typed, and at which a preset is asked for
    FallBack,    \* the instant at which the clocks go back
    Bonds, Capacities, Shares,   \* what is typed as the numbers
    MaxU32       \* the greatest u32, the type of capacity; MaxI128 is Bond's

Hour == 6
TimeFields == {"startTime", "checkinStart", "checkinDeadline", "cancellationDeadline"}

ASSUME FormAssumption ==
    /\ Entered \subseteq Int      \* negative: a time before 1970
    /\ FallBack \in Nat /\ MaxU32 \in Nat /\ None \notin Int
    /\ Bonds \subseteq Int \cup {None}       \* None: text that is no amount
    /\ Capacities \subseteq Int /\ Shares \subseteq Int

VARIABLES
    fields,      \* what the fields hold; a time is a local one, or None
    filled,      \* whether the times are as the form filled them in
    submitted    \* the arguments given to createEvent last, or None

formVars == <<fields, filled, submitted>>

-----------------------------------------------------------------------------
(* Times *)

\* toLocalDateTimeValue, and Date.parse of what it shows.
ToLocal(instant) == IF instant < FallBack THEN instant ELSE instant - Hour
Instant(local) == IF local < FallBack THEN local ELSE local + Hour

\* Faulty variant: the free cancellation ends after check-in opens.
LateCancellation(start) ==
    [startTime |-> ToLocal(start), checkinStart |-> ToLocal(start - 3),
     checkinDeadline |-> ToLocal(start + Hour), cancellationDeadline |-> ToLocal(start - 2)]

ScheduleAroundStart(start) ==
    [startTime |-> ToLocal(start), checkinStart |-> ToLocal(start - 3),
     checkinDeadline |-> ToLocal(start + Hour), cancellationDeadline |-> ToLocal(start - 2 * Hour)]

\* startingSoon; the other presets are an evening far from the change of clocks.
StartingSoon(time) == ToLocal(time + 2)
Evening == 144

-----------------------------------------------------------------------------
(* Validation *)

Missing == {f \in TimeFields : fields[f] = None}
TimeOf(field) == Instant(fields[field])

NumbersValid ==
    /\ fields.text # "empty"
    /\ fields.bond # None /\ fields.bond > 0
    /\ fields.capacity > 0
    /\ fields.share \in 0..100

\* Faulty variant: a start after check-in has closed is accepted.
TimesValidAnyStart ==
    /\ Missing = {}
    /\ TimeOf("cancellationDeadline") <= TimeOf("checkinStart")
    /\ TimeOf("checkinStart") <= TimeOf("checkinDeadline")
    /\ TimeOf("startTime") >= TimeOf("checkinStart")

TimesValid ==
    /\ Missing = {}
    /\ TimeOf("cancellationDeadline") <= TimeOf("checkinStart")
    /\ TimeOf("checkinStart") <= TimeOf("checkinDeadline")
    /\ TimeOf("startTime") >= TimeOf("checkinStart") /\ TimeOf("startTime") <= TimeOf("checkinDeadline")

\* The arguments as numbers of the page, not yet of the contract's types.  The form
\* bounds the length of a text in characters, the contract in bytes.
Arguments ==
    [bond_amount |-> fields.bond, capacity |-> fields.capacity, text_fits |-> fields.text = "short",
     start_time |-> TimeOf("startTime"), checkin_start |-> TimeOf("checkinStart"),
     checkin_deadline |-> TimeOf("checkinDeadline"),
     cancellation_deadline |-> TimeOf("cancellationDeadline"),
     organizer_bps |-> fields.share * 100, community_bps |-> BpsTotal - fields.share * 100]

\* The types of create_event's parameters: what is outside of them the client
\* cannot encode, and nothing is sent.  No time that a field can show comes near
\* the greatest u64.
Encodable(input) ==
    /\ input.capacity >= 0 /\ input.capacity <= MaxU32
    /\ input.bond_amount >= -MaxI128 - 1 /\ input.bond_amount <= MaxI128
    /\ \A field \in {"start_time", "checkin_start", "checkin_deadline", "cancellation_deadline"} :
          input[field] >= 0

ContractTakes(input) == Encodable(input) /\ ValidAmounts(input) /\ ValidSchedule(input)

\* createEventInputSchema, which the form does not use: the rules of create_event,
\* for arguments whose text is not empty.
CreateEventInputSchema(input) ==
    /\ input.text_fits                    \* in bytes, as the contract counts
    /\ input.bond_amount > 0 /\ input.capacity > 0
    /\ input.start_time >= 0 /\ input.checkin_start >= 0
    /\ input.checkin_deadline >= 0 /\ input.cancellation_deadline >= 0
    /\ {input.organizer_bps, input.community_bps} \subseteq 0..BpsTotal
    /\ input.organizer_bps + input.community_bps = BpsTotal
    /\ input.cancellation_deadline <= input.checkin_start
    /\ input.checkin_start <= input.checkin_deadline
    /\ input.start_time >= input.checkin_start /\ input.start_time <= input.checkin_deadline

-----------------------------------------------------------------------------
(* Drafting *)

Type(field, value) ==
    /\ fields' = [fields EXCEPT ![field] = value]
    /\ filled' = (filled /\ field \notin TimeFields)
    /\ submitted' = None

TypeSomething ==
    \/ \E field \in TimeFields, local \in Entered \cup {None} : Type(field, local)
    \/ \E text \in {"empty", "short", "many_bytes"} : Type("text", text)
    \/ \E bond \in Bonds : Type("bond", bond)
    \/ \E capacity \in Capacities : Type("capacity", capacity)
    \/ \E share \in Shares : Type("share", share)

\* applySchedule
Fill(start) ==
    /\ fields' = [f \in DOMAIN fields |->
                     IF f \in TimeFields THEN ScheduleAroundStart(Instant(start))[f] ELSE fields[f]]
    /\ filled' = TRUE
    /\ submitted' = None

FillAround == fields.startTime # None /\ Fill(fields.startTime)
ApplyPreset == Fill(Evening) \/ \E time \in Entered : Fill(StartingSoon(time))

OnSubmit ==
    /\ NumbersValid /\ TimesValid
    /\ submitted' = Arguments
    /\ UNCHANGED <<fields, filled>>

FormInit ==
    /\ fields = [startTime |-> None, checkinStart |-> None, checkinDeadline |-> None,
                 cancellationDeadline |-> None,
                 text |-> "empty", bond |-> 5, capacity |-> 20, share |-> 80]
    /\ filled = FALSE
    /\ submitted = None

FormNext == TypeSomething \/ FillAround \/ ApplyPreset \/ OnSubmit

FormSpec == FormInit /\ [][FormNext]_formVars

\* Of what the form lets through (validate) create_event takes all but texts whose
\* characters have several bytes, and numbers its types do not hold: a capacity or
\* a bond that is too large, a time before 1970.  The form lets through every
\* schedule that it filled in itself, in the night on which an hour of local times
\* comes twice too.  The schema the form could use knows the bytes and the times,
\* and of the drafts whose shares are shares accepts what create_event takes,
\* except that it too has no bound on the capacity and the bond.
FormAndContractAgree ==
    /\ submitted # None => (ContractTakes(submitted) <=> submitted.text_fits /\ Encodable(submitted))
    /\ filled => TimesValid
    /\ Missing = {} /\ fields.bond # None /\ fields.text # "empty" /\ fields.share \in 0..100
        => LET input == Arguments
           IN  ContractTakes(input) <=>
                   /\ CreateEventInputSchema(input)
                   /\ input.capacity <= MaxU32 /\ input.bond_amount <= MaxI128
=============================================================================
