------------------------------- MODULE ScanPage -------------------------------
(***************************************************************************)
(* The check-in page of the verifier                                       *)
(* (apps/web/app/organizer/events/[id]/scan/page.tsx): passes come from    *)
(* the camera or from the look-up field, each is inspected against the     *)
(* contract, and the candidate on the screen is checked in with one        *)
(* signature.  Inspections and the check-in run concurrently and meet in   *)
(* the candidate.                                                          *)
(*                                                                         *)
(* All of it is shown only while the connected wallet is the verifier's.   *)
(* A wallet that is disconnected, or that changes to another account, takes*)
(* the camera's picture and every button from the screen; the hook keeps   *)
(* its camera, and inspections and a check-in go on.                       *)
(***************************************************************************)
EXTENDS Camera

CONSTANTS
    Guest,          \* participants who may hold a reservation of the event
    MaxReads        \* bound: inspections in flight at once

ASSUME ScanAssumption == MaxReads \in Nat \ {0} /\ None \notin Guest

VARIABLES
    chain,          \* the contract: the status of each guest's reservation
    signer,         \* whom the wallet stands for, as the page sees it
    candidate,      \* the pass shown and the reservation read for it, or None
    failed,         \* candidateError is set
    reading,        \* the reading flag
    reads,          \* the inspections in flight: the pass of each, or None
    tx,             \* what the transaction line shows
    job             \* the check-in in flight (txBusyRef), or None

page == <<candidate, failed, reading, reads, tx, job>>
vars == <<camera, chain, signer, page>>

Read == 1..MaxReads
\* ended: cancelled, attended, refunded or settled, which the page tells apart in words
ReservationStatus == {"none", "locked", "ended"}
Candidate == [pass : Guest, participant : Guest, status : ReservationStatus]
Signer == {"verifier", "nobody"}    \* nobody: no wallet, or another account's
Job == [participant : Guest, step : {"sending", "confirmed", "recovering"}]

TypeOK ==
    /\ CameraTypeOK
    /\ chain \in [Guest -> ReservationStatus]
    /\ signer \in Signer
    /\ candidate \in Candidate \cup {None}
    /\ failed \in BOOLEAN /\ reading \in BOOLEAN
    /\ reads \in [Read -> Guest \cup {None}]
    /\ tx \in {"idle", "running", "success", "failure"}
    /\ job \in Job \cup {None}

Init ==
    /\ CameraInit
    /\ chain \in [Guest -> {"none", "locked"}]
    /\ signer \in Signer
    /\ candidate = None
    /\ failed = FALSE /\ reading = FALSE
    /\ reads = [r \in Read |-> None]
    /\ tx = "idle"
    /\ job = None

\* The page shows the camera, the candidate and its buttons.
Authorized == signer = "verifier"

-----------------------------------------------------------------------------
(* inspectPayload *)

\* The pass is decoded at once: a reservation of this event is then read, and
\* anything else is refused.  The transaction line is cleared even if one runs.
Inspect(g) ==
    /\ candidate' = None
    /\ failed' = FALSE
    /\ reading' = TRUE
    /\ tx' = "idle"
    /\ \E r \in Read : reads[r] = None /\ reads' = [reads EXCEPT ![r] = g]
    /\ UNCHANGED <<chain, job>>

Refuse ==
    /\ candidate' = None
    /\ failed' = TRUE
    /\ reading' = FALSE
    /\ tx' = "idle"
    /\ UNCHANGED <<chain, reads, job>>

ScanPass(s, g) == CodeFound(s) /\ Inspect(g)
ScanForeignCode(s) == CodeFound(s) /\ Refuse

\* The look-up field, whose button is disabled while a reservation is read.
LookUp(g) == Authorized /\ ~reading /\ Inspect(g) /\ UNCHANGED camera
LookUpNonsense == Authorized /\ ~reading /\ candidate' = None /\ failed' = TRUE
                  /\ UNCHANGED <<camera, chain, reading, reads, tx, job>>

\* faulty: the reservation is merged into the candidate on the screen
ShownMerged(g, status) ==
    IF candidate = None THEN [pass |-> g, participant |-> g, status |-> status]
    ELSE [candidate EXCEPT !.participant = g, !.status = status]

Shown(g, status) == [pass |-> g, participant |-> g, status |-> status]

\* What an answer may say of a reservation: what it is, or has been.
SoFar ==
    [none |-> {"none"}, locked |-> {"none", "locked"}, ended |-> {"none", "locked", "ended"}]

\* An inspection is answered, in any order, with a reservation that may have changed
\* since it was read: it replaces the candidate, and says that nothing is being read
\* any more.
InspectionAnswered(r) ==
    LET g == reads[r]
    IN  /\ g # None
        /\ reads' = [reads EXCEPT ![r] = None]
        /\ reading' = FALSE
        /\ \E status \in SoFar[chain[g]] :
               IF status = "none"
               THEN failed' = TRUE /\ UNCHANGED candidate
               ELSE candidate' = Shown(g, status) /\ UNCHANGED failed
        /\ UNCHANGED <<camera, chain, tx, job>>

InspectionFails(r) ==
    /\ reads[r] # None
    /\ reads' = [reads EXCEPT ![r] = None]
    /\ reading' = FALSE
    /\ failed' = TRUE
    /\ UNCHANGED <<camera, chain, candidate, tx, job>>

-----------------------------------------------------------------------------
(* confirmCheckIn *)

BusyIgnored == TRUE                         \* faulty: the button's own state only
NotBusy == job = None

\* The button is there for a candidate on the screen whose reservation is locked.  That
\* check-in was open and the guest could be paid when they were read, and that the
\* wallet is on the right network, may hold or not: the button is not always pressed.
CanConfirm ==
    /\ Authorized
    /\ ~reading /\ ~failed
    /\ candidate # None /\ candidate.status = "locked"
    /\ tx # "running"
    /\ NotBusy

Confirm ==
    /\ CanConfirm
    /\ job' = [participant |-> candidate.pass, step |-> "sending"]
    /\ tx' = "running"
    /\ UNCHANGED <<camera, chain, candidate, failed, reading, reads>>

\* Each phase of the pipeline is shown, also after an inspection cleared the line.
PhaseShown ==
    /\ job # None /\ job.step = "sending" /\ tx # "running"
    /\ tx' = "running"
    /\ UNCHANGED <<camera, chain, candidate, failed, reading, reads, job>>

CheckedIn ==
    /\ job # None /\ job.step = "sending" /\ chain[job.participant] = "locked"
    /\ chain' = [chain EXCEPT ![job.participant] = "ended"]
    /\ job' = [job EXCEPT !.step = "confirmed"]
    /\ UNCHANGED <<camera, candidate, failed, reading, reads, tx>>

\* faulty: no look at whether there is a candidate
MergedIntoNothing(g) ==
    IF candidate = None THEN [pass |-> None, participant |-> g, status |-> chain[g]]
    ELSE [candidate EXCEPT !.participant = g, !.status = chain[g]]

\* The reservation of the job's participant goes into whatever candidate is shown.
Merged(g) ==
    IF candidate = None THEN None
    ELSE [candidate EXCEPT !.participant = g, !.status = chain[g]]

CheckInShown ==
    /\ job # None /\ job.step = "confirmed"
    /\ candidate' = Merged(job.participant)
    /\ tx' = "success"
    /\ job' = None
    /\ UNCHANGED <<camera, chain, failed, reading, reads>>

\* The pipeline fails, or the read that follows it; the reservation is read again.
CheckInFails ==
    /\ job # None /\ job.step \in {"sending", "confirmed"}
    /\ job' = [job EXCEPT !.step = "recovering"]
    /\ UNCHANGED <<camera, chain, candidate, failed, reading, reads, tx>>

FailureShown ==
    /\ job # None /\ job.step = "recovering"
    /\ candidate' \in {Merged(job.participant), candidate}
    /\ tx' = "failure"
    /\ job' = None
    /\ UNCHANGED <<camera, chain, failed, reading, reads>>

-----------------------------------------------------------------------------
\* Other pages change the contract: a guest reserves, and cancels or is checked in.
Elsewhere(g) ==
    /\ \/ chain[g] = "none" /\ chain' = [chain EXCEPT ![g] = "locked"]
       \/ chain[g] = "locked" /\ chain' = [chain EXCEPT ![g] = "ended"]
    /\ UNCHANGED <<camera, page>>

\* Leaving the page forgets what it shows; what it sent may still land.
Leave ==
    /\ LeaveCamera
    /\ candidate' = None /\ failed' = FALSE /\ reading' = FALSE /\ tx' = "idle"
    /\ reads' = [r \in Read |-> None]
    /\ job' = None
    /\ UNCHANGED chain

\* The account that the wallet is connected to changes, or its network, or there is
\* none any more (useWallet): nothing on the page takes notice but what it shows.
WalletChanges ==
    /\ signer' \in Signer \ {signer}
    /\ UNCHANGED <<camera, chain, page>>

CameraStep ==
    /\ \/ Authorized /\ (StartCamera \/ StopCamera)
       \/ \E s \in Start : ReaderStep(s) \/ DecodingFails(s)
    /\ UNCHANGED <<chain, page>>

PageStep ==
    \/ CameraStep
    \/ \E s \in Start : ScanForeignCode(s) \/ \E g \in Guest : ScanPass(s, g)
    \/ \E g \in Guest : LookUp(g) \/ Elsewhere(g)
    \/ LookUpNonsense
    \/ \E r \in Read : InspectionAnswered(r) \/ InspectionFails(r)
    \/ Confirm \/ PhaseShown \/ CheckedIn \/ CheckInShown \/ CheckInFails \/ FailureShown
    \/ Leave

Next == WalletChanges \/ (PageStep /\ UNCHANGED signer)

Spec == Init /\ [][Next]_vars

\* The browser answers, and a reader that is on calls back again and again, whether
\* or not its picture is on the screen.
CameraFairness == \A s \in Start : WF_vars(ReaderStep(s) /\ UNCHANGED <<chain, signer, page>>)
FairSpec == Spec /\ CameraFairness

-----------------------------------------------------------------------------
\* A code reaches the page only while the hook says that its camera is in use: not
\* from a reader that was stopped, replaced, or left behind by an earlier visit.
CodesOnlyFromCamera ==
    [][(\E s \in Start : CodeFound(s)) => scanner \in {"requesting", "scanning"}]_vars

\* Once the camera was stopped or the page left, every reader that got hold of the
\* device lets go of it, those that were granted it afterwards included, whoever
\* the wallet stands for by then.
CameraReleased ==
    \A s \in Start : Holds(s) /\ scanner = "idle" ~> ~Holds(s)

\* The candidate is one guest: its pass and the reservation shown.
OneGuest == candidate # None => candidate.participant = candidate.pass

\* Inspections that overlap and answer in any order never mix two guests; the
\* only step that does is the end of a check-in for another guest.
MixedOnlyByCheckIn ==
    [][OneGuest => \/ OneGuest'
                   \/ /\ job # None /\ job' = None
                      /\ job.participant # candidate.pass]_vars

\* The page waits for the check-in it has sent before it sends another, even
\* when an inspection has cleared the transaction line in between.
OneCheckInAtATime ==
    [][job # None /\ job' # None => job'.participant = job.participant]_vars

\* docs/architecture/SYSTEM.md:1237-1239, "The scanner then reads that reservation
\* from the contract and shows the organizer who they are about to check in":
\* who is checked in is the participant on the screen.
ChecksInWhoIsShown == [][Confirm => job'.participant = candidate.participant]_vars
=============================================================================
