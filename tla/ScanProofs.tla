------------------------------ MODULE ScanProofs ------------------------------
(***************************************************************************)
(* Proofs about the check-in page, for any number of guests, inspections   *)
(* and starts of the camera.                                               *)
(***************************************************************************)
EXTENDS ScanPage, TLAPS

USE CameraAssumption, ScanAssumption

-----------------------------------------------------------------------------
(* The camera *)

CameraInv == CameraTypeOK /\ CameraUnderControl

\* Every step of the hook, whoever calls it.
CameraMoves ==
    \/ StartCamera \/ StopCamera \/ LeaveCamera
    \/ \E s \in Start : ReaderStep(s) \/ CodeFound(s) \/ DecodingFails(s)

LEMMA NoneIsNoStart == None \notin Start
  BY DEF Start

\* No reader exists at the start.
LEMMA CameraStartsUnderControl == Init => CameraInv
  BY NoneIsNoStart DEF Init, CameraInit, CameraInv, CameraTypeOK, CameraUnderControl,
     ScannerState, ReaderState

\* Whatever the camera does keeps every reader that is on under control.
LEMMA CameraStepKeepsControl == CameraInv /\ CameraMoves => CameraInv'
<1> SUFFICES ASSUME CameraInv, CameraMoves PROVE CameraInv'
  OBVIOUS
<1> USE NoneIsNoStart DEF CameraInv, CameraTypeOK, CameraUnderControl, Current, ScannerState, ReaderState
<1>1. CASE StartCamera
  <2> DEFINE s == starts + 1
  <2>1. s \in Start /\ starts' = s /\ starts' \in 0..MaxStarts
    BY <1>1 DEF StartCamera, Start
  <2>2. \A x \in Start : reader[x] # "controlled"
    BY <1>1 DEF StartCamera
  <2>3. \A x \in Start : reader'[x] # "controlled" /\ reader'[x] \in ReaderState
    BY <1>1, <2>1, <2>2 DEF StartCamera, Released
  <2> QED
    BY <1>1, <2>1, <2>3 DEF StartCamera, Released
<1>2. CASE StopCamera \/ LeaveCamera
  <2>1. \A x \in Start : reader'[x] # "controlled" /\ reader'[x] \in ReaderState
    BY <1>2 DEF StopCamera, LeaveCamera, Released
  <2> QED
    BY <1>2, <2>1 DEF StopCamera, LeaveCamera, Released
<1>3. ASSUME NEW s \in Start, Imported(s) \/ Opened(s) \/ StaleFrame(s)
      PROVE  CameraInv'
  <2>1. \A x \in Start : reader'[x] = "controlled" => reader[x] = "controlled"
    BY <1>3 DEF Imported, Opened, StaleFrame
  <2> QED
    BY <1>3, <2>1 DEF Imported, Opened, StaleFrame
<1>4. ASSUME NEW s \in Start, Controlled(s) PROVE CameraInv'
  <2>1. CASE Current(s)
    <3>1. \A x \in Start : reader'[x] = "controlled" => x = s
      BY <1>4, <2>1 DEF Controlled
    <3> QED
      BY <1>4, <2>1, <3>1 DEF Controlled
  <2>2. CASE ~Current(s)
    BY <1>4, <2>2 DEF Controlled
  <2> QED
    BY <2>1, <2>2
<1>5. ASSUME NEW s \in Start, StartFails(s) PROVE CameraInv'
  <2>1. CASE Current(s)
    <3>1. \A x \in Start : reader'[x] # "controlled" /\ reader'[x] \in ReaderState
      BY <1>5, <2>1 DEF StartFails, Released
    <3> QED
      BY <1>5, <2>1, <3>1 DEF StartFails, Released
  <2>2. CASE ~Current(s)
    BY <1>5, <2>2 DEF StartFails
  <2> QED
    BY <2>1, <2>2
<1>6. ASSUME NEW s \in Start, CodeFound(s) \/ DecodingFails(s) PROVE CameraInv'
  <2>1. \A x \in Start : reader'[x] # "controlled"
    BY <1>6 DEF CodeFound, DecodingFails, LastFrame
  <2> QED
    BY <1>6, <2>1 DEF CodeFound, DecodingFails, LastFrame
<1> QED
  BY <1>1, <1>2, <1>3, <1>4, <1>5, <1>6 DEF CameraMoves, ReaderStep

\* The page opens and closes the camera only through the hook.
LEMMA StepMovesCamera == [Next]_vars => CameraMoves \/ UNCHANGED camera
<1> SUFFICES ASSUME [Next]_vars PROVE CameraMoves \/ UNCHANGED camera
  OBVIOUS
<1>1. CASE CameraStep
  BY <1>1 DEF CameraStep, CameraMoves
<1>2. ASSUME NEW s \in Start, ScanForeignCode(s) \/ \E g \in Guest : ScanPass(s, g)
      PROVE  CameraMoves
  BY <1>2 DEF ScanForeignCode, ScanPass, CameraMoves
<1>3. ASSUME NEW g \in Guest, LookUp(g) \/ Elsewhere(g) PROVE UNCHANGED camera
  BY <1>3 DEF LookUp, Elsewhere
<1>4. ASSUME NEW r \in Read, InspectionAnswered(r) \/ InspectionFails(r)
      PROVE  UNCHANGED camera
  BY <1>4 DEF InspectionAnswered, InspectionFails
<1>5. CASE LookUpNonsense \/ Confirm \/ PhaseShown \/ CheckedIn \/ CheckInShown
           \/ CheckInFails \/ FailureShown
  BY <1>5 DEF LookUpNonsense, Confirm, PhaseShown, CheckedIn, CheckInShown,
              CheckInFails, FailureShown
<1>6. CASE Leave
  BY <1>6 DEF Leave, CameraMoves
<1>7. CASE UNCHANGED vars \/ WalletChanges
  BY <1>7 DEF vars, WalletChanges
<1> QED
  BY <1>1, <1>2, <1>3, <1>4, <1>5, <1>6, <1>7 DEF Next, PageStep

\* However starts, stops, grants, frames and changes of the wallet interleave, the
\* hook keeps hold of the camera whose controls it was given, so that its stop and
\* its end release it.  (A page whose wallet is not the verifier's has no button.)
THEOREM CameraSafe == Spec => []CameraUnderControl
<1>1. Init => CameraInv
  BY CameraStartsUnderControl
<1>2. CameraInv /\ [Next]_vars => CameraInv'
  <2>1. CameraInv /\ UNCHANGED camera => CameraInv'
    BY DEF CameraInv, CameraTypeOK, CameraUnderControl, Current, camera
  <2> QED
    BY <2>1, CameraStepKeepsControl, StepMovesCamera
<1>3. CameraInv => CameraUnderControl
  BY DEF CameraInv
<1> QED
  BY <1>1, <1>2, <1>3, PTL DEF Spec

\* The reader that owns the generation is one that the hook speaks of, or it has
\* ended with an error.
OwnerShown == \A s \in Start : Current(s) => scanner \in {"requesting", "scanning"} \/ reader[s] = "off"

LEMMA OwnerStaysShown == CameraTypeOK /\ OwnerShown /\ CameraMoves => OwnerShown'
<1> SUFFICES ASSUME CameraTypeOK, OwnerShown, CameraMoves PROVE OwnerShown'
  OBVIOUS
<1> USE NoneIsNoStart DEF OwnerShown, CameraTypeOK, Current
<1>1. CASE StartCamera
  <2>1. starts + 1 \in Start
    BY <1>1 DEF StartCamera, Start
  <2> QED
    BY <1>1, <2>1 DEF StartCamera, Released
<1>2. CASE StopCamera \/ LeaveCamera
  BY <1>2 DEF StopCamera, LeaveCamera
<1>3. ASSUME NEW s \in Start, Imported(s) \/ Opened(s) \/ StaleFrame(s) PROVE OwnerShown'
  BY <1>3 DEF Imported, Opened, StaleFrame, Holds
<1>4. ASSUME NEW s \in Start, Controlled(s) \/ StartFails(s) PROVE OwnerShown'
  BY <1>4 DEF Controlled, StartFails, Released
<1>5. ASSUME NEW s \in Start, CodeFound(s) \/ DecodingFails(s) PROVE OwnerShown'
  BY <1>5 DEF CodeFound, DecodingFails, LastFrame
<1> QED
  BY <1>1, <1>2, <1>3, <1>4, <1>5 DEF CameraMoves, ReaderStep

\* However late a reader decodes its frame, a code that reaches the page comes from
\* the camera that the hook says is in use.
THEOREM CodesFromCamera == Spec => CodesOnlyFromCamera
<1>1. Init => CameraInv /\ OwnerShown
  BY CameraStartsUnderControl, NoneIsNoStart DEF Init, CameraInit, OwnerShown, Current
<1>2. CameraInv /\ OwnerShown /\ [Next]_vars => (CameraInv /\ OwnerShown)'
  <2>1. CameraInv /\ OwnerShown /\ UNCHANGED camera => (CameraInv /\ OwnerShown)'
    BY DEF CameraInv, CameraTypeOK, CameraUnderControl, OwnerShown, Current, camera
  <2> QED
    BY <2>1, CameraStepKeepsControl, OwnerStaysShown, StepMovesCamera DEF CameraInv
<1>3. OwnerShown /\ [Next]_vars =>
        [(\E s \in Start : CodeFound(s)) => scanner \in {"requesting", "scanning"}]_vars
  BY DEF OwnerShown, CodeFound, LastFrame, Holds
<1> QED
  BY <1>1, <1>2, <1>3, PTL DEF Spec, CodesOnlyFromCamera

-----------------------------------------------------------------------------
(* The page *)

PageTypeOK ==
    /\ chain \in [Guest -> ReservationStatus]
    /\ signer \in Signer
    /\ candidate \in Candidate \cup {None}
    /\ failed \in BOOLEAN /\ reading \in BOOLEAN
    /\ reads \in [Read -> Guest \cup {None}]
    /\ tx \in {"idle", "running", "success", "failure"}
    /\ job \in Job \cup {None}

\* The page starts with nothing shown and nothing in flight.
LEMMA PageStartsTyped == Init => PageTypeOK
  BY DEF Init, PageTypeOK, ReservationStatus

\* An answer says something that a reservation can be.
LEMMA AnswerType == \A status \in ReservationStatus : SoFar[status] \subseteq ReservationStatus
  BY DEF SoFar, ReservationStatus

\* A reservation merged into the candidate leaves a candidate, or nothing.
LEMMA MergedType ==
  ASSUME NEW g \in Guest, candidate \in Candidate \cup {None},
         chain \in [Guest -> ReservationStatus]
  PROVE  Merged(g) \in Candidate \cup {None}
  BY DEF Merged, Candidate

\* Every step of the page keeps the types of what it shows and awaits.
LEMMA PageStepKeepsTypes == PageTypeOK /\ [Next]_vars => PageTypeOK'
<1> SUFFICES ASSUME PageTypeOK, [Next]_vars PROVE PageTypeOK'
  OBVIOUS
<1>0. signer' \in Signer
  BY DEF Next, WalletChanges, vars, PageTypeOK
<1> USE <1>0 DEF PageTypeOK
<1>1. CASE CameraStep
  BY <1>1 DEF CameraStep, page
<1>2. ASSUME NEW g \in Guest, Inspect(g) PROVE PageTypeOK'
  <2>1. PICK r \in Read : reads' = [reads EXCEPT ![r] = g]
    BY <1>2 DEF Inspect
  <2> QED
    BY <1>2, <2>1 DEF Inspect
<1>3. ASSUME NEW s \in Start, ScanForeignCode(s) \/ \E g \in Guest : ScanPass(s, g)
      PROVE  PageTypeOK'
  <2>1. CASE ScanForeignCode(s)
    BY <2>1 DEF ScanForeignCode, Refuse
  <2> QED
    BY <1>2, <1>3, <2>1 DEF ScanPass
<1>4. ASSUME NEW g \in Guest, LookUp(g) PROVE PageTypeOK'
  BY <1>2, <1>4 DEF LookUp
<1>5. ASSUME NEW g \in Guest, Elsewhere(g) PROVE PageTypeOK'
  BY <1>5 DEF Elsewhere, page, ReservationStatus
<1>6. ASSUME NEW r \in Read, InspectionAnswered(r) PROVE PageTypeOK'
  <2>1. reads[r] \in Guest
    BY <1>6 DEF InspectionAnswered
  <2>2. \A status \in SoFar[chain[reads[r]]] : Shown(reads[r], status) \in Candidate
    BY <2>1, AnswerType DEF Shown, Candidate
  <2> QED
    BY <1>6, <2>1, <2>2 DEF InspectionAnswered
<1>7. ASSUME NEW r \in Read, InspectionFails(r) PROVE PageTypeOK'
  BY <1>7 DEF InspectionFails
<1>8. CASE LookUpNonsense
  BY <1>8 DEF LookUpNonsense
<1>9. CASE Confirm
  BY <1>9, ScanAssumption DEF Confirm, CanConfirm, Candidate, Job
<1>10. CASE PhaseShown \/ CheckInFails
  BY <1>10, ScanAssumption DEF PhaseShown, CheckInFails, Job
<1>11. CASE CheckedIn
  BY <1>11 DEF CheckedIn, Job, ReservationStatus
<1>12. CASE CheckInShown \/ FailureShown
  <2>1. job.participant \in Guest
    BY <1>12 DEF CheckInShown, FailureShown, Job
  <2>2. Merged(job.participant) \in Candidate \cup {None}
    BY <2>1, MergedType
  <2> QED
    BY <1>12, <2>2 DEF CheckInShown, FailureShown
<1>13. CASE Leave
  BY <1>13 DEF Leave
<1>14. CASE UNCHANGED vars \/ WalletChanges
  BY <1>14 DEF vars, page, WalletChanges
<1> QED
  BY <1>1, <1>3, <1>4, <1>5, <1>6, <1>7, <1>8, <1>9, <1>10, <1>11, <1>12, <1>13, <1>14
     DEF Next, PageStep

\* The type invariant of the page, camera included.
THEOREM TypeCorrect == Spec => []TypeOK
<1>1. Init => CameraInv /\ PageTypeOK
  BY CameraStartsUnderControl, PageStartsTyped
<1>2. CameraInv /\ PageTypeOK /\ [Next]_vars => (CameraInv /\ PageTypeOK)'
  <2>1. CameraInv /\ UNCHANGED camera => CameraInv'
    BY DEF CameraInv, CameraTypeOK, CameraUnderControl, Current, camera
  <2> QED
    BY <2>1, CameraStepKeepsControl, StepMovesCamera, PageStepKeepsTypes
<1>3. CameraInv /\ PageTypeOK => TypeOK
  BY DEF CameraInv, PageTypeOK, TypeOK
<1> QED
  BY <1>1, <1>2, <1>3, PTL DEF Spec

-----------------------------------------------------------------------------
(* What a step of the page may never do *)

\* Inspections answered in any order never show the reservation of one guest
\* under the pass of another; only the end of a check-in can.
THEOREM InspectionsNeverMix == Spec => MixedOnlyByCheckIn
<1> DEFINE Mixes == OneGuest => \/ OneGuest'
                                \/ /\ job # None /\ job' = None
                                   /\ job.participant # candidate.pass
<1>1. PageTypeOK /\ [Next]_vars => [Mixes]_vars
  <2> SUFFICES ASSUME PageTypeOK, Next, OneGuest
               PROVE  OneGuest' \/ (job # None /\ job' = None /\ job.participant # candidate.pass)
    OBVIOUS
  <2>1. CASE UNCHANGED candidate \/ candidate' = None
    BY <2>1 DEF OneGuest
  <2>2. ASSUME NEW r \in Read, InspectionAnswered(r) PROVE OneGuest'
    BY <2>1, <2>2 DEF InspectionAnswered, Shown, OneGuest
  <2>3. CASE CheckInShown \/ FailureShown
    BY <2>3 DEF CheckInShown, FailureShown, Merged, OneGuest, PageTypeOK, Candidate
  <2> QED
    BY <2>1, <2>2, <2>3 DEF Next, PageStep, WalletChanges, CameraStep, page, ScanForeignCode,
       ScanPass, Inspect, Refuse, LookUp, Elsewhere, LookUpNonsense, InspectionFails, Confirm, PhaseShown, CheckedIn,
       CheckInFails, Leave
<1>2. Spec => []PageTypeOK
  BY PageStartsTyped, PageStepKeepsTypes, PTL DEF Spec
<1> QED
  BY <1>1, <1>2, PTL DEF Spec, MixedOnlyByCheckIn

\* While a check-in is in flight no step sends another.
THEOREM CheckInsInTurn == Spec => OneCheckInAtATime
<1> DEFINE InTurn == job # None /\ job' # None => job'.participant = job.participant
<1>1. PageTypeOK /\ [Next]_vars => [InTurn]_vars
  <2> SUFFICES ASSUME PageTypeOK, Next, job # None, job' # None
               PROVE  job'.participant = job.participant
    OBVIOUS
  <2>1. CASE UNCHANGED job
    BY <2>1
  <2>2. CASE Confirm
    BY <2>2 DEF Confirm, CanConfirm, NotBusy
  <2>3. CASE CheckedIn \/ CheckInFails
    BY <2>3 DEF CheckedIn, CheckInFails, PageTypeOK, Job
  <2> QED
    BY <2>1, <2>2, <2>3 DEF Next, PageStep, WalletChanges, CameraStep, page, ScanForeignCode,
       ScanPass, Inspect, Refuse, LookUp, Elsewhere, LookUpNonsense, InspectionAnswered, InspectionFails, PhaseShown,
       CheckInShown, FailureShown, Leave
<1>2. Spec => []PageTypeOK
  BY PageStartsTyped, PageStepKeepsTypes, PTL DEF Spec
<1> QED
  BY <1>1, <1>2, PTL DEF Spec, OneCheckInAtATime
=============================================================================
