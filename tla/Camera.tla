-------------------------------- MODULE Camera --------------------------------
(***************************************************************************)
(* The hook that owns the camera (apps/web/lib/qr/use-scanner.ts).  Every  *)
(* start takes a new generation, and everything that ends one adds another;*)
(* what a start awaits, and what its reader calls back, compares its       *)
(* generation with the current one.  Generations are only compared, so the *)
(* model keeps the start whose generation is the current one.              *)
(*                                                                         *)
(* A reader is named by its generation.  It is importing its library, then *)
(* opening the camera; then it is on, and calls back for every frame, even *)
(* before start has received the controls that stop it.                    *)
(***************************************************************************)
EXTENDS Naturals, Nothing

CONSTANT
    MaxStarts       \* bound: times the camera is started

ASSUME CameraAssumption == MaxStarts \in Nat \ {0} /\ None \notin Nat

VARIABLES
    scanner,        \* the state the hook returns
    current,        \* generationRef: the start that took it, or None after it ended
    controls,       \* controlsRef: the reader it can stop, or None
    starts,         \* the number of starts so far
    reader          \* per start: what its reader is doing

camera == <<scanner, current, controls, starts, reader>>

Start == 1..MaxStarts
ScannerState == {"idle", "requesting", "scanning", "error"}
ReaderState == {"none", "importing", "opening", "on", "controlled", "off"}

CameraTypeOK ==
    /\ scanner \in ScannerState
    /\ current \in Start \cup {None}
    /\ controls \in Start \cup {None}
    /\ starts \in 0..MaxStarts
    /\ reader \in [Start -> ReaderState]

CameraInit ==
    /\ scanner = "idle"
    /\ current = None
    /\ controls = None
    /\ starts = 0
    /\ reader = [s \in Start |-> "none"]

-----------------------------------------------------------------------------
CurrentAlways(s) == TRUE                    \* faulty: no look at the generation

Current(s) == current = s

\* The camera is held: its indicator is on.
Holds(s) == reader[s] \in {"on", "controlled"}

\* faulty: the reference is dropped, the reader is not stopped
ReleasedUnstopped(r, s, what) == [x \in Start |-> IF x = s THEN what ELSE r[x]]

\* controlsRef.current?.stop(), besides what happens to reader s.
Released(r, s, what) ==
    [x \in Start |-> IF x = s THEN what ELSE IF x = controls THEN "off" ELSE r[x]]

\* start(): older readers are made stale before anything is awaited.
StartCamera ==
    LET s == starts + 1
    IN  /\ starts < MaxStarts
        /\ scanner \in {"idle", "error"}
        /\ starts' = s
        /\ current' = s
        /\ controls' = None
        /\ \/ scanner' = "requesting" /\ reader' = Released(reader, s, "importing")
           \/ scanner' = "error" /\ reader' = Released(reader, s, "off")   \* not supported

StopCamera ==
    /\ scanner \in {"requesting", "scanning"}
    /\ current' = None
    /\ reader' = Released(reader, None, "off")
    /\ controls' = None
    /\ scanner' = "idle"
    /\ UNCHANGED starts

\* The page is left, or reloaded: nothing is shown any more.  It may be opened again.
LeaveCamera ==
    /\ current' = None
    /\ reader' = Released(reader, None, "off")
    /\ controls' = None
    /\ scanner' = "idle"
    /\ UNCHANGED starts

Imported(s) ==
    /\ reader[s] = "importing"
    /\ reader' = [reader EXCEPT ![s] = IF Current(s) THEN "opening" ELSE "off"]
    /\ UNCHANGED <<scanner, current, controls, starts>>

\* The browser grants the camera, however late, and frames begin to be decoded.
Opened(s) ==
    /\ reader[s] = "opening"
    /\ reader' = [reader EXCEPT ![s] = "on"]
    /\ UNCHANGED <<scanner, current, controls, starts>>

\* start() receives the controls.
Controlled(s) ==
    /\ reader[s] = "on"
    /\ IF Current(s)
       THEN /\ reader' = [reader EXCEPT ![s] = "controlled"]
            /\ controls' = s
            /\ scanner' = "scanning"
       ELSE /\ reader' = [reader EXCEPT ![s] = "off"]
            /\ UNCHANGED <<controls, scanner>>
    /\ UNCHANGED <<current, starts>>

\* The library or the camera is refused.
StartFails(s) ==
    /\ reader[s] \in {"importing", "opening"}
    /\ IF Current(s)
       THEN /\ reader' = Released(reader, s, "off")
            /\ controls' = None
            /\ scanner' = "error"
       ELSE /\ reader' = [reader EXCEPT ![s] = "off"]
            /\ UNCHANGED <<controls, scanner>>
    /\ UNCHANGED <<current, starts>>

\* A frame is decoded by a reader of an old generation: it stops itself.
StaleFrame(s) ==
    /\ Holds(s) /\ ~Current(s)
    /\ reader' = [reader EXCEPT ![s] = "off"]
    /\ UNCHANGED <<scanner, current, controls, starts>>

\* A code is found, or decoding fails for good; a code goes to the page.
LastFrame(s, shown) ==
    /\ Holds(s) /\ Current(s)
    /\ current' = None
    /\ reader' = [reader EXCEPT ![s] = "off"]
    /\ controls' = None
    /\ scanner' = shown
    /\ UNCHANGED starts

CodeFound(s) == LastFrame(s, "idle")
DecodingFails(s) == LastFrame(s, "error")

ReaderStep(s) == Imported(s) \/ Opened(s) \/ Controlled(s) \/ StartFails(s) \/ StaleFrame(s)

-----------------------------------------------------------------------------
\* What the hook acts on never loses a camera: once start has received its
\* controls, a reader that is on is the one that stop, the next start and the end
\* of the page will release, of the current generation, and the state that the hook
\* returns is "scanning".  Whether the page shows that state is the page's affair.
CameraUnderControl ==
    \A s \in Start : reader[s] = "controlled" =>
        controls = s /\ Current(s) /\ scanner = "scanning"
=============================================================================
